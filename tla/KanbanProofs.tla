---------------------------- MODULE KanbanProofs ----------------------------
(***************************************************************************)
(* Theorems of Kanban, for any tasks, links, dispatchers and bounds: what  *)
(* each transaction does to a task, its claim and its runs, and that the   *)
(* board is a TaskBoard.                                                   *)
(***************************************************************************)
EXTENDS Kanban, TLAPS, FiniteSetTheorems, SequenceTheorems

USE KanbanAssumption DEF KanbanAssumption

\* A row that names a run is running, or blocked by the breaker while a
\* terminal has just claimed it.
Held == \A t \in Tasks :
    task[t].run # NoRun => task[t].status \in {"running", "blocked"}

\* What the transactions need of the board, and what they keep.
BoardTyped ==
    /\ task \in [Tasks -> Row] /\ links \subseteq Tasks \X Tasks
    /\ runs \in Seq(Run) /\ Len(runs) <= MaxRuns
BoardInv == BoardTyped /\ RunsInvariant /\ Held

\* A dispatcher that starts a worker has claimed a run within its budget.
Launching == \A d \in Dispatchers :
    disp[d].at \in {"launch", "record"} =>
        disp[d].run \in DOMAIN runs /\ disp[d].slots > 0
LocalInv ==
    /\ worker \in [RunIds -> {"none", "alive", "finishing", "gone"}]
    /\ disp \in [Dispatchers -> Ticking]
    /\ epoch \in [Dispatchers -> 0..MaxCrashes]
    /\ op \in Operation /\ ops \in 0..MaxOps
    /\ Launching

Inv == BoardInv /\ LocalInv

-----------------------------------------------------------------------------
(* The rows.                                                               *)

LEMMA RunsTyped ==
    ASSUME BoardTyped
    PROVE  /\ Len(runs) \in Nat /\ DOMAIN runs = 1..Len(runs)
           /\ DOMAIN runs \subseteq RunIds
           /\ \A r \in DOMAIN runs : runs[r] \in Run
<1>1. Len(runs) \in Nat /\ DOMAIN runs = 1..Len(runs)
  BY LenProperties DEF BoardTyped
<1>2. \A r \in DOMAIN runs : runs[r] \in Run
  BY <1>1, ElementOfSeq DEF BoardTyped
<1> QED BY <1>1, <1>2 DEF BoardTyped, RunIds

LEMMA UnclaimedTyped ==
    ASSUME NEW row \in Row, NEW s \in Statuses
    PROVE  /\ Unclaimed(row, s) \in Row
           /\ Unclaimed(row, s).status = s /\ Unclaimed(row, s).run = NoRun
           /\ Unclaimed(row, s).lock = NoLock
           /\ Unclaimed(row, s).fails = row.fails
<1>1. NoLock \in Locks
  BY DEF Locks
<1> QED BY <1>1 DEF Unclaimed, Row

\* The run that a row names is the open run of its task, and no other's.
LEMMA NamedRun ==
    ASSUME BoardInv, NEW t \in Tasks, task[t].run # NoRun
    PROVE  /\ task[t].run \in DOMAIN runs
           /\ runs[task[t].run].task = t /\ runs[task[t].run].state = "open"
           /\ \A u \in Tasks : task[u].run = task[t].run => u = t
<1>1. \A u \in Tasks : task[u].run # NoRun =>
          /\ task[u].run \in DOMAIN runs
          /\ runs[task[u].run].task = u /\ runs[task[u].run].state = "open"
  BY DEF BoardInv, RunsInvariant, OpenRuns
<1> QED BY <1>1

\* _end_run closes the run that the row names, and nothing else.
LEMMA EndedIs ==
    ASSUME BoardInv, NEW t \in Tasks, NEW o \in Outcomes
    PROVE  /\ Ended(t, o) \in Seq(Run) /\ Len(Ended(t, o)) = Len(runs)
           /\ \A r \in DOMAIN runs : Ended(t, o)[r] =
                  IF r = task[t].run THEN [runs[r] EXCEPT !.state = o] ELSE runs[r]
<1>1. CASE task[t].run = NoRun
  <2>1. Ended(t, o) = runs
    BY <1>1 DEF Ended
  <2>2. \A r \in DOMAIN runs : r # NoRun
    BY RunsTyped DEF BoardInv, NoRun
  <2> QED BY <1>1, <2>1, <2>2 DEF BoardInv, BoardTyped
<1>2. CASE task[t].run # NoRun
  <2> DEFINE r == task[t].run
             closed == [runs[r] EXCEPT !.state = o]
  <2>1. r \in 1..Len(runs) /\ runs[r] \in Run /\ runs[r].state = "open"
    BY <1>2, NamedRun, RunsTyped DEF BoardInv
  <2>2. closed \in Run
    BY <2>1 DEF Run
  <2>3. Ended(t, o) = [runs EXCEPT ![r] = closed]
    BY <1>2, <2>1 DEF Ended
  <2> HIDE DEF closed, r
  <2>4. /\ [runs EXCEPT ![r] = closed] \in Seq(Run)
        /\ Len([runs EXCEPT ![r] = closed]) = Len(runs)
        /\ \A i \in 1..Len(runs) :
               [runs EXCEPT ![r] = closed][i] = IF i = r THEN closed ELSE runs[i]
    BY <2>1, <2>2, ExceptSeq DEF BoardInv, BoardTyped
  <2> QED BY <2>3, <2>4, RunsTyped DEF BoardInv, closed, r
<1> QED BY <1>1, <1>2

-----------------------------------------------------------------------------
(* Three kinds of steps of the board.                                      *)

\* What a step of the board has to keep: the invariant, the runs there are, and
\* the contract.  All but a claim also start nothing: what runs afterwards ran
\* before, with the same claim.
BoardStep ==
    /\ BoardInv' /\ Len(runs') >= Len(runs)
    /\ \A r \in DOMAIN runs : runs'[r].task = runs[r].task
    /\ Contract!BoardNext \/ UNCHANGED Contract!boardVars
Kept ==
    /\ BoardStep
    /\ \A t \in Tasks : task'[t].status = "running" =>
           task[t].status = "running" /\ task'[t].lock = task[t].lock

\* No run starts or ends; rows change, their statuses as the contract says.
Moved(t) ==
    \/ Stage(t)' = Stage(t)
    \/ <<Stage(t), Stage(t)'>> \in Contract!Moves
    \/ Stage(t) = "todo" /\ Stage(t)' = "ready" /\ ParentsSettled(t)
    \/ Stage(t) \notin {"absent", "held"} /\ Stage(t)' = "archived"
SameClaim(t) ==
    /\ task'[t].run = task[t].run
    /\ task[t].run # NoRun => task'[t].status \in {"running", "blocked"}
    /\ task'[t].status = "running" =>
           task[t].status = "running" /\ task'[t].lock = task[t].lock

LEMMA SameClaims ==
    ASSUME BoardInv, task' \in [Tasks -> Row], links' \subseteq Tasks \X Tasks,
           UNCHANGED runs, \A t \in Tasks : SameClaim(t)
    PROVE  BoardInv'
<1>1. BoardTyped' /\ Held'
  BY DEF BoardInv, BoardTyped, Held, SameClaim
<1>2. RunsInvariant'
  BY DEF BoardInv, RunsInvariant, OpenRuns, SameClaim
<1> QED BY <1>1, <1>2 DEF BoardInv

\* A parent that is settled has no run.
LEMMA SettledIsMet ==
    ASSUME BoardInv, NEW t \in Tasks, ParentsSettled(t)
    PROVE  Contract!Met(t)
  BY DEF Contract!Met, ParentsSettled, Parents, Settled, Stage, BoardInv, Held

LEMMA ArrangeStep ==
    ASSUME BoardInv, UNCHANGED <<links, runs>>,
           \A t \in Tasks : task'[t].run = task[t].run /\ Moved(t)
    PROVE  Contract!BoardNext
<1>1. \A t \in Tasks : ParentsSettled(t) => Contract!Met(t)
  BY SettledIsMet
<1>2. [t \in Tasks |-> task'[t].run] = [t \in Tasks |-> task[t].run]
  OBVIOUS
<1>3. [r \in RunIds |-> Outcome(r)]' = [r \in RunIds |-> Outcome(r)]
  BY DEF Outcome
<1>4. Contract!Arrange
  BY <1>1, <1>2, <1>3 DEF Contract!Arrange, Moved
<1> QED BY <1>4 DEF Contract!BoardNext

LEMMA MoveStep ==
    ASSUME BoardInv, task' \in [Tasks -> Row], UNCHANGED <<links, runs>>,
           \A t \in Tasks : SameClaim(t) /\ Moved(t)
    PROVE  Kept
<1>1. links' \subseteq Tasks \X Tasks
  BY DEF BoardInv, BoardTyped
<1>2. Len(runs') >= Len(runs)
  BY RunsTyped DEF BoardInv
<1> QED BY <1>1, <1>2, SameClaims, ArrangeStep DEF Kept, BoardStep, SameClaim

LEMMA NoStep ==
    ASSUME BoardInv, UNCHANGED board
    PROVE  Kept
<1>1. Len(runs') >= Len(runs)
  BY RunsTyped DEF BoardInv, board
<1> QED BY <1>1 DEF Kept, BoardStep, board, BoardInv, BoardTyped, RunsInvariant, OpenRuns,
                    Held, Contract!boardVars, Stage, Outcome

\* Runs end: those that the rows of S name, with outcome o.
EndOf(S, o) ==
    /\ runs' \in Seq(Run) /\ Len(runs') = Len(runs)
    /\ \A r \in DOMAIN runs : runs'[r] =
           IF \E t \in S : task[t].run = r THEN [runs[r] EXCEPT !.state = o] ELSE runs[r]
    /\ task' \in [Tasks -> Row] /\ UNCHANGED links
    /\ \A t \in Tasks \ S : task'[t] = task[t]
    /\ \A t \in S : task[t].run # NoRun /\ task'[t].run = NoRun
                    /\ task'[t].status \in {"todo", "ready", "blocked", "done", "archived"}

LEMMA EndStep ==
    ASSUME BoardInv, NEW S \in SUBSET Tasks, NEW o \in Outcomes \ {"open"}, EndOf(S, o)
    PROVE  Kept
<1>1. /\ DOMAIN runs' = DOMAIN runs /\ Len(runs') >= Len(runs)
      /\ \A r \in DOMAIN runs : runs[r] \in Run
      /\ BoardTyped'
  BY RunsTyped, LenProperties DEF EndOf, BoardInv, BoardTyped
<1>2. \A t \in S : /\ task[t].run \in DOMAIN runs /\ runs[task[t].run].task = t
                   /\ runs[task[t].run].state = "open"
  BY NamedRun DEF EndOf
<1>3. \A r \in DOMAIN runs :
          /\ runs'[r].task = runs[r].task /\ runs'[r].lock = runs[r].lock
          /\ runs'[r].state = IF \E t \in S : task[t].run = r THEN o ELSE runs[r].state
  BY <1>1 DEF EndOf, Run
<1>4. RunsInvariant'
  <2> SUFFICES ASSUME NEW t \in Tasks
               PROVE  /\ OpenRuns(t)' = IF task'[t].run = NoRun THEN {} ELSE {task'[t].run}
                      /\ task'[t].status = "running" =>
                            task'[t].run # NoRun /\ task'[t].lock = runs'[task'[t].run].lock
    BY DEF RunsInvariant
  <2>1. OpenRuns(t) = IF task[t].run = NoRun THEN {} ELSE {task[t].run}
    BY DEF BoardInv, RunsInvariant
  <2>2. OpenRuns(t)' = {r \in OpenRuns(t) : ~ \E u \in S : task[u].run = r}
    BY <1>1, <1>3 DEF OpenRuns
  <2>3. CASE t \in S
    BY <2>1, <2>2, <2>3 DEF EndOf
  <2>4. CASE t \notin S
    <3>1. task'[t] = task[t]
      BY <2>4 DEF EndOf
    <3>2. \A u \in S : task[t].run # task[u].run
      BY <1>2, <2>4, NamedRun DEF EndOf
    <3>3. OpenRuns(t)' = OpenRuns(t)
      BY <2>1, <2>2, <3>2
    <3>4. task[t].run # NoRun => runs'[task[t].run].lock = runs[task[t].run].lock
      BY <1>3, NamedRun
    <3> QED BY <2>1, <3>1, <3>3, <3>4 DEF BoardInv, RunsInvariant
  <2> QED BY <2>3, <2>4
<1>5. Held'
  BY DEF Held, BoardInv, EndOf
<1>6. \A r \in RunIds :
          IF \E t \in Tasks : task[t].run = r /\ task'[t].run # r
          THEN Outcome(r) = "open" /\ Outcome(r)' \notin {"open", "unused"}
          ELSE Outcome(r)' = Outcome(r)
  <2> SUFFICES ASSUME NEW r \in RunIds
               PROVE  IF \E t \in Tasks : task[t].run = r /\ task'[t].run # r
                      THEN Outcome(r) = "open" /\ Outcome(r)' \notin {"open", "unused"}
                      ELSE Outcome(r)' = Outcome(r)
    OBVIOUS
  <2>1. r # NoRun
    BY DEF RunIds, NoRun
  <2>2. (\E t \in Tasks : task[t].run = r /\ task'[t].run # r)
            <=> \E t \in S : task[t].run = r
    BY <2>1 DEF EndOf
  <2>3. o # "open" /\ o # "unused"
    BY DEF Outcomes
  <2> QED BY <1>1, <1>2, <1>3, <2>2, <2>3 DEF Outcome
<1>7. \A t \in Tasks :
          \/ Stage(t)' = Stage(t) /\ task'[t].run = task[t].run
          \/ /\ Stage(t) = "held" /\ task'[t].run = NoRun
             /\ Stage(t)' \in {"todo", "ready", "blocked", "done", "archived"}
  BY DEF EndOf, Stage
<1>8. Contract!Finish
  BY <1>6, <1>7 DEF Contract!Finish, EndOf
<1>9. BoardStep
  BY <1>1, <1>3, <1>4, <1>5, <1>8 DEF BoardStep, BoardInv, Contract!BoardNext
<1>10. \A t \in Tasks : task'[t].status = "running" =>
           task[t].status = "running" /\ task'[t].lock = task[t].lock
  BY DEF EndOf
<1> QED BY <1>9, <1>10 DEF Kept

-----------------------------------------------------------------------------
(* The transactions.                                                       *)

\* One task is freed: its run, if it has one, ends.
LEMMA FreeStep ==
    ASSUME BoardInv, NEW t \in Tasks, NEW row \in Row, NEW o \in Outcomes \ {"open"},
           task' = [task EXCEPT ![t] = row], runs' = Ended(t, o), UNCHANGED links,
           row.run = NoRun,
           task[t].run # NoRun =>
               row.status \in {"todo", "ready", "blocked", "done", "archived"},
           task[t].run = NoRun =>
               \/ row.status = task[t].status
               \/ <<task[t].status, row.status>> \in Contract!Moves
               \/ task[t].status # "absent" /\ row.status = "archived"
    PROVE  Kept
<1>1. /\ task' \in [Tasks -> Row] /\ task'[t] = row
      /\ \A u \in Tasks : u # t => task'[u] = task[u]
  BY DEF BoardInv, BoardTyped
<1>2. CASE task[t].run # NoRun
  <2>1. EndOf({t}, o)
    BY <1>1, <1>2, EndedIs DEF EndOf
  <2> QED BY <2>1, EndStep
<1>3. CASE task[t].run = NoRun
  <2>1. runs' = runs
    BY <1>3 DEF Ended
  <2>2. task[t].status # "running"
    BY <1>3 DEF BoardInv, RunsInvariant
  <2>3. row.status # "running"
    BY <1>3, <2>2 DEF Contract!Moves
  <2>4. \A u \in Tasks : SameClaim(u)
    BY <1>1, <1>3, <2>3 DEF SameClaim, BoardInv, Held
  <2>5. Moved(t)
    <3>1. Stage(t) = task[t].status /\ Stage(t)' = row.status
      BY <1>1, <1>3 DEF Stage
    <3>2. task[t].status # "held"
      BY DEF BoardInv, BoardTyped, Row, Statuses
    <3> QED BY <1>3, <3>1, <3>2 DEF Moved
  <2>6. \A u \in Tasks : Moved(u)
    BY <1>1, <2>5 DEF Moved, Stage
  <2> QED BY <1>1, <2>1, <2>4, <2>6, MoveStep
<1> QED BY <1>2, <1>3

LEMMA CloseStep ==
    ASSUME BoardInv, NEW t \in Tasks, NEW o \in Outcomes \ {"open"},
           NEW s \in {"ready", "blocked", "done", "archived"}, Close(t, s, o),
           task[t].run = NoRun =>
               \/ s = task[t].status
               \/ <<task[t].status, s>> \in Contract!Moves
               \/ task[t].status # "absent" /\ s = "archived"
    PROVE  Kept
<1>1. s \in Statuses /\ task[t] \in Row
  BY DEF Statuses, BoardInv, BoardTyped
<1>2. /\ Unclaimed(task[t], s) \in Row
      /\ Unclaimed(task[t], s).run = NoRun /\ Unclaimed(task[t], s).status = s
  BY <1>1, UnclaimedTyped
<1>3. task' = [task EXCEPT ![t] = Unclaimed(task[t], s)] /\ runs' = Ended(t, o)
      /\ UNCHANGED links
  BY DEF Close
<1> QED BY <1>2, <1>3, FreeStep

\* A row changes that no claim and no run depends on.
LEMMA RowStep ==
    ASSUME BoardInv, NEW t \in Tasks, NEW row \in Row,
           task' = [task EXCEPT ![t] = row], UNCHANGED <<links, runs>>,
           row.run = task[t].run, row.lock = task[t].lock,
           \/ row.status = task[t].status
           \/ <<task[t].status, row.status>> \in
                  {<<"running", "blocked">>, <<"ready", "blocked">>,
                   <<"ready", "todo">>, <<"triage", "todo">>}
    PROVE  Kept
<1>1. /\ task' \in [Tasks -> Row] /\ task'[t] = row
      /\ \A u \in Tasks : u # t => task'[u] = task[u]
  BY DEF BoardInv, BoardTyped
<1>2. task[t].status = "running" => task[t].run # NoRun
  BY DEF BoardInv, RunsInvariant
<1>3. task[t].run # NoRun => task[t].status \in {"running", "blocked"}
  BY DEF BoardInv, Held
<1>4. SameClaim(t)
  BY <1>1, <1>3 DEF SameClaim
<1>5. Moved(t)
  BY <1>1, <1>2, <1>3 DEF Moved, Stage, Contract!Moves
<1>6. \A u \in Tasks : SameClaim(u) /\ Moved(u)
  BY <1>1, <1>4, <1>5 DEF SameClaim, Moved, Stage, BoardInv, Held
<1> QED BY <1>1, <1>6, MoveStep

\* claim_task: the run is new, and the task is the claimant's.
LEMMA ClaimStep ==
    ASSUME BoardInv, NEW t \in Tasks, NEW l \in Locks, Claim(t, l)
    PROVE  /\ BoardStep /\ Len(runs') = Len(runs) + 1
           /\ \A r \in DOMAIN runs : runs'[r] = runs[r]
           /\ runs'[Len(runs) + 1].task = t /\ task'[t].lock = l
           /\ \A u \in Tasks : u # t => task'[u] = task[u]
<1> DEFINE new == [task |-> t, lock |-> l, state |-> "open"]
           row == [task[t] EXCEPT !.status = "running", !.lock = l, !.run = Len(runs) + 1]
<1>1. /\ Len(runs) \in Nat /\ DOMAIN runs = 1..Len(runs)
      /\ Len(runs) + 1 \in RunIds /\ Len(runs) + 1 # NoRun
  BY RunsTyped DEF Claim, BoardInv, RunIds, NoRun
<1>2. task[t] \in Row /\ task[t].run = NoRun /\ task[t].status = "ready"
  BY DEF Claim, Claimable, BoardInv, BoardTyped, Held
<1>3. new \in Run /\ row \in Row
  BY <1>1, <1>2 DEF Run, Row, Outcomes, Statuses
<1>4. runs' = Append(runs, new)
  BY <1>2 DEF Claim, Ended
<1> HIDE DEF new
<1>5. /\ runs' \in Seq(Run) /\ Len(runs') = Len(runs) + 1
      /\ DOMAIN runs' = 1..(Len(runs) + 1)
      /\ \A r \in DOMAIN runs : runs'[r] = runs[r]
      /\ runs'[Len(runs) + 1] = new
  BY <1>1, <1>3, <1>4, AppendProperties, LenProperties DEF BoardInv, BoardTyped
<1>6. /\ task' \in [Tasks -> Row] /\ task'[t] = row
      /\ \A u \in Tasks : u # t => task'[u] = task[u]
  BY <1>3 DEF Claim, BoardInv, BoardTyped
<1>7. BoardTyped'
  BY <1>5, <1>6 DEF BoardInv, BoardTyped, Claim
<1>8. /\ row.status = "running" /\ row.lock = l /\ row.run = Len(runs) + 1
      /\ new.task = t /\ new.lock = l /\ new.state = "open"
  BY <1>2 DEF new, Row
<1> HIDE DEF row
<1>9. RunsInvariant'
  <2> SUFFICES ASSUME NEW u \in Tasks
               PROVE  /\ OpenRuns(u)' = IF task'[u].run = NoRun THEN {} ELSE {task'[u].run}
                      /\ task'[u].status = "running" =>
                            task'[u].run # NoRun /\ task'[u].lock = runs'[task'[u].run].lock
    BY DEF RunsInvariant
  <2>1. OpenRuns(u) = IF task[u].run = NoRun THEN {} ELSE {task[u].run}
    BY DEF BoardInv, RunsInvariant
  <2>2. OpenRuns(u)' = OpenRuns(u) \union (IF u = t THEN {Len(runs) + 1} ELSE {})
    BY <1>1, <1>5, <1>8 DEF OpenRuns
  <2>3. CASE u = t
    BY <1>1, <1>2, <1>5, <1>6, <1>8, <2>1, <2>2, <2>3
  <2>4. CASE u # t
    <3>1. task[u].run # NoRun => runs'[task[u].run] = runs[task[u].run]
      BY <1>5, NamedRun
    <3> QED BY <1>6, <2>1, <2>2, <2>4, <3>1 DEF BoardInv, RunsInvariant
  <2> QED BY <2>3, <2>4
<1>10. Held'
  BY <1>6, <1>8 DEF Held, BoardInv
<1>11. Contract!Start(t)
  <2>1. Contract!Met(t)
    BY SettledIsMet DEF Claim, Claimable
  <2>2. Stage(t) = "ready" /\ Stage(t)' = "held"
    BY <1>1, <1>2, <1>6, <1>8 DEF Stage
  <2>3. \A u \in Tasks : u # t => Stage(u)' = Stage(u) /\ task'[u].run = task[u].run
    BY <1>6 DEF Stage
  <2>4. Outcome(Len(runs) + 1) = "unused"
    BY <1>1 DEF Outcome
  <2>5. \A r \in RunIds : Outcome(r)' = IF r = Len(runs) + 1 THEN "open" ELSE Outcome(r)
    BY <1>1, <1>5, <1>8 DEF Outcome, RunIds
  <2>6. links' = links
    BY DEF Claim
  <2> DEFINE stage   == [u \in Tasks |-> Stage(u)]
             holder  == [u \in Tasks |-> task[u].run]
             outcome == [r \in RunIds |-> Outcome(r)]
  <2>7. stage' = [stage EXCEPT ![t] = "held"] /\ stage[t] = "ready"
    BY <2>2, <2>3
  <2>8. /\ holder' = [holder EXCEPT ![t] = holder'[t]]
        /\ holder'[t] = Len(runs) + 1
    BY <1>6, <1>8, <2>3
  <2>9. /\ outcome' = [outcome EXCEPT ![Len(runs) + 1] = "open"]
        /\ outcome[Len(runs) + 1] = "unused"
    BY <1>1, <2>4, <2>5
  <2> QED BY ONLY <1>1, <2>1, <2>6, <2>7, <2>8, <2>9 DEF Contract!Start
<1> QED BY <1>1, <1>5, <1>6, <1>7, <1>8, <1>9, <1>10, <1>11
        DEF BoardStep, BoardInv, Contract!BoardNext

LEMMA PromotedStep ==
    ASSUME BoardInv, RecomputeReady
    PROVE  Kept
<1> DEFINE up(t) == [task[t] EXCEPT !.status = "ready"]
<1>1. \A t \in Tasks : up(t) \in Row /\ up(t).status = "ready" /\ up(t).run = task[t].run
                       /\ up(t).lock = task[t].lock
  BY DEF BoardInv, BoardTyped, Row, Statuses
<1>2. \A t \in Tasks : task'[t] = IF task[t].status = "todo" /\ ParentsSettled(t)
                                  THEN up(t) ELSE task[t]
  BY DEF RecomputeReady, Promoted
<1> HIDE DEF up
<1>3. task' \in [Tasks -> Row]
  BY <1>1, <1>2 DEF RecomputeReady, Promoted, BoardInv, BoardTyped
<1>4. \A t \in Tasks : SameClaim(t)
  BY <1>1, <1>2 DEF SameClaim, BoardInv, Held
<1>5. \A t \in Tasks : Moved(t)
  BY <1>1, <1>2 DEF Moved, Stage
<1> QED BY <1>3, <1>4, <1>5, MoveStep DEF RecomputeReady

LEMMA DemoteStep ==
    ASSUME BoardInv, NEW t \in Tasks, Demote(t)
    PROVE  Kept
<1> DEFINE row == [task[t] EXCEPT !.status =
                      IF task[t].status = "ready" THEN "todo" ELSE task[t].status]
<1>1. task[t] \in Row
  BY DEF BoardInv, BoardTyped
<1>2. row \in Row /\ row.run = task[t].run /\ row.lock = task[t].lock
      /\ (row.status = task[t].status \/ (task[t].status = "ready" /\ row.status = "todo"))
  BY <1>1 DEF Row, Statuses
<1>3. task' = [task EXCEPT ![t] = row] /\ UNCHANGED <<links, runs>>
  BY DEF Demote
<1> HIDE DEF row
<1> QED BY <1>2, <1>3, RowStep

LEMMA RecordStep ==
    ASSUME BoardInv, NEW t \in Tasks, NEW limit \in Nat, RecordFailure(t, limit)
    PROVE  Kept
<1> DEFINE fails == task[t].fails + 1
           row == IF fails < Limit(t, limit) THEN [task[t] EXCEPT !.fails = fails]
                  ELSE IF task[t].status \in {"ready", "running"}
                  THEN [task[t] EXCEPT !.fails = fails, !.status = "blocked"] ELSE task[t]
<1>1. task[t] \in Row /\ fails \in Nat
  BY DEF BoardInv, BoardTyped, Row
<1>2. task' = [task EXCEPT ![t] = row] /\ UNCHANGED <<links, runs>>
  BY DEF RecordFailure
<1> HIDE DEF fails
<1>3. /\ row \in Row /\ row.run = task[t].run /\ row.lock = task[t].lock
      /\ \/ row.status = task[t].status
         \/ task[t].status \in {"ready", "running"} /\ row.status = "blocked"
  <2>1. \A s \in Statuses : [task[t] EXCEPT !.fails = fails, !.status = s] \in Row
    BY <1>1 DEF Row
  <2>2. [task[t] EXCEPT !.fails = fails] \in Row
    BY <1>1 DEF Row
  <2> QED BY <1>1, <2>1, <2>2 DEF Row, Statuses
<1> HIDE DEF row
<1> QED BY <1>2, <1>3, RowStep

LEMMA SpawnFailureStep ==
    ASSUME BoardInv, NEW t \in Tasks, RecordSpawnFailure(t)
    PROVE  Kept /\ task'[t].status # "running"
<1> DEFINE fails == task[t].fails + 1
           trip  == fails >= Limit(t, FailureLimit)
           held  == IF trip THEN {"running", "ready"} ELSE {"running"}
           freed == IF task[t].status \in held
                    THEN Unclaimed(task[t], IF trip THEN "blocked" ELSE "ready")
                    ELSE [task[t] EXCEPT !.run = NoRun]
           row   == IF task[t].status \in held THEN [freed EXCEPT !.fails = fails] ELSE freed
           o     == IF trip THEN "gave_up" ELSE "spawn_failed"
<1>1. task[t] \in Row /\ task[t].fails \in Nat
  BY DEF BoardInv, BoardTyped, Row
<1>2. task' = [task EXCEPT ![t] = row] /\ runs' = Ended(t, o) /\ UNCHANGED links
  <2>1. CASE task[t].status \in held
    BY <2>1 DEF RecordSpawnFailure
  <2>2. CASE task[t].status \notin held
    BY <2>2 DEF RecordSpawnFailure
  <2> QED BY <2>1, <2>2
<1>3. o \in Outcomes \ {"open"} /\ fails \in Nat
  BY <1>1 DEF Outcomes
<1> HIDE DEF o, fails
<1>4. /\ freed \in Row /\ freed.run = NoRun
      /\ freed.status = IF task[t].status \in held
                        THEN IF trip THEN "blocked" ELSE "ready" ELSE task[t].status
  <2>1. CASE task[t].status \in held
    BY <1>1, <2>1, UnclaimedTyped DEF Statuses
  <2>2. CASE task[t].status \notin held
    BY <1>1, <2>2 DEF Row, RunIds
  <2> QED BY <2>1, <2>2
<1> HIDE DEF freed
<1>5. row \in Row /\ row.run = NoRun /\ row.status = freed.status
  BY <1>3, <1>4 DEF Row
<1> HIDE DEF row
<1>6. task[t].run = NoRun => task[t].status # "running"
  BY DEF BoardInv, RunsInvariant
<1>7. task[t].run # NoRun => task[t].status \in {"running", "blocked"}
  BY DEF BoardInv, Held
<1>8. task[t].run # NoRun =>
          row.status \in {"todo", "ready", "blocked", "done", "archived"}
  BY <1>4, <1>5, <1>7
<1>9. task[t].run = NoRun =>
          row.status = task[t].status \/ <<task[t].status, row.status>> \in Contract!Moves
  BY <1>4, <1>5, <1>6 DEF Contract!Moves
<1>10. row.status # "running"
  BY <1>4, <1>5
<1>11. task'[t] = row
  BY <1>2, <1>5 DEF BoardInv, BoardTyped
<1> QED BY <1>2, <1>3, <1>5, <1>8, <1>9, <1>10, <1>11, FreeStep
-----------------------------------------------------------------------------
(* What the processes know.                                                *)

LEMMA SnapshotTyped ==
    ASSUME BoardTyped, NEW S \in SUBSET Tasks
    PROVE  Snapshot(S) \subseteq ReadRow
  BY DEF BoardTyped, Row, ReadRow, Snapshot

\* Whoever takes a step, a dispatcher that has claimed a run still has it.
LEMMA OtherStep ==
    ASSUME Inv, BoardStep, UNCHANGED <<disp, epoch>>,
           worker' \in [RunIds -> {"none", "alive", "finishing", "gone"}],
           op' \in Operation, ops' \in 0..MaxOps
    PROVE  LocalInv'
<1>1. DOMAIN runs \subseteq DOMAIN runs'
  BY RunsTyped, LenProperties DEF Inv, BoardInv, Kept, BoardStep, BoardTyped
<1> QED BY <1>1 DEF Inv, LocalInv, Launching

LEMMA DispStep ==
    ASSUME Inv, BoardStep, NEW d \in Dispatchers, NEW x \in Ticking,
           disp' = [disp EXCEPT ![d] = x], UNCHANGED <<op, ops>>,
           worker' \in [RunIds -> {"none", "alive", "finishing", "gone"}],
           epoch' \in [Dispatchers -> 0..MaxCrashes],
           x.at \in {"launch", "record"} => x.run \in DOMAIN runs' /\ x.slots > 0
    PROVE  LocalInv'
<1>1. DOMAIN runs \subseteq DOMAIN runs'
  BY RunsTyped, LenProperties DEF Inv, BoardInv, Kept, BoardStep, BoardTyped
<1>2. /\ disp' \in [Dispatchers -> Ticking] /\ disp'[d] = x
      /\ \A e \in Dispatchers : e # d => disp'[e] = disp[e]
  BY DEF Inv, LocalInv
<1>3. Launching'
  BY <1>1, <1>2 DEF Inv, LocalInv, Launching
<1> QED BY <1>2, <1>3 DEF Inv, LocalInv

LEMMA DispTyped ==
    ASSUME Inv, NEW d \in Dispatchers
    PROVE  disp[d] \in Ticking
  BY DEF Inv, LocalInv

LEMMA StartTickStep ==
    ASSUME Inv, NEW d \in Dispatchers, StartTick(d)
    PROVE  Kept /\ LocalInv'
<1> DEFINE rows == Snapshot({t \in Running : task[t].expired})
           x == [disp[d] EXCEPT !.at = "stale", !.rows = rows]
<1>1. Kept
  BY NoStep DEF StartTick, Inv
<1>2. rows \subseteq ReadRow
  BY SnapshotTyped DEF Running, Inv, BoardInv
<1> HIDE DEF rows
<1>3. x \in Ticking /\ x.at = "stale"
  BY <1>2, DispTyped DEF Ticking
<1>4. disp' = [disp EXCEPT ![d] = x]
  BY DEF StartTick, Goto, rows
<1> HIDE DEF x
<1> QED BY <1>1, <1>3, <1>4, DispStep DEF Kept, StartTick, Inv, LocalInv

LEMMA ReleaseStaleStep ==
    ASSUME Inv, NEW d \in Dispatchers, ReleaseStale(d)
    PROVE  Kept /\ LocalInv'
<1> PICK row \in disp[d].rows :
        /\ Goto(d, "stale", disp[d].rows \ {row})
        /\ IF ~ StillStale(row) THEN UNCHANGED board
           ELSE IF row.pid # NoRun /\ Alive(row.pid)
           THEN /\ task' = [task EXCEPT ![row.task].expired = FALSE]
                /\ UNCHANGED <<links, runs>>
           ELSE Close(row.task, "ready", "reclaimed")
        /\ UNCHANGED <<worker, epoch, op, ops>>
  BY DEF ReleaseStale
<1> DEFINE t == row.task
           x == [disp[d] EXCEPT !.at = "stale", !.rows = disp[d].rows \ {row}]
<1>1. disp[d] \in Ticking /\ t \in Tasks
  BY DEF Inv, LocalInv, Ticking, ReadRow
<1>2. Kept
  <2>1. CASE UNCHANGED board
    BY <2>1, NoStep DEF Inv
  <2>2. CASE task' = [task EXCEPT ![t].expired = FALSE] /\ UNCHANGED <<links, runs>>
    <3> DEFINE new == [task[t] EXCEPT !.expired = FALSE]
    <3>1. task[t] \in Row
      BY <1>1 DEF Inv, BoardInv, BoardTyped
    <3>2. /\ new \in Row /\ new.run = task[t].run /\ new.lock = task[t].lock
          /\ new.status = task[t].status
      BY <3>1 DEF Row
    <3> QED BY <1>1, <2>2, <3>2, RowStep DEF Inv
  <2>3. CASE StillStale(row) /\ Close(t, "ready", "reclaimed")
    <3>1. task[t].run # NoRun
      BY <1>1, <2>3 DEF StillStale, Inv, BoardInv, RunsInvariant
    <3> QED BY <1>1, <2>3, <3>1, CloseStep DEF Inv, Outcomes
  <2> QED BY <2>1, <2>2, <2>3
<1>3. x \in Ticking /\ x.at = "stale"
  BY <1>1 DEF Ticking
<1>4. disp' = [disp EXCEPT ![d] = x]
  BY DEF Goto
<1> HIDE DEF x
<1> QED BY <1>2, <1>3, <1>4, DispStep DEF Kept, Inv, LocalInv

LEMMA DetectCrashedStep ==
    ASSUME Inv, NEW d \in Dispatchers, DetectCrashed(d)
    PROVE  Kept /\ LocalInv'
<1> PICK limits \in [Dead -> {1, DefaultFailureLimit}] :
        /\ task' = [t \in Tasks |-> IF t \in Dead THEN Unclaimed(task[t], "ready")
                                    ELSE task[t]]
        /\ runs' = [r \in DOMAIN runs |->
                      IF runs[r].state = "open" /\ \E t \in Dead : task[t].run = r
                      THEN [runs[r] EXCEPT !.state = "crashed"] ELSE runs[r]]
        /\ disp' = [disp EXCEPT ![d] = [@ EXCEPT !.at = "crashed",
                      !.due = {[task |-> t, limit |-> limits[t]] : t \in Dead}]]
        /\ UNCHANGED <<links, worker, epoch, op, ops>>
  BY DEF DetectCrashed
<1> DEFINE due == {[task |-> t, limit |-> limits[t]] : t \in Dead}
           x == [disp[d] EXCEPT !.at = "crashed", !.due = due]
           closed(r) == [runs[r] EXCEPT !.state = "crashed"]
<1>1. Dead \subseteq Tasks /\ \A t \in Dead : task[t].run # NoRun
  BY DEF Dead, Running, Inv, BoardInv, RunsInvariant
<1>2. \A t \in Tasks : /\ Unclaimed(task[t], "ready") \in Row
                       /\ Unclaimed(task[t], "ready").run = NoRun
                       /\ Unclaimed(task[t], "ready").status = "ready"
  BY UnclaimedTyped DEF Inv, BoardInv, BoardTyped, Statuses
<1>3. Kept
  <2>1. Len(runs) \in Nat /\ DOMAIN runs = 1..Len(runs) /\ \A r \in DOMAIN runs : runs[r] \in Run
    BY RunsTyped DEF Inv, BoardInv
  <2>2. \A r \in DOMAIN runs : closed(r) \in Run
    BY <2>1 DEF Run, Outcomes
  <2>3. \A r \in DOMAIN runs :
            runs'[r] = IF \E t \in Dead : task[t].run = r THEN closed(r) ELSE runs[r]
    BY <1>1, NamedRun DEF Inv
  <2> HIDE DEF closed
  <2>4. runs' \in Seq(Run) /\ Len(runs') = Len(runs)
    <3>1. runs' \in [1..Len(runs) -> Run]
      BY <2>1, <2>2, <2>3
    <3> QED BY <2>1, <3>1, SeqDef, LenProperties
  <2>5. EndOf(Dead, "crashed")
    <3>1. task' \in [Tasks -> Row]
      BY <1>2 DEF Inv, BoardInv, BoardTyped
    <3> QED BY <1>1, <1>2, <2>3, <2>4, <3>1 DEF EndOf, closed
  <2> QED BY <1>1, <2>5, EndStep DEF Inv, Outcomes
<1>4. due \subseteq [task : Tasks, limit : Nat]
  BY <1>1 DEF DefaultFailureLimit
<1> HIDE DEF due
<1>5. x \in Ticking /\ x.at = "crashed"
  BY <1>4, DispTyped DEF Ticking
<1>6. disp' = [disp EXCEPT ![d] = x]
  BY DEF due
<1> HIDE DEF x
<1> QED BY <1>3, <1>5, <1>6, DispStep DEF Kept, Inv, LocalInv

LEMMA RecordDueStep ==
    ASSUME Inv, NEW d \in Dispatchers, RecordDue(d)
    PROVE  Kept /\ LocalInv'
<1> PICK f \in disp[d].due :
        /\ RecordFailure(f.task, f.limit)
        /\ disp' = [disp EXCEPT ![d].due = @ \ {f}]
        /\ UNCHANGED <<worker, epoch, op, ops>>
  BY DEF RecordDue
<1> DEFINE x == [disp[d] EXCEPT !.due = disp[d].due \ {f}]
<1>1. disp[d] \in Ticking /\ f.task \in Tasks /\ f.limit \in Nat
  BY DEF Inv, LocalInv, Ticking
<1>2. Kept
  BY <1>1, RecordStep DEF Inv
<1>3. x \in Ticking /\ x.at = disp[d].at /\ x.run = disp[d].run /\ x.slots = disp[d].slots
  BY <1>1 DEF Ticking
<1>4. disp' = [disp EXCEPT ![d] = x]
  OBVIOUS
<1> HIDE DEF x
<1>5. DOMAIN runs \subseteq DOMAIN runs'
  BY <1>2, RunsTyped, LenProperties DEF Inv, BoardInv, Kept, BoardStep, BoardTyped
<1>6. x.at \in {"launch", "record"} => x.run \in DOMAIN runs' /\ x.slots > 0
  BY <1>3, <1>5 DEF Inv, LocalInv, Launching
<1> QED BY <1>2, <1>3, <1>4, <1>6, DispStep DEF Kept, Inv, LocalInv

LEMMA EnforceRuntimeStep ==
    ASSUME Inv, NEW d \in Dispatchers, EnforceRuntime(d)
    PROVE  Kept /\ LocalInv'
<1> PICK S \in SUBSET {t \in Running \intersect Limited : task[t].pid # NoRun} :
        Goto(d, "runtime", Snapshot(S))
  BY DEF EnforceRuntime
<1> DEFINE x == [disp[d] EXCEPT !.at = "runtime", !.rows = Snapshot(S)]
<1>1. Kept
  BY NoStep DEF EnforceRuntime, Inv
<1>2. Snapshot(S) \subseteq ReadRow
  BY SnapshotTyped DEF Running, Inv, BoardInv
<1>3. x \in Ticking /\ x.at = "runtime"
  BY <1>2, DispTyped DEF Ticking
<1>4. disp' = [disp EXCEPT ![d] = x]
  BY DEF Goto
<1> HIDE DEF x
<1> QED BY <1>1, <1>3, <1>4, DispStep DEF Kept, EnforceRuntime, Inv, LocalInv

LEMMA KillOverrunStep ==
    ASSUME Inv, NEW d \in Dispatchers, KillOverrun(d)
    PROVE  Kept /\ LocalInv'
<1> PICK row \in disp[d].rows :
        /\ At(d, "runtime")
        /\ worker' = [worker EXCEPT ![row.pid] = IF Alive(row.pid) THEN "gone" ELSE @]
        /\ LET hit == task[row.task].status = "running"
           IN  /\ IF hit THEN Close(row.task, "ready", "timed_out")
                  ELSE UNCHANGED board
               /\ disp' = [disp EXCEPT ![d] =
                      [@ EXCEPT !.rows = disp[d].rows \ {row},
                                !.due = IF hit THEN {[task |-> row.task,
                                                      limit |-> DefaultFailureLimit]}
                                        ELSE {}]]
        /\ UNCHANGED <<epoch, op, ops>>
  BY DEF KillOverrun
<1> DEFINE t   == row.task
           due == IF task[t].status = "running"
                  THEN {[task |-> t, limit |-> DefaultFailureLimit]} ELSE {}
           x   == [disp[d] EXCEPT !.rows = disp[d].rows \ {row}, !.due = due]
<1>1. disp[d] \in Ticking /\ t \in Tasks /\ row.pid \in RunIds \union {NoRun}
  BY DEF Inv, LocalInv, Ticking, ReadRow
<1>2. Kept
  <2>1. CASE UNCHANGED board
    BY <2>1, NoStep DEF Inv
  <2>2. CASE task[t].status = "running" /\ Close(t, "ready", "timed_out")
    <3>1. task[t].run # NoRun
      BY <1>1, <2>2 DEF Inv, BoardInv, RunsInvariant
    <3> QED BY <1>1, <2>2, <3>1, CloseStep DEF Inv, Outcomes
  <2> QED BY <2>1, <2>2
<1>3. worker' \in [RunIds -> {"none", "alive", "finishing", "gone"}]
  BY DEF Inv, LocalInv
<1>4. due \subseteq [task : Tasks, limit : Nat]
  BY <1>1 DEF DefaultFailureLimit
<1>5. disp' = [disp EXCEPT ![d] = x]
  OBVIOUS
<1> HIDE DEF due
<1>6. x \in Ticking /\ x.at = "runtime"
  BY <1>1, <1>4 DEF Ticking, At
<1> HIDE DEF x
<1> QED BY <1>2, <1>3, <1>5, <1>6, DispStep DEF Kept, Inv, LocalInv

LEMMA PromoteStep ==
    ASSUME Inv, NEW d \in Dispatchers, Promote(d)
    PROVE  Kept /\ LocalInv'
<1> DEFINE x == [disp[d] EXCEPT !.at = "select", !.rows = {}]
<1>1. Kept
  BY PromotedStep DEF Promote, Inv
<1>2. x \in Ticking /\ x.at = "select"
  BY DispTyped DEF Ticking
<1>3. disp' = [disp EXCEPT ![d] = x]
  BY DEF Promote, Goto
<1> HIDE DEF x
<1> QED BY <1>1, <1>2, <1>3, DispStep DEF Kept, Promote, Inv, LocalInv

\* The budget of a tick is what max_spawn leaves over what runs.
LEMMA SelectStep ==
    ASSUME Inv, NEW d \in Dispatchers, Select(d)
    PROVE  Kept /\ LocalInv'
<1> DEFINE n == Cardinality(Running)
           slots == IF n < MaxSpawn THEN MaxSpawn - n ELSE 0
           rows == Snapshot({t \in Spawnable : task[t].status = "ready" /\ task[t].lock = NoLock})
           x == [disp[d] EXCEPT !.at = "spawn", !.slots = slots, !.rows = rows]
<1>1. Kept
  BY NoStep DEF Select, Inv
<1>2. n \in Nat
  <2>1. IsFiniteSet(Running)
    BY FS_Subset DEF Running
  <2> QED BY <2>1, FS_CardinalityType
<1>3. disp' = [disp EXCEPT ![d] = x]
  BY DEF Select
<1>4. rows \subseteq ReadRow
  BY SnapshotTyped DEF Inv, BoardInv
<1> HIDE DEF n, rows
<1>5. slots \in 0..MaxSpawn
  BY <1>2
<1> HIDE DEF slots
<1>6. x \in Ticking /\ x.at = "spawn"
  BY <1>4, <1>5, DispTyped DEF Ticking
<1> HIDE DEF x
<1> QED BY <1>1, <1>3, <1>6, DispStep DEF Kept, Select, Inv, LocalInv

\* A dispatcher's lock is made of its name and its restarts.
LEMMA LockOf ==
    ASSUME LocalInv, NEW d \in Dispatchers
    PROVE  <<d, epoch[d]>> \in Locks
<1>1. d \in Host /\ epoch[d] \in 0..(MaxRuns + MaxCrashes)
  BY DEF LocalInv, Host
<1> QED BY <1>1 DEF Locks

LEMMA ClaimNextStep ==
    ASSUME Inv, NEW d \in Dispatchers, ClaimNext(d)
    PROVE  BoardStep /\ LocalInv'
<1> PICK row \in disp[d].rows :
        /\ At(d, "spawn") /\ disp[d].slots > 0
        /\ \/ /\ Claim(row.task, <<d, epoch[d]>>)
              /\ disp' = [disp EXCEPT ![d] = [@ EXCEPT !.at = "launch",
                            !.rows = disp[d].rows \ {row}, !.run = Len(runs) + 1]]
           \/ /\ IF ParentsSettled(row.task) THEN UNCHANGED board ELSE Demote(row.task)
              /\ ~ Claimable(row.task)
              /\ Goto(d, "spawn", disp[d].rows \ {row})
        /\ UNCHANGED <<worker, epoch, op, ops>>
  BY DEF ClaimNext
<1>1. disp[d] \in Ticking /\ row.task \in Tasks
  BY DEF Inv, LocalInv, Ticking, ReadRow
<1>2. CASE /\ Claim(row.task, <<d, epoch[d]>>)
           /\ disp' = [disp EXCEPT ![d] = [@ EXCEPT !.at = "launch",
                         !.rows = disp[d].rows \ {row}, !.run = Len(runs) + 1]]
  <2> DEFINE x == [disp[d] EXCEPT !.at = "launch", !.rows = disp[d].rows \ {row},
                                  !.run = Len(runs) + 1]
  <2>1. BoardStep /\ Len(runs') = Len(runs) + 1
    BY <1>1, <1>2, ClaimStep, LockOf DEF Inv
  <2>2. Len(runs) + 1 \in RunIds /\ Len(runs) + 1 \in DOMAIN runs'
    BY <1>2, <2>1, RunsTyped, LenProperties
       DEF Claim, RunIds, Inv, BoardInv, BoardStep, BoardTyped
  <2>3. x \in Ticking /\ x.run = Len(runs) + 1 /\ x.slots = disp[d].slots
    BY <1>1, <2>2 DEF Ticking
  <2>4. disp' = [disp EXCEPT ![d] = x]
    BY <1>2
  <2> HIDE DEF x
  <2> QED BY <2>1, <2>2, <2>3, <2>4, DispStep DEF Kept, Inv, LocalInv
<1>3. CASE /\ IF ParentsSettled(row.task) THEN UNCHANGED board ELSE Demote(row.task)
           /\ Goto(d, "spawn", disp[d].rows \ {row})
  <2> DEFINE x == [disp[d] EXCEPT !.at = "spawn", !.rows = disp[d].rows \ {row}]
  <2>1. Kept
    BY <1>1, <1>3, NoStep, DemoteStep DEF Inv
  <2>2. x \in Ticking /\ x.at = "spawn"
    BY <1>1 DEF Ticking
  <2>3. disp' = [disp EXCEPT ![d] = x]
    BY <1>3 DEF Goto
  <2> HIDE DEF x
  <2> QED BY <2>1, <2>2, <2>3, DispStep DEF Kept, Inv, LocalInv
<1> QED BY <1>2, <1>3

\* The task of the run that a dispatcher is starting a worker for.
LEMMA LaunchedTask ==
    ASSUME Inv, NEW d \in Dispatchers, disp[d].at \in {"launch", "record"}
    PROVE  /\ disp[d].run \in DOMAIN runs /\ disp[d].run \in RunIds
           /\ runs[disp[d].run].task \in Tasks
           /\ disp[d] \in Ticking /\ disp[d].slots \in 1..MaxSpawn
<1>1. disp[d].run \in DOMAIN runs /\ disp[d].slots > 0 /\ disp[d] \in Ticking
  BY DEF Inv, LocalInv, Launching
<1>2. runs[disp[d].run] \in Run /\ disp[d].run \in RunIds
  BY <1>1, RunsTyped DEF Inv, BoardInv
<1>3. runs[disp[d].run].task \in Tasks
  BY <1>2 DEF Run
<1>4. disp[d].slots \in 0..MaxSpawn
  BY <1>1 DEF Ticking
<1> QED BY <1>1, <1>2, <1>3, <1>4

LEMMA SpawnFailsStep ==
    ASSUME Inv, NEW d \in Dispatchers, SpawnFails(d)
    PROVE  Kept /\ LocalInv'
<1> DEFINE x == [disp[d] EXCEPT !.at = "spawn", !.run = NoRun]
<1>1. Kept
  BY LaunchedTask, SpawnFailureStep DEF SpawnFails, At, Inv
<1>2. x \in Ticking /\ x.at = "spawn"
  BY DispTyped DEF Ticking
<1>3. disp' = [disp EXCEPT ![d] = x]
  BY DEF SpawnFails
<1> HIDE DEF x
<1> QED BY <1>1, <1>2, <1>3, DispStep DEF Kept, SpawnFails, Inv, LocalInv

LEMMA SpawnWorkerStep ==
    ASSUME Inv, NEW d \in Dispatchers, SpawnWorker(d)
    PROVE  Kept /\ LocalInv'
<1> DEFINE x == [disp[d] EXCEPT !.at = "record"]
<1>1. Kept
  BY NoStep DEF SpawnWorker, Inv
<1>2. runs' = runs
  BY DEF SpawnWorker, board
<1>3. disp[d].run \in DOMAIN runs /\ disp[d].slots > 0 /\ disp[d] \in Ticking
  BY LaunchedTask DEF SpawnWorker, At
<1>4. x \in Ticking /\ x.run = disp[d].run /\ x.slots = disp[d].slots
  BY <1>3 DEF Ticking
<1>5. disp' = [disp EXCEPT ![d] = x]
  BY DEF SpawnWorker
<1>6. worker' \in [RunIds -> {"none", "alive", "finishing", "gone"}]
  BY DEF SpawnWorker, Inv, LocalInv
<1> HIDE DEF x
<1> QED BY <1>1, <1>2, <1>3, <1>4, <1>5, <1>6, DispStep DEF Kept, SpawnWorker, Inv, LocalInv

LEMMA RecordPidStep ==
    ASSUME Inv, NEW d \in Dispatchers, RecordPid(d)
    PROVE  Kept /\ LocalInv'
<1> DEFINE t   == runs[disp[d].run].task
           row == [task[t] EXCEPT !.pid = disp[d].run]
           x   == [disp[d] EXCEPT !.at = "spawn", !.run = NoRun, !.slots = disp[d].slots - 1]
<1>1. /\ disp[d].run \in RunIds /\ t \in Tasks
      /\ disp[d] \in Ticking /\ disp[d].slots \in 1..MaxSpawn
  BY LaunchedTask DEF RecordPid, At
<1>2. task' = [task EXCEPT ![t] = row] /\ UNCHANGED <<links, runs>>
  BY DEF RecordPid
<1>3. disp' = [disp EXCEPT ![d] = x]
  BY DEF RecordPid
<1> HIDE DEF t
<1>4. /\ row \in Row /\ row.run = task[t].run /\ row.lock = task[t].lock
      /\ row.status = task[t].status
  BY <1>1 DEF Inv, BoardInv, BoardTyped, Row
<1>5. Kept
  BY <1>1, <1>2, <1>4, RowStep DEF Inv
<1>6. disp[d].slots - 1 \in 0..MaxSpawn
  BY <1>1
<1>7. x \in Ticking /\ x.at = "spawn"
  BY <1>1, <1>6 DEF Ticking
<1> HIDE DEF x
<1> QED BY <1>3, <1>5, <1>7, DispStep DEF Kept, RecordPid, Inv, LocalInv

LEMMA EndTickStep ==
    ASSUME Inv, NEW d \in Dispatchers, EndTick(d) \/ CrashDispatcher(d)
    PROVE  Kept /\ LocalInv'
<1>1. Kept
  BY NoStep DEF EndTick, CrashDispatcher, Inv
<1>2. Resting \in Ticking /\ Resting.at = "idle"
  BY DEF Resting, Ticking
<1>3. epoch' \in [Dispatchers -> 0..MaxCrashes]
  <2>1. epoch \in [Dispatchers -> 0..MaxCrashes]
    BY DEF Inv, LocalInv
  <2>2. CASE EndTick(d)
    BY <2>1, <2>2 DEF EndTick
  <2>3. CASE CrashDispatcher(d)
    <3>1. epoch[d] + 1 \in 0..MaxCrashes
      BY <2>1, <2>3 DEF CrashDispatcher
    <3> QED BY <2>1, <2>3, <3>1 DEF CrashDispatcher
  <2> QED BY <2>2, <2>3
<1>4. disp' = [disp EXCEPT ![d] = Resting] /\ UNCHANGED <<worker, op, ops>>
  BY DEF EndTick, CrashDispatcher
<1> QED BY <1>1, <1>2, <1>3, <1>4, DispStep DEF Kept, Inv, LocalInv

-----------------------------------------------------------------------------
(* Workers, time and operators.                                            *)

LEMMA HeartbeatStep ==
    ASSUME Inv, NEW r \in 1..Len(runs), Heartbeat(r)
    PROVE  Kept /\ LocalInv'
<1> DEFINE t   == runs[r].task
           row == [task[t] EXCEPT !.expired = FALSE]
<1>1. t \in Tasks
  BY RunsTyped DEF Inv, BoardInv, Run
<1>2. task' = [task EXCEPT ![t] = row] /\ UNCHANGED <<links, runs>>
  BY DEF Heartbeat
<1> HIDE DEF t
<1>3. /\ row \in Row /\ row.run = task[t].run /\ row.lock = task[t].lock
      /\ row.status = task[t].status
  BY <1>1 DEF Inv, BoardInv, BoardTyped, Row
<1>4. Kept
  BY <1>1, <1>2, <1>3, RowStep DEF Inv
<1> QED BY <1>4, OtherStep DEF Kept, Heartbeat, Self, Inv, LocalInv

\* complete_task, by the worker of the run or by an operator.
LEMMA CompleteStep ==
    ASSUME BoardInv, NEW t \in Tasks, task[t].status \in {"running", "ready", "blocked"},
           task' = [task EXCEPT ![t] = [Unclaimed(@, "done") EXCEPT !.fails = 0]],
           runs' = Ended(t, "completed"), UNCHANGED links
    PROVE  Kept
<1> DEFINE freed == Unclaimed(task[t], "done")
           row   == [freed EXCEPT !.fails = 0]
<1>1. freed \in Row /\ freed.run = NoRun /\ freed.status = "done"
  BY UnclaimedTyped DEF BoardInv, BoardTyped, Statuses
<1>2. task' = [task EXCEPT ![t] = row]
  OBVIOUS
<1> HIDE DEF freed
<1>3. row \in Row /\ row.run = NoRun /\ row.status = "done"
  BY <1>1 DEF Row
<1> HIDE DEF row
<1>4. task[t].run = NoRun => task[t].status # "running"
  BY DEF BoardInv, RunsInvariant
<1>5. task[t].run = NoRun => <<task[t].status, row.status>> \in Contract!Moves
  BY <1>3, <1>4 DEF Contract!Moves
<1> QED BY <1>2, <1>3, <1>5, FreeStep DEF Outcomes

LEMMA WorkerCompletesStep ==
    ASSUME Inv, NEW r \in 1..Len(runs), WorkerCompletes(r)
    PROVE  Kept /\ LocalInv'
<1>1. runs[r].task \in Tasks
  BY RunsTyped DEF Inv, BoardInv, Run
<1>2. Kept
  BY <1>1, CompleteStep DEF WorkerCompletes, Inv
<1> QED BY <1>2, OtherStep DEF Kept, WorkerCompletes, Self, Inv, LocalInv

LEMMA WorkerPromotesStep ==
    ASSUME Inv, NEW r \in 1..Len(runs), WorkerPromotes(r)
    PROVE  Kept /\ LocalInv'
  BY PromotedStep, OtherStep DEF Kept, WorkerPromotes, Self, Inv, LocalInv

\* kanban_block and `kanban block`.
LEMMA BlockStep ==
    ASSUME BoardInv, NEW t \in Tasks, task[t].status \in {"running", "ready"},
           Close(t, "blocked", "blocked")
    PROVE  Kept
<1>1. task[t].run = NoRun => task[t].status # "running"
  BY DEF BoardInv, RunsInvariant
<1>2. task[t].run = NoRun => <<task[t].status, "blocked">> \in Contract!Moves
  BY <1>1 DEF Contract!Moves
<1> QED BY <1>2, CloseStep DEF Outcomes

LEMMA WorkerBlocksStep ==
    ASSUME Inv, NEW r \in 1..Len(runs), WorkerBlocks(r)
    PROVE  Kept /\ LocalInv'
<1>1. runs[r].task \in Tasks
  BY RunsTyped DEF Inv, BoardInv, Run
<1>2. Kept
  BY <1>1, BlockStep DEF WorkerBlocks, Inv
<1> QED BY <1>2, OtherStep DEF Kept, WorkerBlocks, Self, Inv, LocalInv

LEMMA WorkerEndsStep ==
    ASSUME Inv, NEW r \in 1..Len(runs), WorkerEnds(r)
    PROVE  Kept /\ LocalInv'
  BY NoStep, OtherStep DEF Kept, WorkerEnds, Self, Inv, LocalInv

LEMMA ExpireStep ==
    ASSUME Inv, NEW t \in Tasks, Expire(t)
    PROVE  Kept /\ LocalInv'
<1> DEFINE row == [task[t] EXCEPT !.expired = TRUE]
<1>1. /\ row \in Row /\ row.run = task[t].run /\ row.lock = task[t].lock
      /\ row.status = task[t].status
  BY DEF Inv, BoardInv, BoardTyped, Row
<1>2. task' = [task EXCEPT ![t] = row] /\ UNCHANGED <<links, runs>>
  BY DEF Expire
<1> HIDE DEF row
<1>3. Kept
  BY <1>1, <1>2, RowStep DEF Inv
<1> QED BY <1>3, OtherStep DEF Kept, Expire, Inv, LocalInv

\* A task comes onto the board with its links.
LEMMA CreateStep ==
    ASSUME Inv, NEW t \in Tasks, NEW P \in SUBSET Tasks, NEW triage \in BOOLEAN,
           Create(t, P, triage)
    PROVE  Kept /\ LocalInv'
<1> DEFINE s == IF triage THEN "triage"
                ELSE IF \A p \in P : task[p].status = "done" THEN "ready" ELSE "todo"
           row == [task[t] EXCEPT !.status = s]
<1>1. task[t] \in Row /\ task[t].status = "absent" /\ task[t].run = NoRun
  BY DEF Create, Exists, Inv, BoardInv, BoardTyped, Held
<1>2. s \in {"triage", "todo", "ready"} /\ task' = [task EXCEPT ![t] = row]
  BY DEF Create
<1>3. s = "ready" => \A p \in P : task[p].status = "done"
  OBVIOUS
<1> HIDE DEF s
<1>4. row \in Row /\ row.run = NoRun /\ row.status = s /\ row.lock = task[t].lock
  BY <1>1, <1>2 DEF Row, Statuses
<1> HIDE DEF row
<1>5. /\ task' \in [Tasks -> Row] /\ task'[t] = row
      /\ \A u \in Tasks : u # t => task'[u] = task[u]
  BY <1>2, <1>4 DEF Inv, BoardInv, BoardTyped
<1>6. links' = links \union (P \X {t}) /\ runs' = runs
  BY DEF Create
<1>7. \A u \in Tasks : SameClaim(u)
  BY <1>1, <1>2, <1>4, <1>5 DEF SameClaim, Inv, BoardInv, Held
<1>8. BoardInv'
  <2>1. links' \subseteq Tasks \X Tasks
    BY <1>6 DEF Inv, BoardInv, BoardTyped
  <2> QED BY <1>5, <1>6, <1>7, <2>1, SameClaims DEF Inv
<1>9. Contract!Add(t)
  <2>1. Stage(t) = "absent" /\ Stage(t)' = s
    BY <1>1, <1>4, <1>5 DEF Stage
  <2>2. \A u \in Tasks : u # t => Stage(u)' = Stage(u) /\ task'[u].run = task[u].run
    BY <1>5 DEF Stage
  <2>3. links \subseteq links' /\ \A l \in links' \ links : l[1] \in P /\ l[2] = t
    BY <1>6
  <2>4. s = "ready" => \A p \in P : Stage(p) = "done"
    BY <1>3 DEF Stage, Inv, BoardInv, Held
  <2>5. \A r \in RunIds : Outcome(r)' = Outcome(r)
    BY <1>6 DEF Outcome
  <2>6. task'[t].run = task[t].run
    BY <1>1, <1>4, <1>5
  <2> DEFINE was == [u \in Tasks |-> Stage(u)]
  <2>7. was' = [was EXCEPT ![t] = s]
    BY <2>1, <2>2
  <2>8. was[t] = "absent"
    BY <2>1
  <2>9. s = "ready" => \A l \in links' \ links : was[l[1]] = "done"
    BY <2>3, <2>4
  <2>10. [u \in Tasks |-> task[u].run]' = [u \in Tasks |-> task[u].run]
    BY <2>2, <2>6
  <2>11. [r \in RunIds |-> Outcome(r)]' = [r \in RunIds |-> Outcome(r)]
    BY <2>5
  <2> QED BY ONLY <1>2, <2>3, <2>7, <2>8, <2>9, <2>10, <2>11 DEF Contract!Add
<1>10. Kept
  <2>1. Len(runs') >= Len(runs)
    BY <1>6, RunsTyped DEF Inv, BoardInv
  <2> QED BY <1>6, <1>7, <1>8, <1>9, <2>1 DEF Kept, BoardStep, SameClaim, Contract!BoardNext
<1> QED BY <1>10, OtherStep DEF Kept, Create, Others, Inv, LocalInv

LEMMA RewireStep ==
    ASSUME BoardInv, NEW c \in Tasks, NEW row \in Row,
           task' = [task EXCEPT ![c] = row], UNCHANGED runs,
           row.run = task[c].run, row.lock = task[c].lock,
           row.status = task[c].status \/ (task[c].status = "ready" /\ row.status = "todo"),
           links' \subseteq Tasks \X Tasks,
           \A l \in (links \ links') \union (links' \ links) : l[2] = c
    PROVE  Kept
<1>1. /\ task' \in [Tasks -> Row] /\ task'[c] = row
      /\ \A u \in Tasks : u # c => task'[u] = task[u]
  BY DEF BoardInv, BoardTyped
<1>2. task[c].run # NoRun => task[c].status \in {"running", "blocked"}
  BY DEF BoardInv, Held
<1>3. \A u \in Tasks : SameClaim(u)
  BY <1>1, <1>2 DEF SameClaim, BoardInv, Held
<1>4. BoardInv'
  BY <1>1, <1>3, SameClaims
<1>5. \A u \in Tasks : u # c => Stage(u)' = Stage(u)
  BY <1>1 DEF Stage
<1>6. Stage(c)' = Stage(c) \/ (Stage(c) = "ready" /\ Stage(c)' = "todo")
  BY <1>1, <1>2 DEF Stage
<1>7. \A u \in Tasks : task'[u].run = task[u].run
  BY <1>1
<1>8. \A r \in RunIds : Outcome(r)' = Outcome(r)
  BY DEF Outcome
<1>9. Contract!Rewire(c)
  BY <1>5, <1>6, <1>7, <1>8 DEF Contract!Rewire
<1>10. Len(runs') >= Len(runs)
  BY RunsTyped DEF BoardInv
<1> QED BY <1>3, <1>4, <1>9, <1>10 DEF Kept, BoardStep, SameClaim, Contract!BoardNext

LEMMA LinkStep ==
    ASSUME Inv, NEW p \in Tasks, NEW c \in Tasks, Link(p, c)
    PROVE  Kept /\ LocalInv'
<1> DEFINE s == IF task[c].status = "ready" /\ task[p].status # "done" THEN "todo"
                ELSE task[c].status
           row == [task[c] EXCEPT !.status = s]
<1>1. task[c] \in Row
  BY DEF Inv, BoardInv, BoardTyped
<1>2. /\ s \in Statuses
      /\ s = task[c].status \/ (task[c].status = "ready" /\ s = "todo")
  BY <1>1 DEF Row, Statuses
<1>3. task' = [task EXCEPT ![c] = row]
  BY DEF Link
<1> HIDE DEF s
<1>4. row \in Row /\ row.run = task[c].run /\ row.lock = task[c].lock /\ row.status = s
  BY <1>1, <1>2 DEF Row
<1> HIDE DEF row
<1>5. links' = links \union {<<p, c>>} /\ runs' = runs
  BY DEF Link
<1>6. links' \subseteq Tasks \X Tasks
  BY <1>5 DEF Inv, BoardInv, BoardTyped
<1>7. \A l \in (links \ links') \union (links' \ links) : l[2] = c
  BY <1>5
<1>8. Kept
  BY <1>2, <1>3, <1>4, <1>5, <1>6, <1>7, RewireStep DEF Inv
<1> QED BY <1>8, OtherStep DEF Kept, Link, Operates, Others, Inv, LocalInv

LEMMA UnlinkStep ==
    ASSUME Inv, NEW p \in Tasks, NEW c \in Tasks, Unlink(p, c)
    PROVE  Kept /\ LocalInv'
<1>1. task[c] \in Row /\ task' = [task EXCEPT ![c] = task[c]]
  BY DEF Unlink, Inv, BoardInv, BoardTyped
<1>2. links' = links \ {<<p, c>>} /\ runs' = runs
  BY DEF Unlink
<1>3. links' \subseteq Tasks \X Tasks
  BY <1>2 DEF Inv, BoardInv, BoardTyped
<1>4. \A l \in (links \ links') \union (links' \ links) : l[2] = c
  BY <1>2
<1>5. Kept
  BY <1>1, <1>2, <1>3, <1>4, RewireStep DEF Inv
<1>6. op' \in Operation
  BY DEF Unlink, Operation, Inv, LocalInv
<1> QED BY <1>5, <1>6, OtherStep DEF Kept, Unlink, Operates, Others, Inv, LocalInv

LEMMA SpecifyStep ==
    ASSUME Inv, NEW t \in Tasks, Specify(t)
    PROVE  Kept /\ LocalInv'
<1> DEFINE row == [task[t] EXCEPT !.status = "todo"]
<1>1. /\ row \in Row /\ row.run = task[t].run /\ row.lock = task[t].lock
      /\ row.status = "todo" /\ task[t].status = "triage"
  BY DEF Specify, Inv, BoardInv, BoardTyped, Row, Statuses
<1>2. task' = [task EXCEPT ![t] = row] /\ UNCHANGED <<links, runs>>
  BY DEF Specify
<1> HIDE DEF row
<1>3. Kept
  BY <1>1, <1>2, RowStep DEF Inv
<1>4. op' \in Operation
  BY DEF Specify, Operation, Inv, LocalInv
<1> QED BY <1>3, <1>4, OtherStep DEF Kept, Specify, Operates, Others, Inv, LocalInv

LEMMA OperatorCompletesStep ==
    ASSUME Inv, NEW t \in Tasks, Complete(t)
    PROVE  Kept /\ LocalInv'
<1>1. Kept
  BY CompleteStep DEF Complete, Inv
<1>2. op' \in Operation
  BY DEF Complete, Operation, Inv, LocalInv
<1> QED BY <1>1, <1>2, OtherStep DEF Kept, Complete, Operates, Others, Inv, LocalInv

LEMMA OpPromotesStep ==
    ASSUME Inv, OpPromotes
    PROVE  Kept /\ LocalInv'
<1>1. NoOp \in Operation
  BY DEF NoOp, Operation
<1> QED BY <1>1, PromotedStep, OtherStep DEF Kept, OpPromotes, Others, Inv, LocalInv

LEMMA TerminalClaimsStep ==
    ASSUME Inv, NEW t \in Tasks, TerminalClaims(t)
    PROVE  BoardStep /\ LocalInv'
<1>1. CASE Claim(t, <<"terminal", Len(runs) + 1>>)
  <2>1. Len(runs) + 1 \in 0..(MaxRuns + MaxCrashes)
    BY <1>1, RunsTyped DEF Claim, Inv, BoardInv
  <2>2. <<"terminal", Len(runs) + 1>> \in Locks
    BY <2>1 DEF Locks, Host
  <2>3. BoardStep
    BY <1>1, <2>2, ClaimStep DEF Inv
  <2> QED BY <2>3, OtherStep DEF Kept, TerminalClaims, Operates, Others, Inv, LocalInv
<1>2. CASE Demote(t)
  BY <1>2, DemoteStep, OtherStep DEF Kept, TerminalClaims, Operates, Others, Inv, LocalInv
<1> QED BY <1>1, <1>2 DEF TerminalClaims

LEMMA OperatorBlocksStep ==
    ASSUME Inv, NEW t \in Tasks, Block(t)
    PROVE  Kept /\ LocalInv'
<1>1. Kept
  BY BlockStep DEF Block, Inv
<1> QED BY <1>1, OtherStep DEF Kept, Block, Operates, Others, Inv, LocalInv

LEMMA UnblockStep ==
    ASSUME Inv, NEW t \in Tasks, Unblock(t)
    PROVE  Kept /\ LocalInv'
<1> DEFINE s == IF \A p \in Parents(t) : task[p].status = "done" THEN "ready" ELSE "todo"
           row == [task[t] EXCEPT !.run = NoRun, !.status = s]
<1>1. task[t] \in Row /\ task[t].status = "blocked"
  BY DEF Unblock, Inv, BoardInv, BoardTyped
<1>2. /\ task' = [task EXCEPT ![t] = row] /\ runs' = Ended(t, "reclaimed")
      /\ UNCHANGED links
  BY DEF Unblock
<1>3. s \in {"ready", "todo"}
  OBVIOUS
<1> HIDE DEF s
<1>4. row \in Row /\ row.run = NoRun /\ row.status = s
  BY <1>1, <1>3 DEF Row, Statuses
<1> HIDE DEF row
<1>5. <<task[t].status, row.status>> \in Contract!Moves
  BY <1>1, <1>3, <1>4 DEF Contract!Moves
<1>6. Kept
  BY <1>2, <1>3, <1>4, <1>5, FreeStep DEF Inv, Outcomes
<1> QED BY <1>6, OtherStep DEF Kept, Unblock, Operates, Others, Inv, LocalInv

LEMMA ArchiveStep ==
    ASSUME Inv, NEW t \in Tasks, Archive(t)
    PROVE  Kept /\ LocalInv'
<1>1. Kept
  BY CloseStep DEF Archive, Inv, Outcomes
<1> QED BY <1>1, OtherStep DEF Kept, Archive, Operates, Others, Inv, LocalInv

\* The failure counter is cleared: assign_task, and the end of reclaim_task.
LEMMA ClearStep ==
    ASSUME BoardInv, NEW t \in Tasks, task' = [task EXCEPT ![t].fails = 0],
           UNCHANGED <<links, runs>>
    PROVE  Kept
<1> DEFINE row == [task[t] EXCEPT !.fails = 0]
<1>1. /\ row \in Row /\ row.run = task[t].run /\ row.lock = task[t].lock
      /\ row.status = task[t].status
  BY DEF BoardInv, BoardTyped, Row
<1>2. task' = [task EXCEPT ![t] = row]
  OBVIOUS
<1> HIDE DEF row
<1> QED BY <1>1, <1>2, RowStep

LEMMA AssignStep ==
    ASSUME Inv, NEW t \in Tasks, Assign(t)
    PROVE  Kept /\ LocalInv'
<1>1. Kept
  BY ClearStep DEF Assign, Inv
<1> QED BY <1>1, OtherStep DEF Kept, Assign, Operates, Others, Inv, LocalInv

LEMMA ReclaimStep ==
    ASSUME Inv, NEW t \in Tasks, Reclaim(t)
    PROVE  Kept /\ LocalInv'
<1>1. Kept
  BY NoStep DEF Reclaim, Inv
<1>2. Snapshot({t}) \subseteq ReadRow
  BY SnapshotTyped DEF Inv, BoardInv
<1>3. op' \in Operation
  BY <1>2 DEF Reclaim, Operation
<1> QED BY <1>1, <1>3, OtherStep DEF Kept, Reclaim, Operates, Others, Inv, LocalInv

LEMMA ReclaimRowStep ==
    ASSUME Inv, ReclaimRow
    PROVE  Kept /\ LocalInv'
<1> DEFINE same(row) == /\ task[row.task].status \in {"running", "ready", "blocked"}
                        /\ task[row.task].lock = row.lock
<1> PICK row \in op.rows :
        /\ worker' = IF row.pid # NoRun /\ Alive(row.pid)
                     THEN [worker EXCEPT ![row.pid] = "gone"] ELSE worker
        /\ IF same(row) THEN Close(row.task, "ready", "reclaimed") ELSE UNCHANGED board
        /\ op' = IF same(row) THEN [op EXCEPT !.at = "clear"] ELSE NoOp
        /\ UNCHANGED <<disp, epoch, ops>>
  BY DEF ReclaimRow
<1>1. row.task \in Tasks
  BY DEF Inv, LocalInv, Operation, ReadRow
<1>2. Kept
  <2>1. CASE same(row)
    <3>1. task[row.task].run = NoRun => task[row.task].status # "running"
      BY <1>1 DEF Inv, BoardInv, RunsInvariant
    <3>2. task[row.task].run = NoRun =>
              \/ task[row.task].status = "ready"
              \/ <<task[row.task].status, "ready">> \in Contract!Moves
      BY <2>1, <3>1 DEF Contract!Moves
    <3>3. Close(row.task, "ready", "reclaimed")
      BY <2>1
    <3> HIDE DEF same
    <3> QED BY <1>1, <3>2, <3>3, CloseStep DEF Inv, Outcomes
  <2>2. CASE ~ same(row)
    BY <2>2, NoStep DEF Inv
  <2> QED BY <2>1, <2>2
<1>3. worker' \in [RunIds -> {"none", "alive", "finishing", "gone"}]
  BY DEF Inv, LocalInv
<1>4. op' \in Operation
  BY DEF NoOp, Operation, Inv, LocalInv
<1> HIDE DEF same
<1> QED BY <1>2, <1>3, <1>4, OtherStep DEF Kept, Inv, LocalInv

LEMMA ClearFailuresStep ==
    ASSUME Inv, ClearFailures
    PROVE  Kept /\ LocalInv'
<1> PICK row \in op.rows : task' = [task EXCEPT ![row.task].fails = 0]
  BY DEF ClearFailures
<1>1. row.task \in Tasks
  BY DEF Inv, LocalInv, Operation, ReadRow
<1>2. Kept
  BY <1>1, ClearStep DEF ClearFailures, Inv
<1>3. NoOp \in Operation
  BY DEF NoOp, Operation
<1> QED BY <1>2, <1>3, OtherStep DEF Kept, ClearFailures, Others, Inv, LocalInv

-----------------------------------------------------------------------------

LEMMA InitInv == Init => Inv
<1> SUFFICES ASSUME Init PROVE Inv
  OBVIOUS
<1>1. NoRow \in Row /\ NoRow.run = NoRun /\ NoRow.status = "absent"
  BY DEF NoRow, Row, Statuses, Locks
<1>2. runs = <<>> /\ runs \in Seq(Run) /\ Len(runs) = 0 /\ DOMAIN runs = {}
  BY EmptySeq, LenProperties DEF Init
<1>3. BoardTyped /\ Held
  BY <1>1, <1>2 DEF Init, BoardTyped, Held
<1>4. RunsInvariant
  BY <1>1, <1>2 DEF Init, RunsInvariant, OpenRuns
<1>5. Resting \in Ticking /\ Resting.at = "idle" /\ NoOp \in Operation
  BY DEF Resting, Ticking, NoOp, Operation
<1>6. LocalInv
  BY <1>5 DEF Init, LocalInv, Launching
<1> QED BY <1>3, <1>4, <1>6 DEF Inv, BoardInv

\* Every step keeps the invariant, and is a step of the contract or none.
LEMMA NextInv ==
    ASSUME Inv, [Next]_vars
    PROVE  BoardStep /\ LocalInv'
<1>1. ASSUME NEW d \in Dispatchers, Tick(d) \/ CrashDispatcher(d)
      PROVE  BoardStep /\ LocalInv'
  BY <1>1, StartTickStep, ReleaseStaleStep, DetectCrashedStep, RecordDueStep,
     EnforceRuntimeStep, KillOverrunStep, PromoteStep, SelectStep, ClaimNextStep,
     SpawnFailsStep, SpawnWorkerStep, RecordPidStep, EndTickStep DEF Tick, Kept
<1>2. ASSUME NEW r \in 1..Len(runs), Work(r)
      PROVE  BoardStep /\ LocalInv'
  BY <1>2, HeartbeatStep, WorkerCompletesStep, WorkerPromotesStep, WorkerBlocksStep,
     WorkerEndsStep DEF Work, Kept
<1>3. ASSUME NEW t \in Tasks, Operate(t) \/ Expire(t)
      PROVE  BoardStep /\ LocalInv'
  BY <1>3, SpecifyStep, OperatorCompletesStep, TerminalClaimsStep, OperatorBlocksStep,
     UnblockStep, ArchiveStep, AssignStep, ReclaimStep, ExpireStep DEF Operate, Kept
<1>4. CASE UNCHANGED vars
  BY <1>4, NoStep, OtherStep DEF Kept, vars, board, Inv, LocalInv
<1> QED BY <1>1, <1>2, <1>3, <1>4, CreateStep, LinkStep, UnlinkStep, OpPromotesStep,
           ReclaimRowStep, ClearFailuresStep DEF Next, Kept

LEMMA SpecInv == Spec => []Inv
<1>1. Inv /\ [Next]_vars => Inv'
  BY NextInv DEF BoardStep, Inv
<1> QED BY InitInv, <1>1, PTL DEF Spec

\* The rows and what the processes hold keep their types: no claim outgrows the
\* board, and a dispatcher's budget of spawns never becomes negative.
THEOREM TypeCorrect == Spec => []TypeOK
<1>1. Inv => TypeOK
  BY DEF Inv, BoardInv, BoardTyped, LocalInv, TypeOK
<1> QED BY SpecInv, <1>1, PTL

\* The run a row names is always the one open run of its task, and a task that
\* runs has one with its claim (current_run_id and task_runs).
THEOREM RunsAgree == Spec => []RunsInvariant
<1>1. Inv => RunsInvariant
  BY DEF Inv, BoardInv
<1> QED BY SpecInv, <1>1, PTL

\* Every transaction on the board is a step of TaskBoard: one attempt holds a
\* task, it starts when the task's needs are met, and it ends once.
THEOREM BoardImplements == Spec => BoardContract
<1>1. Init => Contract!BoardInit
  <2> SUFFICES ASSUME Init PROVE Contract!BoardInit
    OBVIOUS
  <2>1. \A t \in Tasks : Stage(t) = "absent" /\ task[t].run = NoRun
    BY DEF Init, Stage, NoRow
  <2>2. \A r \in RunIds : Outcome(r) = "unused"
    BY EmptySeq DEF Init, Outcome
  <2> QED BY <2>1, <2>2 DEF Contract!BoardInit, Init
<1>2. Inv /\ [Next]_vars => [Contract!BoardNext]_(Contract!boardVars)
  BY NextInv DEF BoardStep
<1> QED BY SpecInv, <1>1, <1>2, PTL DEF Spec, BoardContract, Contract!BoardSpec

-----------------------------------------------------------------------------
(* A worker completes its own attempt.                                     *)

LEMMA OnlyCompletes ==
    ASSUME Inv, [Next]_vars, NEW r \in RunIds,
           worker[r] = "alive", worker'[r] = "finishing"
    PROVE  r \in 1..Len(runs) /\ WorkerCompletes(r)
<1>0. worker \in [RunIds -> {"none", "alive", "finishing", "gone"}] /\ worker' # worker
  BY DEF Inv, LocalInv
<1>1. ASSUME NEW d \in Dispatchers, Tick(d) \/ CrashDispatcher(d) PROVE FALSE
  BY <1>0, <1>1 DEF Tick, CrashDispatcher, StartTick, ReleaseStale, DetectCrashed,
     RecordDue, EnforceRuntime, KillOverrun, Promote, Select, ClaimNext, SpawnFails,
     SpawnWorker, RecordPid, EndTick
<1>2. ASSUME NEW t \in Tasks, Operate(t) \/ Expire(t) PROVE FALSE
  BY <1>0, <1>2 DEF Operate, Expire, Specify, Complete, TerminalClaims, Block, Unblock,
     Archive, Assign, Reclaim, Others
<1>3. ASSUME NEW u \in 1..Len(runs), Work(u) PROVE u = r /\ WorkerCompletes(u)
  <2>1. u \in RunIds
    BY RunsTyped DEF Inv, BoardInv
  <2> QED BY <1>0, <1>3, <2>1
          DEF Work, Heartbeat, WorkerCompletes, WorkerPromotes, WorkerBlocks, WorkerEnds
<1>4. ASSUME NEW p \in Tasks, NEW c \in Tasks, Link(p, c) \/ Unlink(p, c) PROVE FALSE
  BY <1>0, <1>4 DEF Link, Unlink, Others
<1>5. ASSUME NEW t \in Tasks, NEW P \in SUBSET Tasks, NEW triage \in BOOLEAN,
             Create(t, P, triage)
      PROVE  FALSE
  BY <1>0, <1>5 DEF Create, Others
<1>6. ~ OpPromotes /\ ~ ReclaimRow /\ ~ ClearFailures /\ ~ UNCHANGED vars
  BY <1>0 DEF OpPromotes, ReclaimRow, ClearFailures, Others, vars
<1> QED BY <1>1, <1>2, <1>3, <1>4, <1>5, <1>6 DEF Next

\* A worker that completes its task completes the attempt it was spawned for,
\* which is still open: not one that another worker makes since its claim was
\* released (expected_run_id of complete_task).
THEOREM CompletesOwnAttempt == Spec => OwnAttempt
<1>1. ASSUME Inv, [Next]_vars, NEW r \in RunIds,
             worker[r] = "alive", worker'[r] = "finishing"
      PROVE  Outcome(r) = "open" /\ Outcome(r)' = "completed"
  <2>1. r \in DOMAIN runs /\ r # NoRun /\ WorkerCompletes(r)
    BY <1>1, OnlyCompletes, RunsTyped DEF Inv, BoardInv, NoRun, RunIds
  <2>2. runs[r] \in Run /\ runs[r].task \in Tasks
    BY <1>1, <2>1, RunsTyped DEF Inv, BoardInv, Run
  <2>3. task[runs[r].task].run = r /\ runs[r].state = "open"
    BY <1>1, <2>1, <2>2, NamedRun DEF WorkerCompletes, Inv
  <2>4. runs' = Ended(runs[r].task, "completed")
    BY <2>1 DEF WorkerCompletes
  <2>5. /\ Len(runs') = Len(runs) /\ runs' \in Seq(Run)
        /\ runs'[r] = [runs[r] EXCEPT !.state = "completed"]
    <3> DEFINE t == runs[r].task
    <3>1. t \in Tasks /\ task[t].run = r /\ runs' = Ended(t, "completed") /\ BoardInv
      BY <1>1, <2>2, <2>3, <2>4 DEF Inv
    <3> HIDE DEF t
    <3>2. "completed" \in Outcomes
      BY DEF Outcomes
    <3> QED BY <2>1, <3>1, <3>2, EndedIs
  <2>6. r \in DOMAIN runs' /\ runs'[r].state = "completed"
    BY <1>1, <2>1, <2>2, <2>5, RunsTyped, LenProperties DEF Inv, BoardInv, Run
  <2> QED BY <2>1, <2>3, <2>6 DEF Outcome
<1>2. Inv /\ [Next]_vars =>
          [\A r \in RunIds : worker[r] = "alive" /\ worker'[r] = "finishing" =>
               Outcome(r) = "open" /\ Outcome(r)' = "completed"]_vars
  BY <1>1
<1> QED BY SpecInv, <1>2, PTL DEF Spec, OwnAttempt

-----------------------------------------------------------------------------
(* No task waits for itself.                                               *)

\* What x reaches is the least set with x that the links do not leave.
Closed(S, L) == \A l \in L : l[1] \in S => l[2] \in S
Reach(x) == {y \in Tasks : Reaches(x, y)}

LEMMA ReachIs ==
    ASSUME NEW x \in Tasks, links \subseteq Tasks \X Tasks
    PROVE  /\ x \in Reach(x) /\ Closed(Reach(x), links)
           /\ \A S \in SUBSET Tasks : x \in S /\ Closed(S, links) => Reach(x) \subseteq S
<1>1. x \in Reach(x)
  BY DEF Reach, Reaches
<1>2. Closed(Reach(x), links)
  <2> SUFFICES ASSUME NEW l \in links, l[1] \in Reach(x) PROVE l[2] \in Reach(x)
    BY DEF Closed
  <2>1. l[2] \in Tasks
    OBVIOUS
  <2> QED BY <2>1 DEF Reach, Reaches
<1>3. \A S \in SUBSET Tasks : x \in S /\ Closed(S, links) => Reach(x) \subseteq S
  BY DEF Reach, Reaches, Closed
<1> QED BY <1>1, <1>2, <1>3

\* To show that b does not reach a, a set that the links do not leave is enough.
LEMMA NotReached ==
    ASSUME NEW a \in Tasks, NEW b \in Tasks, NEW S \in SUBSET Tasks,
           b \in S, a \notin S, Closed(S, links)
    PROVE  ~ Reaches(b, a)
  BY DEF Reaches, Closed

Wired == NoMutualWait /\ \A l \in links : Exists(l[1]) /\ Exists(l[2])

LEMMA ExistStays ==
    ASSUME Inv, [Next]_vars, NEW t \in Tasks, Exists(t)
    PROVE  Exists(t)'
<1>1. BoardStep
  BY NextInv
<1>2. Stage(t) # "absent"
  BY DEF Stage, Exists
<1>3. CASE UNCHANGED Contract!boardVars
  <2>1. Stage(t)' = Stage(t)
    BY <1>3 DEF Contract!boardVars
  <2> QED BY <1>1, <1>2, <2>1 DEF Stage, Exists, BoardStep, BoardInv, Held
<1>4. CASE Contract!BoardNext
  <2> DEFINE stage == [u \in Tasks |-> Stage(u)]
  <2>1. stage'[t] = Stage(t)' /\ stage[t] = Stage(t)
    OBVIOUS
  <2>2. Stage(t)' # "absent"
    <3>1. CASE Contract!Arrange
      BY <1>2, <2>1, <3>1 DEF Contract!Arrange, Contract!Moves
    <3>2. CASE Contract!Finish
      BY <1>2, <2>1, <3>2 DEF Contract!Finish
    <3>3. CASE \E u \in Tasks : Contract!Add(u) \/ Contract!Rewire(u) \/ Contract!Start(u)
      BY <1>2, <2>1, <3>3 DEF Contract!Add, Contract!Rewire, Contract!Start
    <3> QED BY <1>4, <3>1, <3>2, <3>3 DEF Contract!BoardNext
  <2> QED BY <1>1, <2>2 DEF Stage, Exists, BoardStep, BoardInv, Held
<1> QED BY <1>1, <1>3, <1>4 DEF BoardStep

\* Only these change the links.
LEMMA LinksStep ==
    ASSUME [Next]_vars, links' # links
    PROVE  \/ \E t \in Tasks, P \in SUBSET Tasks, triage \in BOOLEAN : Create(t, P, triage)
           \/ \E p, c \in Tasks : Link(p, c) \/ Unlink(p, c)
<1>1. ASSUME NEW d \in Dispatchers, Tick(d) \/ CrashDispatcher(d) PROVE FALSE
  BY <1>1 DEF Tick, CrashDispatcher, StartTick, ReleaseStale, DetectCrashed,
     RecordDue, EnforceRuntime, KillOverrun, Promote, Select, ClaimNext, SpawnFails,
     SpawnWorker, RecordPid, EndTick, board, Close, RecordFailure, RecordSpawnFailure,
     RecomputeReady, Claim, Demote
<1>2. ASSUME NEW r \in 1..Len(runs), Work(r) PROVE FALSE
  BY <1>2 DEF Work, Heartbeat, WorkerCompletes, WorkerPromotes, WorkerBlocks, WorkerEnds,
     board, Close, RecomputeReady
<1>3. ASSUME NEW t \in Tasks, Operate(t) \/ Expire(t) PROVE FALSE
  BY <1>3 DEF Operate, Expire, Specify, Complete, TerminalClaims, Block, Unblock,
     Archive, Assign, Reclaim, board, Close, Claim, Demote
<1>4. ~ OpPromotes /\ ~ ReclaimRow /\ ~ ClearFailures /\ ~ UNCHANGED vars
  BY DEF OpPromotes, ReclaimRow, ClearFailures, RecomputeReady, Close, board, vars
<1> QED BY <1>1, <1>2, <1>3, <1>4 DEF Next

LEMMA LinkKeeps ==
    ASSUME Inv, Wired, NEW p \in Tasks, NEW c \in Tasks, Link(p, c)
    PROVE  NoMutualWait'
<1>1. links' = links \union {<<p, c>>} /\ p # c /\ ~ Reaches(c, p)
  BY DEF Link
<1>2. links \subseteq Tasks \X Tasks
  BY DEF Inv, BoardInv, BoardTyped
<1> SUFFICES ASSUME NEW a \in Tasks, NEW b \in Tasks, <<a, b>> \in links'
             PROVE  ~ Reaches(b, a)'
  BY DEF NoMutualWait
<1>3. p \notin Reach(c)
  BY <1>1 DEF Reach
<1>4. /\ c \in Reach(c) /\ Closed(Reach(c), links)
      /\ b \in Reach(b) /\ Closed(Reach(b), links)
  BY <1>2, ReachIs
<1>5. \E S \in SUBSET Tasks : b \in S /\ a \notin S /\ Closed(S, links')
  <2>1. CASE <<a, b>> = <<p, c>>
    <3>1. Closed(Reach(c), links')
      BY <1>1, <1>3, <1>4 DEF Closed
    <3>2. Reach(c) \subseteq Tasks /\ a = p /\ b = c
      BY <2>1 DEF Reach
    <3> QED BY <1>3, <1>4, <3>1, <3>2
  <2>2. CASE <<a, b>> \in links
    <3>1. a \notin Reach(b)
      BY <2>2 DEF Wired, NoMutualWait, Reach
    <3>2. CASE p \notin Reach(b)
      <4>1. Closed(Reach(b), links')
        BY <1>1, <1>4, <3>2 DEF Closed
      <4>2. Reach(b) \subseteq Tasks
        BY DEF Reach
      <4> QED BY <1>4, <3>1, <4>1, <4>2
    <3>3. CASE p \in Reach(b)
      <4>1. a \notin Reach(c)
        <5>1. SUFFICES ASSUME a \in Reach(c) PROVE FALSE
          OBVIOUS
        <5>2. b \in Reach(c)
          BY <1>4, <2>2, <5>1 DEF Closed
        <5>3. Reach(b) \subseteq Reach(c)
          BY <1>2, <1>4, <5>2, ReachIs DEF Reach
        <5> QED BY <1>3, <3>3, <5>3
      <4>2. Closed(Reach(b) \union Reach(c), links')
        BY <1>1, <1>4 DEF Closed
      <4>3. Reach(b) \union Reach(c) \subseteq Tasks
        BY DEF Reach
      <4> QED BY <1>4, <3>1, <4>1, <4>2, <4>3
    <3> QED BY <3>2, <3>3
  <2> QED BY <1>1, <2>1, <2>2
<1> QED BY <1>5 DEF Reaches, Closed

LEMMA CreateKeeps ==
    ASSUME Inv, Wired, NEW t \in Tasks, NEW P \in SUBSET Tasks, NEW triage \in BOOLEAN,
           Create(t, P, triage)
    PROVE  Wired'
<1>1. links' = links \union (P \X {t}) /\ ~ Exists(t) /\ \A p \in P : Exists(p)
  BY DEF Create
<1>2. links \subseteq Tasks \X Tasks
  BY DEF Inv, BoardInv, BoardTyped
<1>3. \A l \in links : Exists(l[1]) /\ Exists(l[2])
  BY DEF Wired
<1>4. Exists(t)'
  BY DEF Create, Exists, Inv, BoardInv, BoardTyped
<1>5. \A l \in links' : Exists(l[1])' /\ Exists(l[2])'
  <2>1. \A u \in Tasks : Exists(u) => Exists(u)'
    BY <1>1 DEF Create, Exists, Inv, BoardInv, BoardTyped
  <2> QED BY <1>1, <1>2, <1>3, <1>4, <2>1
<1>6. ASSUME NEW a \in Tasks, NEW b \in Tasks, <<a, b>> \in links'
      PROVE  \E S \in SUBSET Tasks : b \in S /\ a \notin S /\ Closed(S, links')
  <2>1. CASE <<a, b>> \in links
    <3>1. a \notin Reach(b) /\ b \in Reach(b) /\ Closed(Reach(b), links)
      BY <1>2, <2>1, ReachIs DEF Wired, NoMutualWait, Reach
    <3>2. a # t
      BY <1>1, <1>3, <2>1
    <3>3. Closed(Reach(b) \union {t}, links')
      BY <1>1, <1>3, <3>1 DEF Closed
    <3>4. Reach(b) \union {t} \subseteq Tasks
      BY DEF Reach
    <3> QED BY <3>1, <3>2, <3>3, <3>4
  <2>2. CASE a \in P /\ b = t
    <3>1. Closed({t}, links')
      BY <1>1, <1>3 DEF Closed
    <3> QED BY <1>1, <2>2, <3>1
  <2> QED BY <1>1, <1>6, <2>1, <2>2
<1>7. NoMutualWait'
  BY <1>6 DEF NoMutualWait, Reaches, Closed
<1> QED BY <1>5, <1>7 DEF Wired

LEMMA WiredStep ==
    ASSUME Inv, Wired, [Next]_vars
    PROVE  Wired'
<1>1. CASE links' = links
  <2>1. NoMutualWait'
    BY <1>1 DEF Wired, NoMutualWait, Reaches
  <2>2. links \subseteq Tasks \X Tasks
    BY DEF Inv, BoardInv, BoardTyped
  <2> QED BY <1>1, <2>1, <2>2, ExistStays DEF Wired
<1>2. ASSUME NEW p \in Tasks, NEW c \in Tasks, Link(p, c) PROVE Wired'
  <2>1. \A l \in links' : l[1] \in Tasks /\ l[2] \in Tasks /\ Exists(l[1]) /\ Exists(l[2])
    BY <1>2 DEF Link, Wired, Inv, BoardInv, BoardTyped
  <2> QED BY <1>2, <2>1, LinkKeeps, ExistStays DEF Wired
<1>3. ASSUME NEW p \in Tasks, NEW c \in Tasks, Unlink(p, c) PROVE Wired'
  <2>1. links' \subseteq links /\ links \subseteq Tasks \X Tasks
    BY <1>3 DEF Unlink, Inv, BoardInv, BoardTyped
  <2>2. NoMutualWait'
    BY <2>1 DEF Wired, NoMutualWait, Reaches
  <2> QED BY <2>1, <2>2, ExistStays DEF Wired
<1> QED BY <1>1, <1>2, <1>3, CreateKeeps, LinksStep

\* No task waits, through its parents, for itself, whatever is created, linked
\* and unlinked in whatever order (_would_cycle of link_tasks).
THEOREM NoCycle == Spec => []NoMutualWait
<1>1. Init => Wired
  BY DEF Init, Wired, NoMutualWait
<1>2. Inv /\ Wired /\ [Next]_vars => Wired'
  BY WiredStep
<1>3. Wired => NoMutualWait
  BY DEF Wired
<1> QED BY SpecInv, <1>1, <1>2, <1>3, PTL DEF Spec

-----------------------------------------------------------------------------
(* max_spawn.                                                              *)

\* The tasks that run under a dispatcher's claim, and those of them that its
\* budget already accounts for: the one it is just starting is not paid yet.
Spawned == {t \in Running : task[t].lock[1] \in Dispatchers}
Starting(d) == IF disp[d].at \in {"launch", "record"}
               THEN {runs[disp[d].run].task} ELSE {}
Budget == \A d \in Dispatchers :
    disp[d].at \in {"spawn", "launch", "record"} =>
        Cardinality(Spawned \ Starting(d)) + disp[d].slots <= MaxSpawn
Capped == SpawnCap /\ Budget

LEMMA Counting ==
    ASSUME NEW S \in SUBSET Tasks
    PROVE  /\ IsFiniteSet(S) /\ Cardinality(S) \in Nat
           /\ \A R \in SUBSET S : Cardinality(R) <= Cardinality(S)
           /\ \A t \in Tasks : Cardinality(S) <= Cardinality(S \ {t}) + 1
<1>1. IsFiniteSet(S)
  BY FS_Subset
<1>2. \A R \in SUBSET S : IsFiniteSet(R) /\ Cardinality(R) <= Cardinality(S)
  BY <1>1, FS_Subset
<1>3. \A t \in Tasks : Cardinality(S) <= Cardinality(S \ {t}) + 1
  <2> SUFFICES ASSUME NEW t \in Tasks
               PROVE  Cardinality(S) <= Cardinality(S \ {t}) + 1
    OBVIOUS
  <2>1. Cardinality(S \ {t}) = IF t \in S THEN Cardinality(S) - 1 ELSE Cardinality(S)
    BY <1>1, FS_RemoveElement
  <2> QED BY <1>1, <2>1, FS_CardinalityType
<1> QED BY <1>1, <1>2, <1>3, FS_CardinalityType

\* A dispatcher's task does not begin to run: whoever the step is by, the budget
\* is kept.
LEMMA CountedStep ==
    ASSUME Inv, BoardStep, Spawned' \subseteq Spawned, Capped,
           NEW d \in Dispatchers, \A e \in Dispatchers : e = d,
           disp'[d].at \in {"spawn", "launch", "record"} =>
               /\ disp[d].at \in {"spawn", "launch", "record"}
               /\ disp'[d].slots = disp[d].slots
               /\ disp[d].at \in {"launch", "record"} =>
                     /\ disp'[d].at \in {"launch", "record"}
                     /\ disp'[d].run = disp[d].run
    PROVE  Capped'
<1>1. Spawned' \subseteq Spawned /\ Spawned \subseteq Tasks
  BY DEF Spawned, Running
<1>2. SpawnCap'
  <2>1. Cardinality(Spawned') <= Cardinality(Spawned)
    BY <1>1, Counting
  <2>2. Cardinality(Spawned) \in Nat /\ Cardinality(Spawned') \in Nat
    BY <1>1, Counting
  <2> QED BY <2>1, <2>2 DEF Capped, SpawnCap, Spawned
<1>3. ASSUME disp'[d].at \in {"spawn", "launch", "record"}
      PROVE  Cardinality(Spawned' \ Starting(d)') + disp'[d].slots <= MaxSpawn
  <2>1. Starting(d) \subseteq Starting(d)'
    <3>1. disp[d].at \in {"launch", "record"} =>
              runs'[disp[d].run].task = runs[disp[d].run].task
      BY LaunchedTask DEF BoardStep
    <3> QED BY <1>3, <3>1 DEF Starting
  <2>2. Cardinality(Spawned' \ Starting(d)') <= Cardinality(Spawned \ Starting(d))
    BY <1>1, <2>1, Counting
  <2>3. Cardinality(Spawned' \ Starting(d)') \in Nat /\ Cardinality(Spawned \ Starting(d)) \in Nat
    BY <1>1, Counting
  <2>4. disp[d].slots \in Nat
    BY DEF Inv, LocalInv, Ticking
  <2>5. Cardinality(Spawned \ Starting(d)) + disp[d].slots <= MaxSpawn
    BY <1>3 DEF Capped, Budget
  <2> QED BY <1>3, <2>2, <2>3, <2>4, <2>5
<1>4. Budget'
  BY <1>3 DEF Budget
<1> QED BY <1>2, <1>4 DEF Capped

LEMMA QuietStep ==
    ASSUME Inv, Kept, Capped, NEW d \in Dispatchers, \A e \in Dispatchers : e = d,
           disp'[d].at \in {"spawn", "launch", "record"} =>
               /\ disp[d].at \in {"spawn", "launch", "record"}
               /\ disp'[d].slots = disp[d].slots
               /\ disp[d].at \in {"launch", "record"} =>
                     /\ disp'[d].at \in {"launch", "record"}
                     /\ disp'[d].run = disp[d].run
    PROVE  Capped'
<1>1. Spawned' \subseteq Spawned
  BY DEF Kept, Spawned, Running
<1> QED BY <1>1, CountedStep DEF Kept

LEMMA SelectKeepsCap ==
    ASSUME Inv, Capped, NEW d \in Dispatchers, \A e \in Dispatchers : e = d, Select(d)
    PROVE  Capped'
<1> DEFINE n == Cardinality(Running)
<1>1. task' = task /\ runs' = runs
  BY DEF Select, board
<1>2. disp'[d].at = "spawn" /\ disp'[d].slots = IF n < MaxSpawn THEN MaxSpawn - n ELSE 0
  BY DEF Select, Inv, LocalInv, Ticking
<1>3. Spawned' = Spawned
  BY <1>1 DEF Spawned, Running
<1>4. Starting(d)' = {}
  BY <1>2 DEF Starting
<1>5. /\ Cardinality(Spawned) \in Nat /\ n \in Nat /\ Cardinality(Spawned) <= n
      /\ Spawned \ {} = Spawned
  <2>1. Running \subseteq Tasks /\ Spawned \subseteq Running
    BY DEF Running, Spawned
  <2> QED BY <2>1, Counting
<1>6. Cardinality(Spawned) <= MaxSpawn
  BY DEF Capped, SpawnCap, Spawned
<1> HIDE DEF n
<1>7. Budget'
  <2>1. Cardinality(Spawned' \ Starting(d)') + disp'[d].slots <= MaxSpawn
    BY <1>2, <1>3, <1>4, <1>5, <1>6
  <2> QED BY <2>1 DEF Budget
<1> QED BY <1>3, <1>6, <1>7 DEF Capped, SpawnCap, Spawned

\* The claim of a dispatcher is within its budget.
LEMMA ClaimKeepsCap ==
    ASSUME Inv, Capped, NEW d \in Dispatchers, \A e \in Dispatchers : e = d, ClaimNext(d)
    PROVE  Capped'
<1> PICK row \in disp[d].rows :
        /\ At(d, "spawn") /\ disp[d].slots > 0
        /\ \/ /\ Claim(row.task, <<d, epoch[d]>>)
              /\ disp' = [disp EXCEPT ![d] = [@ EXCEPT !.at = "launch",
                            !.rows = disp[d].rows \ {row}, !.run = Len(runs) + 1]]
           \/ /\ IF ParentsSettled(row.task) THEN UNCHANGED board ELSE Demote(row.task)
              /\ ~ Claimable(row.task)
              /\ Goto(d, "spawn", disp[d].rows \ {row})
  BY DEF ClaimNext
<1>1. disp[d] \in Ticking /\ row.task \in Tasks /\ disp[d].at = "spawn"
  BY DEF Inv, LocalInv, Ticking, ReadRow, At
<1>2. CASE /\ Claim(row.task, <<d, epoch[d]>>)
           /\ disp' = [disp EXCEPT ![d] = [@ EXCEPT !.at = "launch",
                         !.rows = disp[d].rows \ {row}, !.run = Len(runs) + 1]]
  <2> DEFINE t == row.task
  <2>1. /\ runs'[Len(runs) + 1].task = t
        /\ \A u \in Tasks : u # t => task'[u] = task[u]
    BY <1>1, <1>2, ClaimStep, LockOf DEF Inv
  <2>2. /\ disp'[d].at = "launch" /\ disp'[d].run = Len(runs) + 1
        /\ disp'[d].slots = disp[d].slots
    BY <1>1, <1>2 DEF Inv, LocalInv, Ticking
  <2>3. Starting(d)' = {t}
    BY <2>1, <2>2 DEF Starting
  <2>4. Starting(d) = {}
    BY <1>1 DEF Starting
  <2> HIDE DEF t
  <2>5. Spawned' \ {t} \subseteq Spawned /\ Spawned \subseteq Tasks /\ Spawned' \subseteq Tasks
    BY <2>1 DEF Spawned, Running
  <2>6. /\ Cardinality(Spawned) \in Nat /\ Cardinality(Spawned') \in Nat
        /\ Cardinality(Spawned' \ {t}) \in Nat
        /\ Cardinality(Spawned' \ {t}) <= Cardinality(Spawned)
        /\ Cardinality(Spawned') <= Cardinality(Spawned' \ {t}) + 1
    <3>1. t \in Tasks /\ Spawned' \ {t} \subseteq Tasks
      BY <1>1, <2>5 DEF t
    <3> QED BY <2>5, <3>1, Counting
  <2>7. Cardinality(Spawned) + disp[d].slots <= MaxSpawn
    <3>1. Spawned \ {} = Spawned
      OBVIOUS
    <3> QED BY <1>1, <2>4, <3>1 DEF Capped, Budget
  <2>8. disp[d].slots \in Nat /\ disp[d].slots >= 1
    BY <1>1 DEF Ticking
  <2>9. Budget'
    <3>1. Cardinality(Spawned' \ {t}) + disp[d].slots <= MaxSpawn
      BY <2>6, <2>7, <2>8
    <3>2. Cardinality(Spawned' \ Starting(d)') + disp'[d].slots <= MaxSpawn
      BY <2>2, <2>3, <3>1
    <3> QED BY <3>2 DEF Budget
  <2>10. Cardinality(Spawned') <= MaxSpawn
    BY <2>6, <2>7, <2>8
  <2> QED BY <2>9, <2>10 DEF Capped, SpawnCap, Spawned
<1>3. CASE /\ IF ParentsSettled(row.task) THEN UNCHANGED board ELSE Demote(row.task)
           /\ Goto(d, "spawn", disp[d].rows \ {row})
  <2>1. Kept
    BY <1>1, <1>3, NoStep, DemoteStep DEF Inv
  <2>2. disp'[d].at = "spawn" /\ disp'[d].slots = disp[d].slots
    BY <1>1, <1>3 DEF Goto, Inv, LocalInv, Ticking
  <2> QED BY <1>1, <2>1, <2>2, QuietStep
<1> QED BY <1>2, <1>3

\* When a worker is started its task is paid from the budget; when it cannot be,
\* the task does not run any more.
LEMMA LaunchKeepsCap ==
    ASSUME Inv, Capped, NEW d \in Dispatchers, \A e \in Dispatchers : e = d,
           SpawnFails(d) \/ RecordPid(d)
    PROVE  Capped'
<1> DEFINE t == runs[disp[d].run].task
<1>1. /\ t \in Tasks /\ disp[d].at \in {"launch", "record"}
      /\ disp[d] \in Ticking /\ disp[d].slots \in 1..MaxSpawn
  BY LaunchedTask DEF SpawnFails, RecordPid, At
<1>2. Starting(d) = {t}
  BY <1>1 DEF Starting
<1>0. disp \in [Dispatchers -> Ticking]
  BY DEF Inv, LocalInv
<1>3. disp'[d].at = "spawn"
  <2>1. CASE SpawnFails(d)
    BY <1>0, <2>1 DEF SpawnFails, Ticking
  <2>2. CASE RecordPid(d)
    BY <1>0, <2>2 DEF RecordPid, Ticking
  <2> QED BY <2>1, <2>2
<1>4. Starting(d)' = {}
  BY <1>3 DEF Starting
<1>5. Spawned' \subseteq Spawned /\ Spawned \subseteq Tasks
  BY SpawnFailsStep, RecordPidStep DEF Kept, Spawned, Running
<1>6. \/ t \notin Spawned' /\ disp'[d].slots = disp[d].slots
      \/ disp'[d].slots = disp[d].slots - 1
  <2>1. CASE SpawnFails(d)
    <3>1. task'[t].status # "running"
      BY <1>1, <2>1, SpawnFailureStep DEF SpawnFails, Inv
    <3>2. disp'[d].slots = disp[d].slots
      BY <1>1, <2>1 DEF SpawnFails, Inv, LocalInv, Ticking
    <3> QED BY <3>1, <3>2 DEF Spawned, Running
  <2>2. CASE RecordPid(d)
    BY <1>1, <2>2 DEF RecordPid, Inv, LocalInv, Ticking
  <2> QED BY <2>1, <2>2
<1> HIDE DEF t
<1>7. Cardinality(Spawned \ {t}) + disp[d].slots <= MaxSpawn
  BY <1>1, <1>2 DEF Capped, Budget
<1>8. /\ Cardinality(Spawned') \in Nat /\ Cardinality(Spawned \ {t}) \in Nat
      /\ Cardinality(Spawned') <= Cardinality(Spawned' \ {t}) + 1
      /\ Cardinality(Spawned' \ {t}) \in Nat
      /\ Cardinality(Spawned' \ {t}) <= Cardinality(Spawned \ {t})
      /\ t \notin Spawned' => Spawned' \ {t} = Spawned'
      /\ Spawned' \ {} = Spawned'
  <2>1. Spawned' \ {t} \subseteq Spawned \ {t}
    BY <1>5
  <2> QED BY <1>1, <1>5, <2>1, Counting
<1>9. disp'[d].slots \in Nat /\ Cardinality(Spawned') + disp'[d].slots <= MaxSpawn
  <2>1. CASE t \notin Spawned' /\ disp'[d].slots = disp[d].slots
    <3>1. disp'[d].slots = disp[d].slots /\ Spawned' \ {t} = Spawned'
      BY <1>8, <2>1
    <3> QED BY <1>1, <1>7, <1>8, <3>1
  <2>2. CASE disp'[d].slots = disp[d].slots - 1
    BY <1>1, <1>7, <1>8, <2>2
  <2> QED BY <1>6, <2>1, <2>2
<1>10. Budget'
  <2>1. Cardinality(Spawned' \ Starting(d)') + disp'[d].slots <= MaxSpawn
    BY <1>4, <1>8, <1>9
  <2> QED BY <2>1 DEF Budget
<1>11. Cardinality(Spawned') <= MaxSpawn
  BY <1>8, <1>9
<1> QED BY <1>10, <1>11 DEF Capped, SpawnCap, Spawned

LEMMA CapStep ==
    ASSUME Inv, Capped, [Next]_vars, NEW d \in Dispatchers, \A e \in Dispatchers : e = d
    PROVE  Capped'
<1>0. disp \in [Dispatchers -> Ticking]
  BY DEF Inv, LocalInv
<1>1. CASE Tick(d) \/ CrashDispatcher(d)
  <2>1. CASE StartTick(d) \/ ReleaseStale(d) \/ DetectCrashed(d) \/ EnforceRuntime(d)
             \/ KillOverrun(d) \/ Promote(d) \/ EndTick(d) \/ CrashDispatcher(d)
    <3>1. Kept
      BY <2>1, StartTickStep, ReleaseStaleStep, DetectCrashedStep, EnforceRuntimeStep,
         KillOverrunStep, PromoteStep, EndTickStep
    <3>2. disp'[d].at \in {"idle", "stale", "crashed", "runtime", "select"}
      <4>1. CASE StartTick(d) \/ ReleaseStale(d) \/ EnforceRuntime(d)
        <5>1. PICK at \in {"stale", "runtime"} : \E rows : Goto(d, at, rows)
          BY <4>1 DEF StartTick, ReleaseStale, EnforceRuntime
        <5> QED BY <1>0, <5>1 DEF Goto, Ticking
      <4>2. CASE DetectCrashed(d)
        BY <1>0, <4>2 DEF DetectCrashed, Ticking
      <4>3. CASE KillOverrun(d)
        BY <1>0, <4>3 DEF KillOverrun, At, Ticking
      <4>4. CASE Promote(d)
        BY <1>0, <4>4 DEF Promote, Goto, Ticking
      <4>5. CASE EndTick(d) \/ CrashDispatcher(d)
        BY <1>0, <4>5 DEF EndTick, CrashDispatcher, Resting
      <4> QED BY <2>1, <4>1, <4>2, <4>3, <4>4, <4>5
    <3> QED BY <3>1, <3>2, QuietStep
  <2>2. CASE RecordDue(d)
    <3>1. /\ disp'[d].at = disp[d].at /\ disp'[d].run = disp[d].run
          /\ disp'[d].slots = disp[d].slots
      BY <1>0, <2>2 DEF RecordDue, Ticking
    <3> QED BY <2>2, <3>1, RecordDueStep, QuietStep
  <2>3. CASE SpawnWorker(d)
    <3>1. /\ disp[d].at = "launch" /\ disp'[d].at = "record" /\ disp'[d].run = disp[d].run
          /\ disp'[d].slots = disp[d].slots
      BY <1>0, <2>3 DEF SpawnWorker, At, Ticking
    <3> QED BY <2>3, <3>1, SpawnWorkerStep, QuietStep
  <2> QED BY <1>1, <2>1, <2>2, <2>3, SelectKeepsCap, ClaimKeepsCap, LaunchKeepsCap DEF Tick
<1>2. CASE Kept /\ UNCHANGED disp
  BY <1>2, QuietStep
<1>3. ASSUME NEW r \in 1..Len(runs), Work(r) PROVE Kept /\ UNCHANGED disp
  BY <1>3, HeartbeatStep, WorkerCompletesStep, WorkerPromotesStep, WorkerBlocksStep,
     WorkerEndsStep DEF Work, Heartbeat, WorkerCompletes, WorkerPromotes, WorkerBlocks,
     WorkerEnds, Self
<1>4. ASSUME NEW t \in Tasks, Operate(t) \/ Expire(t), ~ TerminalClaims(t)
      PROVE  Kept /\ UNCHANGED disp
  BY <1>4, SpecifyStep, OperatorCompletesStep, OperatorBlocksStep, UnblockStep,
     ArchiveStep, AssignStep, ReclaimStep, ExpireStep DEF Operate, Expire, Specify,
     Complete, Block, Unblock, Archive, Assign, Reclaim, Others
<1>5. ASSUME NEW t \in Tasks, TerminalClaims(t) PROVE Capped'
  <2>1. UNCHANGED disp
    BY <1>5 DEF TerminalClaims, Others
  <2>2. CASE Demote(t)
    BY <1>2, <2>1, <2>2, DemoteStep DEF Inv
  <2>3. CASE Claim(t, <<"terminal", Len(runs) + 1>>)
    <3>1. <<"terminal", Len(runs) + 1>> \in Locks
      BY <2>3, RunsTyped DEF Claim, Locks, Host, Inv, BoardInv
    <3>2. /\ BoardStep /\ task'[t].lock = <<"terminal", Len(runs) + 1>>
          /\ \A u \in Tasks : u # t => task'[u] = task[u]
      BY <2>3, <3>1, ClaimStep DEF Inv
    <3>3. t \notin Spawned' /\ Spawned' \subseteq Spawned /\ Spawned \subseteq Tasks
      BY <3>2 DEF Spawned, Running
    <3> QED BY <2>1, <3>2, <3>3, CountedStep
  <2> QED BY <1>5, <2>2, <2>3 DEF TerminalClaims
<1>6. ASSUME NEW p \in Tasks, NEW c \in Tasks, Link(p, c) \/ Unlink(p, c)
      PROVE  Kept /\ UNCHANGED disp
  BY <1>6, LinkStep, UnlinkStep DEF Link, Unlink, Others
<1>7. ASSUME NEW t \in Tasks, NEW P \in SUBSET Tasks, NEW triage \in BOOLEAN,
             Create(t, P, triage)
      PROVE  Kept /\ UNCHANGED disp
  BY <1>7, CreateStep DEF Create, Others
<1>8. OpPromotes \/ ReclaimRow \/ ClearFailures => Kept /\ UNCHANGED disp
  BY OpPromotesStep, ReclaimRowStep, ClearFailuresStep
     DEF OpPromotes, ReclaimRow, ClearFailures, Others
<1>9. UNCHANGED vars => Kept /\ UNCHANGED disp
  BY NoStep DEF Inv, vars, board
<1> QED BY <1>1, <1>2, <1>3, <1>4, <1>5, <1>6, <1>7, <1>8, <1>9 DEF Next

\* One dispatcher never has more tasks running than max_spawn, although it counts
\* once a tick and operators claim, complete and reclaim in between (dispatch_once).
THEOREM SpawnsCapped ==
    ASSUME NEW d, Dispatchers = {d}
    PROVE  Spec => []SpawnCap
<1>1. Init => Capped
  <2> SUFFICES ASSUME Init PROVE Capped
    OBVIOUS
  <2>1. Spawned = {} /\ Cardinality(Spawned) = 0
    <3>1. Spawned = {}
      BY DEF Init, Spawned, Running, NoRow
    <3> QED BY <3>1, FS_EmptySet
  <2>2. SpawnCap
    BY <2>1 DEF SpawnCap, Spawned
  <2>3. \A e \in Dispatchers : disp[e].at = "idle"
    BY DEF Init, Resting
  <2> QED BY <2>2, <2>3 DEF Capped, Budget
<1>2. Inv /\ Capped /\ [Next]_vars => Capped'
  BY CapStep
<1>3. Capped => SpawnCap
  BY DEF Capped
<1> QED BY SpecInv, <1>1, <1>2, <1>3, PTL DEF Spec
=============================================================================
