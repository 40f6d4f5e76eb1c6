--------------------------- MODULE SessionProofs ---------------------------
(***************************************************************************)
(* Proofs about SessionTurns, for any messages, commands and bound on the   *)
(* turns.                                                                  *)
(***************************************************************************)
EXTENDS SessionTurns, TLAPS, WellFoundedInduction, FiniteSetTheorems

USE SessionAssumption

-----------------------------------------------------------------------------
(* The operators of the model                                              *)

LEMMA Least ==
    ASSUME NEW S \in SUBSET Nat, S # {}
    PROVE  \E x \in S : \A y \in S : x <= y
<1>1. PICK x \in S : \A y \in S : ~ (<<y, x>> \in OpToRel(<, Nat))
  BY NatLessThanWellFounded, WFMin
<1>2. \A y \in S : ~ (y < x)
  BY <1>1 DEF OpToRel
<1> QED BY <1>2

\* A task that is created takes the place of one that never was.
LEMMA NewestUnused ==
    ASSUME Unused # {}
    PROVE  Newest \in Turns /\ turn[Newest].at = "unused"
<1>1. Unused \in SUBSET Nat
  BY DEF Unused, Turns
<1>2. \E t \in Unused : \A u \in Unused : t <= u
  BY <1>1, Least
<1>3. Newest \in Unused
  BY <1>2 DEF Newest
<1> QED BY <1>3 DEF Unused

\* Well-formed tasks that hold known messages, in hand only while typing stops
Sound(tasks, known) ==
    /\ tasks \in [Turns -> Task]
    /\ \A t \in Turns :
         /\ tasks[t].batch \union tasks[t].note \union tasks[t].hand \subseteq known
         /\ tasks[t].hand # {} => tasks[t].at = "typing"

LEMMA SoundGrows ==
    ASSUME NEW tasks, NEW known, NEW more, Sound(tasks, known), known \subseteq more
    PROVE  Sound(tasks, more)
BY DEF Sound

LEMMA SoundChange ==
    ASSUME NEW tasks, NEW known, Sound(tasks, known), NEW t \in Turns, NEW new \in Task,
           new.batch \union new.note \union new.hand \subseteq known,
           new.hand # {} => new.at = "typing"
    PROVE  Sound([tasks EXCEPT ![t] = new], known)
BY DEF Sound

LEMMA SpawnSound ==
    ASSUME NEW tasks, NEW known, Sound(tasks, known), known \subseteq Messages,
           NEW batch, batch \subseteq known,
           Unused # {}, tasks[Newest].hand = {}
    PROVE  Sound(Spawn(tasks, batch), known)
<1>1. Newest \in Turns
  BY NewestUnused
<1> DEFINE new == [tasks[Newest] EXCEPT !.at = "spawned", !.batch = batch]
<1>2. tasks \in [Turns -> Task] /\ tasks[Newest] \in Task
  BY <1>1 DEF Sound
<1>3. new \in Task /\ new.at = "spawned" /\ new.batch = batch /\ new.hand = tasks[Newest].hand
         /\ new.note = tasks[Newest].note
  BY <1>2 DEF Task, Points
<1>4. tasks[Newest].note \subseteq known
  BY <1>1 DEF Sound
<1>5. Spawn(tasks, batch) = [tasks EXCEPT ![Newest] = new]
  BY <1>1, <1>2 DEF Spawn, Task
<1>6. new.batch \union new.note \union new.hand \subseteq known /\ new.hand = {}
  BY <1>3, <1>4
<1> HIDE DEF new
<1>7. Sound([tasks EXCEPT ![Newest] = new], known)
  BY <1>1, <1>3, <1>6, SoundChange
<1> QED BY <1>5, <1>7

LEMMA InterruptSound ==
    ASSUME NEW tasks, NEW known, Sound(tasks, known), known \subseteq Messages,
           NEW text, text \subseteq known
    PROVE  Sound(Interrupt(tasks, text), known)
<1>1. CASE slot \notin Turns
  BY <1>1 DEF Interrupt
<1>2. CASE slot \in Turns
  <2> DEFINE new == [tasks[slot] EXCEPT !.broken = TRUE, !.note = text]
  <2>1. tasks \in [Turns -> Task] /\ tasks[slot] \in Task
    BY <1>2 DEF Sound
  <2>2. new \in Task /\ new.note = text /\ new.batch = tasks[slot].batch
           /\ new.hand = tasks[slot].hand /\ new.at = tasks[slot].at
    BY <2>1 DEF Task
  <2>3. tasks[slot].batch \union tasks[slot].hand \subseteq known
           /\ (tasks[slot].hand # {} => tasks[slot].at = "typing")
    BY <1>2 DEF Sound
  <2>4. Interrupt(tasks, text) = [tasks EXCEPT ![slot] = new]
    BY <1>2, <2>1 DEF Interrupt, Task
  <2>5. new.batch \union new.note \union new.hand \subseteq known
           /\ (new.hand # {} => new.at = "typing")
    BY <2>2, <2>3
  <2> HIDE DEF new
  <2>6. Sound([tasks EXCEPT ![slot] = new], known)
    BY <1>2, <2>2, <2>5, SoundChange
  <2> QED BY <2>4, <2>6
<1> QED BY <1>1, <1>2

-----------------------------------------------------------------------------
(* Types                                                                   *)

\* The types, and that texts are held of messages that arrived.
TypeInv == TypeOK /\ pending \subseteq arrived /\ Sound(turn, arrived)

LEMMA StepTyped ==
    ASSUME TypeInv, NEW a, Ran(a),
           guard' \in Turns \union Commands \union {Nobody},
           owner' \in Turns \union {Nobody},
           slot' \in Turns \union {Nobody, Sentinel},
           pending' \subseteq arrived', gen' \in Nat,
           cmd' \in [Commands -> Dispatch],
           Sound(turn', arrived'),
           arrived \subseteq arrived', arrived' \subseteq Messages,
           replied' \union dropped' \subseteq arrived'
    PROVE  TypeInv'
<1>1. Able \subseteq Messages \union Commands \union Turns
  BY DEF Able
<1>2. ahead' \subseteq Messages \union Commands \union Turns
  BY <1>1 DEF Ran, TypeInv, TypeOK
<1>3. Queued \subseteq arrived
  BY DEF TypeInv, Sound, Queued
<1>4. crossed' \subseteq arrived'
  BY <1>3 DEF Ran, TypeInv, TypeOK
<1>5. turn' \in [Turns -> Task] /\ \A t \in Turns : turn'[t].hand # {} => turn'[t].at = "typing"
  BY DEF Sound
<1>7. wedged' \subseteq Turns \union {Nobody}
  BY DEF Ran, GivingUp, TypeInv, TypeOK, Dispatch
<1>6. TypeOK'
  BY <1>2, <1>4, <1>5, <1>7 DEF TypeOK
<1> QED BY <1>6 DEF TypeInv

\* A step that only changes tasks and the slot
LEMMA TaskStepTyped ==
    ASSUME TypeInv, NEW a, Ran(a), Sound(turn', arrived),
           slot' \in Turns \union {Nobody, Sentinel}, gen' \in Nat,
           UNCHANGED <<guard, owner, pending, cmd, arrived, replied, dropped>>
    PROVE  TypeInv'
BY StepTyped DEF TypeInv, TypeOK

\* A task that holds no event in hand moves on.
LEMMA MoveSound ==
    ASSUME TypeInv, NEW t \in Turns, turn[t].at # "typing", NEW point \in Points
    PROVE  Sound([turn EXCEPT ![t].at = point], arrived)
<1> DEFINE new == [turn[t] EXCEPT !.at = point]
<1>1. turn[t] \in Task /\ turn[t].hand = {} /\ turn \in [Turns -> Task]
         /\ turn[t].batch \union turn[t].note \union turn[t].hand \subseteq arrived
  BY DEF TypeInv, Sound
<1>2. new \in Task /\ new.batch = turn[t].batch /\ new.note = turn[t].note
         /\ new.hand = turn[t].hand
  BY <1>1 DEF Task
<1>3. [turn EXCEPT ![t].at = point] = [turn EXCEPT ![t] = new]
  BY <1>1
<1>4. Sound(turn, arrived)
  BY DEF TypeInv
<1> HIDE DEF new
<1> QED BY <1>1, <1>2, <1>3, <1>4, SoundChange

\* A cancellation moves a task, too.
LEMMA CutSound ==
    ASSUME TypeInv, NEW t \in Turns, turn[t].at # "typing", NEW point \in Points, CutTo(t, point)
    PROVE  Sound(turn', arrived)
<1> DEFINE new == [turn[t] EXCEPT !.cut = FALSE, !.at = point]
<1>1. turn[t] \in Task /\ turn[t].hand = {} /\ turn \in [Turns -> Task]
         /\ turn[t].batch \union turn[t].note \union turn[t].hand \subseteq arrived
  BY DEF TypeInv, Sound
<1>2. new \in Task /\ new.batch = turn[t].batch /\ new.note = turn[t].note
         /\ new.hand = turn[t].hand
  BY <1>1 DEF Task
<1>3. turn' = [turn EXCEPT ![t] = new]
  BY <1>1 DEF CutTo, Task
<1>4. Sound(turn, arrived)
  BY DEF TypeInv
<1> HIDE DEF new
<1> QED BY <1>1, <1>2, <1>3, <1>4, SoundChange

\* The agent's return, and one more run
LEMMA RestSound ==
    ASSUME TypeInv, NEW t \in Turns, turn[t].at # "typing", NEW point \in Points,
           NEW next, next \subseteq arrived
    PROVE  /\ Sound([turn EXCEPT ![t] = Rested(t, point)], arrived)
           /\ Sound([turn EXCEPT ![t] = [Rested(t, point) EXCEPT !.batch = next]], arrived)
<1> DEFINE one == Rested(t, point)
           two == [Rested(t, point) EXCEPT !.batch = next]
<1>1. turn[t] \in Task /\ turn[t].hand = {} /\ turn[t].batch \subseteq arrived
  BY DEF TypeInv, Sound
<1>2. next \in SUBSET Messages
  BY DEF TypeInv, TypeOK
<1>3. one \in Task /\ one.batch = turn[t].batch /\ one.note = {} /\ one.hand = {}
  BY <1>1 DEF Rested, Task
<1>4. two \in Task /\ two.batch = next /\ two.note = {} /\ two.hand = {}
  BY <1>1, <1>2 DEF Rested, Task
<1>5. Sound(turn, arrived)
  BY DEF TypeInv
<1> HIDE DEF one, two
<1>6. Sound([turn EXCEPT ![t] = one], arrived)
  BY <1>1, <1>3, <1>5, SoundChange
<1>7. Sound([turn EXCEPT ![t] = two], arrived)
  BY <1>4, <1>5, SoundChange
<1> QED BY <1>6, <1>7 DEF one, two

LEMMA ArriveTyped ==
    ASSUME TypeInv, NEW m \in Messages, Arrive(m)
    PROVE  TypeInv'
<1> DEFINE known == arrived \union {m}
<1>1. /\ arrived' = known /\ known \subseteq Messages /\ arrived \subseteq known
      /\ {m} \subseteq known /\ pending \subseteq known
      /\ turn \in [Turns -> Task] /\ Sound(turn, arrived)
  BY DEF Arrive, TypeInv, TypeOK
<1>2. Sound(turn, known)
  BY <1>1, SoundGrows
<1> HIDE DEF known
<1>3. Start(m) => Sound(turn', known) /\ guard' \in Turns /\ owner' \in Turns
  <2> SUFFICES ASSUME Start(m)
               PROVE  Sound(turn', known) /\ guard' \in Turns /\ owner' \in Turns
    OBVIOUS
  <2>1. Unused # {} /\ turn' = Spawn(turn, {m}) /\ guard' = Newest /\ owner' = Newest
    BY DEF Start
  <2>2. turn[Newest].hand = {}
    BY <2>1, <1>1, NewestUnused DEF Sound
  <2> QED BY <1>1, <1>2, <2>1, <2>2, SpawnSound, NewestUnused
<1>4. Queue(m) => Sound(turn', known)
  BY <1>1, <1>2, InterruptSound DEF Queue
<1>5. /\ Start(m) \/ Queue(m)
      /\ UNCHANGED <<cmd, replied>> /\ Ran(m)
  BY DEF Arrive
<1>6. Start(m) => UNCHANGED <<slot, gen, dropped>> /\ pending' \in {{}, pending}
  BY DEF Start
<1>7. Queue(m) => /\ UNCHANGED <<guard, owner, slot, gen>>
                  /\ pending' = {m} /\ dropped' = dropped \union pending
  BY DEF Queue
<1>8. /\ guard \in Turns \union Commands \union {Nobody} /\ owner \in Turns \union {Nobody}
      /\ slot \in Turns \union {Nobody, Sentinel} /\ gen \in Nat
      /\ cmd \in [Commands -> Dispatch] /\ replied \union dropped \subseteq known
  BY <1>1 DEF TypeInv, TypeOK
<1>9. pending' \subseteq known /\ replied' \union dropped' \subseteq known /\ Sound(turn', known)
  BY <1>1, <1>3, <1>4, <1>5, <1>6, <1>7, <1>8
<1>10. guard' \in Turns \union Commands \union {Nobody} /\ owner' \in Turns \union {Nobody}
  BY <1>3, <1>5, <1>7, <1>8
<1> QED BY <1>1, <1>5, <1>6, <1>7, <1>8, <1>9, <1>10, StepTyped

LEMMA BeginTyped ==
    ASSUME TypeInv, NEW t \in Turns, Begin(t)
    PROVE  TypeInv'
<1> DEFINE event == IF guard = Nobody THEN t ELSE guard
           new == [turn[t] EXCEPT !.at = "hook", !.bound = event]
<1>1. turn[t] \in Task /\ turn[t].hand = {} /\ turn \in [Turns -> Task]
         /\ turn[t].batch \union turn[t].note \union turn[t].hand \subseteq arrived
         /\ Sound(turn, arrived)
  BY DEF TypeInv, Sound, Begin, At
<1>2. event \in Turns \union Commands \union {Nobody}
  BY DEF TypeInv, TypeOK
<1>3. turn' = [turn EXCEPT ![t] = new] /\ guard' = event
  BY <1>1 DEF Begin, Task
<1> HIDE DEF event
<1>4. new \in Task /\ new.batch = turn[t].batch /\ new.note = turn[t].note
         /\ new.hand = turn[t].hand
  BY <1>1, <1>2 DEF Task, Points
<1> HIDE DEF new
<1>5. Sound(turn', arrived)
  BY <1>1, <1>3, <1>4, SoundChange
<1> QED BY <1>2, <1>3, <1>5, StepTyped DEF Begin, TypeInv, TypeOK

LEMMA ClaimTyped ==
    ASSUME TypeInv, NEW t \in Turns, Claim(t)
    PROVE  TypeInv'
<1> DEFINE new == [turn[t] EXCEPT !.at = "setup", !.gen = gen + 1]
<1>1. turn[t] \in Task /\ turn[t].hand = {} /\ turn \in [Turns -> Task]
         /\ turn[t].batch \union turn[t].note \union turn[t].hand \subseteq arrived
         /\ Sound(turn, arrived) /\ gen + 1 \in Nat
  BY DEF TypeInv, TypeOK, Sound, Claim, At
<1>2. turn' = [turn EXCEPT ![t] = new]
  BY <1>1 DEF Claim, Task
<1>3. new \in Task /\ new.batch = turn[t].batch /\ new.note = turn[t].note
         /\ new.hand = turn[t].hand
  BY <1>1 DEF Task, Points
<1> HIDE DEF new
<1>4. Sound(turn', arrived)
  BY <1>1, <1>2, <1>3, SoundChange
<1> QED BY <1>1, <1>4, TaskStepTyped DEF Claim

\* The text of a turn that finds the slot taken goes to the queue or the agent.
LEMMA YieldTyped ==
    ASSUME TypeInv, NEW t \in Turns, Merge(t) \/ Push(t)
    PROVE  TypeInv'
<1>1. turn[t].at = "hook" /\ Ran(t) /\ turn[t].batch \subseteq arrived /\ arrived \subseteq Messages
  BY DEF Merge, Push, At, TypeInv, TypeOK, Sound
<1>2. CASE Merge(t)
  <2>1. Sound(turn', arrived)
    BY <1>1, <1>2, MoveSound DEF Merge, Points
  <2> QED BY <1>1, <1>2, <2>1, StepTyped DEF Merge, TypeInv, TypeOK
<1>3. CASE Push(t)
  <2> DEFINE tasks == Interrupt(turn, turn[t].batch)
             new == [tasks[t] EXCEPT !.at = "sent"]
  <2>1. Sound(turn, arrived)
    BY DEF TypeInv
  <2>2. Sound(tasks, arrived)
    BY <1>1, <2>1, InterruptSound
  <2>3. tasks[t].at = "hook"
    BY <1>1, <2>1 DEF Interrupt, Sound, Task
  <2>4. turn' = [tasks EXCEPT ![t].at = "sent"]
    BY <1>3 DEF Push
  <2> HIDE DEF tasks
  <2>5. tasks \in [Turns -> Task] /\ tasks[t] \in Task /\ tasks[t].hand = {}
           /\ tasks[t].batch \union tasks[t].note \union tasks[t].hand \subseteq arrived
    BY <2>2, <2>3 DEF Sound
  <2>6. new \in Task /\ new.batch = tasks[t].batch /\ new.note = tasks[t].note
           /\ new.hand = tasks[t].hand
    BY <2>5 DEF Task, Points
  <2>7. turn' = [tasks EXCEPT ![t] = new]
    BY <2>4, <2>5
  <2> HIDE DEF new
  <2>8. Sound(turn', arrived)
    BY <2>2, <2>5, <2>6, <2>7, SoundChange
  <2> QED BY <1>1, <1>3, <2>8, TaskStepTyped DEF Push, TypeInv, TypeOK
<1> QED BY <1>2, <1>3

\* The steps of the agent's run that only move the task
LEMMA MoveTyped ==
    ASSUME TypeInv, NEW t \in Turns, Run(t) \/ Close(t) \/ Unwind(t) \/ Abort(t) \/ Track(t)
    PROVE  TypeInv'
<1>1. Ran(t) /\ slot' \in Turns \union {Nobody, Sentinel} /\ gen' \in Nat
         /\ UNCHANGED <<guard, owner, pending, cmd, arrived, replied, dropped>>
  BY DEF Run, Close, Unwind, Abort, Track, Released, Unclaimed, TypeInv, TypeOK
<1>2. CASE Track(t)
  BY <1>1, <1>2, TaskStepTyped DEF Track, TypeInv
<1>3. CASE Run(t) \/ Close(t) \/ Unwind(t) \/ Abort(t)
  <2>1. /\ turn[t].at # "typing"
        /\ \E point \in Points : turn' = [turn EXCEPT ![t].at = point]
    BY <1>3 DEF Run, Close, Unwind, Abort, At, Points
  <2>2. Sound(turn', arrived)
    BY <2>1, MoveSound
  <2> QED BY <1>1, <2>2, TaskStepTyped
<1> QED BY <1>2, <1>3

LEMMA AnswerTyped ==
    ASSUME TypeInv, NEW t \in Turns, Answer(t)
    PROVE  TypeInv'
<1>1. Sound(turn', arrived)
  BY MoveSound DEF Answer, At, Points
<1>2. turn[t].batch \subseteq arrived
  BY DEF TypeInv, Sound
<1> QED BY <1>1, <1>2, StepTyped DEF Answer, Unclaimed, TypeInv, TypeOK

LEMMA ReturnTyped ==
    ASSUME TypeInv, NEW t \in Turns, FollowUp(t) \/ Finish(t) \/ Fail(t)
    PROVE  TypeInv'
<1>1. turn[t].at # "typing" /\ Ran(t) /\ turn[t].batch \union turn[t].note \subseteq arrived
         /\ UNCHANGED <<guard, owner, slot, gen, cmd, arrived>>
  BY DEF FollowUp, Finish, Fail, At, TypeInv, Sound
<1>2. CASE Finish(t) \/ Fail(t)
  <2>1. Sound(turn', arrived)
    BY <1>1, <1>2, RestSound DEF Finish, Fail, Points
  <2> QED BY <1>1, <1>2, <2>1, TaskStepTyped DEF Finish, Fail, TypeInv, TypeOK
<1>3. CASE FollowUp(t)
  <2>1. PICK seen \in BOOLEAN, next \in {pending, turn[t].note, {}} :
             /\ turn' = [turn EXCEPT ![t] = [Rested(t, "again") EXCEPT !.batch = next]]
             /\ pending' = {}
             /\ IF seen THEN dropped' = dropped \union turn[t].batch /\ UNCHANGED replied
                        ELSE replied' = replied \union turn[t].batch /\ UNCHANGED dropped
    BY <1>3 DEF FollowUp
  <2>2. next \subseteq arrived
    BY <1>1 DEF TypeInv
  <2>3. Sound(turn', arrived)
    BY <1>1, <2>1, <2>2, RestSound DEF Points
  <2>4. replied' \union dropped' \subseteq arrived
    BY <1>1, <2>1 DEF TypeInv, TypeOK
  <2> QED BY <1>1, <2>1, <2>3, <2>4, StepTyped DEF TypeInv, TypeOK
<1> QED BY <1>2, <1>3

LEMMA TakeQueuedTyped ==
    ASSUME TypeInv, NEW t \in Turns, TakeQueued(t)
    PROVE  TypeInv'
<1> DEFINE new == [turn[t] EXCEPT !.at = "typing", !.hand = pending]
<1>1. turn[t] \in Task /\ turn \in [Turns -> Task] /\ turn[t].at = "sent"
         /\ turn[t].batch \union turn[t].note \subseteq arrived
         /\ Sound(turn, arrived) /\ pending \subseteq arrived /\ pending \in SUBSET Messages
  BY DEF TypeInv, TypeOK, Sound, TakeQueued, At
<1>2. new \in Task /\ new.batch = turn[t].batch /\ new.note = turn[t].note
         /\ new.hand = pending /\ new.at = "typing"
  BY <1>1 DEF Task, Points
<1>3. Sound([turn EXCEPT ![t].at = "cleanup"], arrived)
  BY <1>1, MoveSound DEF Points
<1>4. [turn EXCEPT ![t].at = "typing", ![t].hand = pending] = [turn EXCEPT ![t] = new]
  BY <1>1 DEF Task
<1> HIDE DEF new
<1>5. new.batch \union new.note \union new.hand \subseteq arrived
  BY <1>1, <1>2
<1>6. Sound([turn EXCEPT ![t].at = "typing", ![t].hand = pending], arrived)
  BY <1>1, <1>2, <1>4, <1>5, SoundChange
<1>7. Sound(turn', arrived) /\ pending' \subseteq arrived /\ Ran(t)
         /\ UNCHANGED <<guard, owner, slot, gen, cmd, arrived, replied, dropped>>
  BY <1>1, <1>3, <1>6 DEF TakeQueued
<1> QED BY <1>7, StepTyped DEF TypeInv, TypeOK

LEMMA HandOverTyped ==
    ASSUME TypeInv, NEW t \in Turns, HandOver(t)
    PROVE  TypeInv'
<1> DEFINE tasks == Spawn(turn, turn[t].hand)
           new == [tasks[t] EXCEPT !.at = "cleanup", !.cut = FALSE, !.hand = {}]
<1>1. turn \in [Turns -> Task] /\ turn[t].at = "typing" /\ turn[t].hand \subseteq arrived
         /\ Sound(turn, arrived) /\ arrived \subseteq Messages /\ Unused # {}
  BY DEF TypeInv, TypeOK, Sound, HandOver
<1>2. Newest \in Turns /\ turn[Newest].at = "unused" /\ turn[Newest].hand = {}
  BY <1>1, NewestUnused DEF Sound
<1>3. Sound(tasks, arrived)
  BY <1>1, <1>2, SpawnSound
<1>4. turn' = [tasks EXCEPT ![t].at = "cleanup", ![t].cut = FALSE, ![t].hand = {}]
  BY DEF HandOver
<1> HIDE DEF tasks
<1>5. tasks \in [Turns -> Task] /\ tasks[t] \in Task
         /\ tasks[t].batch \union tasks[t].note \subseteq arrived
  BY <1>3 DEF Sound
<1>6. new \in Task /\ new.batch = tasks[t].batch /\ new.note = tasks[t].note /\ new.hand = {}
  BY <1>5 DEF Task, Points
<1>7. turn' = [tasks EXCEPT ![t] = new]
  BY <1>4, <1>5 DEF Task
<1> HIDE DEF new
<1>8. Sound(turn', arrived)
  BY <1>3, <1>5, <1>6, <1>7, SoundChange
<1> QED BY <1>2, <1>8, StepTyped DEF HandOver, TypeInv, TypeOK

LEMMA CleanupTyped ==
    ASSUME TypeInv, NEW t \in Turns, Cleanup(t)
    PROVE  TypeInv'
<1> DEFINE ended == [turn EXCEPT ![t].at = "over"]
<1>1. turn \in [Turns -> Task] /\ turn[t].at = "cleanup" /\ pending \subseteq arrived
         /\ arrived \subseteq Messages /\ Sound(turn, arrived)
  BY DEF TypeInv, TypeOK, Sound, Cleanup, At
<1>2. Sound(ended, arrived)
  BY <1>1, MoveSound DEF Points
<1>3. ASSUME Unused # {} PROVE ended[Newest].hand = {}
  BY <1>1, <1>3, NewestUnused DEF Sound, Task
<1>4. /\ turn' = ended \/ (Unused # {} /\ turn' = Spawn(ended, pending))
      /\ owner' = owner \/ owner' = Nobody \/ (Unused # {} /\ owner' = Newest)
      /\ pending' = pending \/ pending' = {}
      /\ guard' = guard \/ guard' = Nobody
      /\ Ran(t) /\ UNCHANGED <<slot, gen, cmd, arrived, replied, dropped>>
  <2>1. Ran(t) /\ UNCHANGED <<slot, gen, cmd, arrived, replied, dropped>>
    BY DEF Cleanup
  <2>2. CASE pending = {}
    BY <2>1, <2>2 DEF Cleanup
  <2>3. CASE pending # {}
    BY <2>1, <2>3 DEF Cleanup
  <2> QED BY <2>2, <2>3
<1> HIDE DEF ended
<1>5. Sound(turn', arrived)
  BY <1>1, <1>2, <1>3, <1>4, SpawnSound
<1>6. owner' \in Turns \union {Nobody} /\ guard' \in Turns \union Commands \union {Nobody}
  BY <1>4, NewestUnused DEF TypeInv, TypeOK
<1> QED BY <1>1, <1>4, <1>5, <1>6, StepTyped DEF TypeInv, TypeOK

LEMMA CancelledTyped ==
    ASSUME TypeInv, NEW t \in Turns, CutDead(t) \/ CutHandler(t) \/ CutRun(t) \/ CutIgnored(t)
    PROVE  TypeInv'
<1>1. Ran(t) /\ slot' \in Turns \union {Nobody, Sentinel} /\ gen' \in Nat /\ turn[t].at # "typing"
         /\ UNCHANGED <<guard, owner, pending, cmd, arrived, replied, dropped>>
  BY DEF CutDead, CutHandler, CutRun, CutIgnored, Cut, Released, Unclaimed, TypeInv, TypeOK
<1>2. CASE CutDead(t) \/ CutHandler(t) \/ CutRun(t)
  <2>1. \E point \in Points : CutTo(t, point)
    BY <1>2 DEF CutDead, CutHandler, CutRun, Points
  <2>2. Sound(turn', arrived)
    BY <1>1, <2>1, CutSound
  <2> QED BY <1>1, <2>2, TaskStepTyped
<1>3. CASE CutIgnored(t)
  <2>1. turn[t] \in Task /\ turn[t].at \in Points /\ turn \in [Turns -> Task]
    BY DEF TypeInv, Sound, Task
  <2>2. turn' = [turn EXCEPT ![t].cut = FALSE]
    BY <1>3 DEF CutIgnored
  <2>3. CutTo(t, turn[t].at)
    BY <2>1, <2>2 DEF CutTo, Task
  <2>4. Sound(turn', arrived)
    BY <1>1, <2>1, <2>3, CutSound
  <2> QED BY <1>1, <2>4, TaskStepTyped
<1> QED BY <1>2, <1>3

LEMMA IssueTyped ==
    ASSUME TypeInv, NEW c \in Commands, NEW kind \in {"stop", "new"}, Issue(c, kind)
    PROVE  TypeInv'
<1>1. Sound(turn', arrived)
  BY InterruptSound DEF Issue, TypeInv, TypeOK
<1>2. cmd' \in [Commands -> Dispatch]
  BY DEF Issue, TypeInv, TypeOK, Dispatch
<1>3. gen' \in Nat
  BY DEF Issue, TypeInv, TypeOK
<1> QED BY <1>1, <1>2, <1>3, StepTyped DEF Issue, TypeInv, TypeOK

LEMMA ClearTyped ==
    ASSUME TypeInv, NEW c \in Commands, Clear(c)
    PROVE  TypeInv'
<1>1. cmd' \in [Commands -> Dispatch]
  BY DEF Clear, TypeInv, TypeOK, Dispatch
<1>2. gen' \in Nat
  BY DEF Clear, TypeInv, TypeOK
<1> QED BY <1>1, <1>2, StepTyped DEF Clear, TypeInv, TypeOK

LEMMA DrainTyped ==
    ASSUME TypeInv, NEW c \in Commands, NEW own \in Turns \union {Nobody}, Drain(c, turn, own)
    PROVE  /\ Sound(turn', arrived) /\ pending' \subseteq arrived
           /\ owner' \in Turns \union {Nobody}
           /\ guard' \in Turns \union Commands \union {Nobody}
<1>1. turn \in [Turns -> Task] /\ pending \subseteq arrived /\ arrived \subseteq Messages
         /\ Sound(turn, arrived) /\ guard \in Turns \union Commands \union {Nobody}
  BY DEF TypeInv, TypeOK, Sound
<1>2. CASE pending = {}
  BY <1>1, <1>2 DEF Drain
<1>3. CASE pending # {}
  <2>1. Unused # {} /\ turn' = Spawn(turn, pending) /\ pending' = {}
           /\ owner' = Newest /\ guard' = Newest
    BY <1>3 DEF Drain
  <2>2. Newest \in Turns /\ turn[Newest].hand = {}
    BY <1>1, <2>1, NewestUnused DEF Sound
  <2>3. Sound(Spawn(turn, pending), arrived)
    BY <1>1, <2>1, <2>2, SpawnSound
  <2> QED BY <2>1, <2>2, <2>3
<1> QED BY <1>2, <1>3

LEMMA CancelTyped ==
    ASSUME TypeInv, NEW c \in Commands, Cancel(c)
    PROVE  TypeInv'
<1>1. Ran(c) /\ UNCHANGED <<slot, gen, arrived, replied, dropped>>
  BY DEF Cancel
<1>2. CASE owner # Nobody /\ ~ Over(owner)
  <2> DEFINE new == [turn[owner] EXCEPT !.cut = TRUE]
  <2>1. owner \in Turns /\ turn \in [Turns -> Task] /\ turn[owner] \in Task
           /\ Sound(turn, arrived)
           /\ turn[owner].batch \union turn[owner].note \union turn[owner].hand \subseteq arrived
           /\ (turn[owner].hand # {} => turn[owner].at = "typing")
    BY <1>2 DEF TypeInv, TypeOK, Sound
  <2>2. new \in Task /\ new.batch = turn[owner].batch /\ new.note = turn[owner].note
           /\ new.hand = turn[owner].hand /\ new.at = turn[owner].at
    BY <2>1 DEF Task
  <2>3. turn' = [turn EXCEPT ![owner] = new]
    BY <1>2, <2>1 DEF Cancel
  <2> HIDE DEF new
  <2>4. Sound(turn', arrived)
    BY <2>1, <2>2, <2>3, SoundChange
  <2>5. cmd' \in [Commands -> Dispatch]
    BY <1>2, <2>1 DEF Cancel, TypeInv, TypeOK, Dispatch
  <2> QED BY <1>1, <1>2, <2>4, <2>5, StepTyped DEF Cancel, TypeInv, TypeOK
<1>3. CASE ~ (owner # Nobody /\ ~ Over(owner))
  <2>1. Drain(c, turn, Nobody) /\ cmd' = [cmd EXCEPT ![c].at = "done"]
    BY <1>3 DEF Cancel
  <2>2. cmd' \in [Commands -> Dispatch]
    BY <2>1 DEF TypeInv, TypeOK, Dispatch
  <2> QED BY <1>1, <2>1, <2>2, DrainTyped, StepTyped DEF TypeInv, TypeOK
<1> QED BY <1>2, <1>3

LEMMA JoinTyped ==
    ASSUME TypeInv, NEW c \in Commands, Join(c)
    PROVE  TypeInv'
<1>1. Drain(c, turn, owner) /\ cmd' = [cmd EXCEPT ![c].at = "done"] /\ Ran(c)
         /\ UNCHANGED <<slot, gen, arrived, replied, dropped>>
  BY DEF Join
<1>2. cmd' \in [Commands -> Dispatch] /\ owner \in Turns \union {Nobody}
  BY <1>1 DEF TypeInv, TypeOK, Dispatch
<1> QED BY <1>1, <1>2, DrainTyped, StepTyped DEF TypeInv, TypeOK

LEMMA InitTyped == Init => TypeInv
<1> SUFFICES ASSUME Init PROVE TypeInv
  OBVIOUS
<1>1. NoTask \in Task
  BY DEF NoTask, Task, Points
<1>2. turn \in [Turns -> Task] /\ \A t \in Turns : turn[t] = NoTask
  BY <1>1 DEF Init
<1>3. Sound(turn, arrived)
  BY <1>2 DEF Sound, NoTask
<1>4. cmd \in [Commands -> Dispatch]
  BY DEF Init, NoDispatch, Dispatch
<1>5. \A t \in Turns : turn[t].hand = {}
  BY <1>2 DEF NoTask
<1>6. /\ guard = Nobody /\ owner = Nobody /\ slot = Nobody /\ pending = {} /\ gen = 0
      /\ arrived = {} /\ replied = {} /\ dropped = {} /\ ahead = {} /\ crossed = {} /\ wedged = {}
  BY DEF Init
<1>7. TypeOK
  BY <1>2, <1>4, <1>5, <1>6 DEF TypeOK
<1> QED BY <1>3, <1>6, <1>7 DEF TypeInv

LEMMA TypeStep == TypeInv /\ [Next]_vars => TypeInv'
<1> SUFFICES ASSUME TypeInv, [Next]_vars PROVE TypeInv'
  OBVIOUS
<1>1. ASSUME NEW m \in Messages, Arrive(m) PROVE TypeInv'
  BY <1>1, ArriveTyped
<1>2. ASSUME NEW t \in Turns, TurnStep(t) PROVE TypeInv'
  BY <1>2, BeginTyped, ClaimTyped, YieldTyped, MoveTyped, AnswerTyped, ReturnTyped,
     TakeQueuedTyped, HandOverTyped, CleanupTyped, CancelledTyped DEF TurnStep
<1>3. ASSUME NEW c \in Commands, NEW kind \in {"stop", "new"}, Issue(c, kind) PROVE TypeInv'
  BY <1>3, IssueTyped
<1>4. ASSUME NEW c \in Commands, CommandStep(c) PROVE TypeInv'
  BY <1>4, ClearTyped, CancelTyped, JoinTyped DEF CommandStep
<1>5. CASE UNCHANGED vars
  BY <1>5 DEF vars, TypeInv, TypeOK, Sound
<1> QED BY <1>1, <1>2, <1>3, <1>4, <1>5 DEF Next

\* Whatever messages and commands a session gets, in whatever order the loop runs
\* them, its tables are well formed, and nothing is answered or given up that did
\* not arrive (gateway/platforms/base.py, gateway/run.py).
THEOREM TypeCorrect == Spec => []TypeOK
<1>1. TypeInv => TypeOK
  BY DEF TypeInv
<1> QED BY <1>1, InitTyped, TypeStep, PTL DEF Spec

-----------------------------------------------------------------------------
(* The slot                                                                *)

\* The turn that the slot was claimed for has not come to the finally that
\* releases it, and its generation is the current one.
Claimed(t) ==
    /\ turn[t].at \in {"setup", "run", "again", "closing"} /\ Current(t)
    /\ slot = Sentinel \/ (slot = t /\ turn[t].at # "setup")

\* A slot that is not free has a turn or a command that is going to release it.
Accounted ==
    slot # Nobody => \/ \E c \in Commands : cmd[c].at = "stopping"
                     \/ \E t \in Turns : Claimed(t)

\* The turn or the command keeps its part of the slot through the step.
LEMMA StillAccounted ==
    ASSUME TypeInv, Accounted, slot' \in {slot, Nobody},
           \A c \in Commands : cmd[c].at = "stopping" => cmd'[c].at = "stopping",
           \A t \in Turns : Claimed(t) /\ slot' = slot => Claimed(t)'
    PROVE  Accounted'
BY DEF Accounted

\* No other task's step touches a turn that holds the slot.
LEMMA OthersKeep ==
    ASSUME TypeInv, NEW t \in Turns, turn'[t].at = turn[t].at, turn'[t].gen = turn[t].gen,
           gen' = gen, slot' = slot, Claimed(t)
    PROVE  Claimed(t)'
BY DEF Claimed, Current

\* Creating a task and interrupting an agent leave every turn where it is.
LEMMA SpawnElsewhere ==
    ASSUME TypeInv, Unused # {}, NEW tasks, tasks \in [Turns -> Task], NEW batch,
           NEW t \in Turns, turn[t].at # "unused"
    PROVE  Spawn(tasks, batch)[t] = tasks[t]
<1>1. Newest \in Turns /\ Newest # t
  BY NewestUnused
<1> QED BY <1>1 DEF Spawn

LEMMA InterruptElsewhere ==
    ASSUME NEW tasks, tasks \in [Turns -> Task], NEW text, NEW t \in Turns
    PROVE  Interrupt(tasks, text)[t].at = tasks[t].at /\ Interrupt(tasks, text)[t].gen = tasks[t].gen
BY DEF Interrupt, Task

LEMMA ArriveAccounted ==
    ASSUME TypeInv, Accounted, NEW m \in Messages, Arrive(m)
    PROVE  Accounted'
<1>1. gen' = gen /\ slot' = slot /\ cmd' = cmd
  BY DEF Arrive, Start, Queue
<1>2. ASSUME NEW t \in Turns, Claimed(t)
      PROVE  turn'[t].at = turn[t].at /\ turn'[t].gen = turn[t].gen
  <2>1. turn[t].at # "unused" /\ turn \in [Turns -> Task]
    BY <1>2 DEF Claimed, TypeInv, TypeOK
  <2>2. CASE Start(m)
    BY <2>1, <2>2, SpawnElsewhere DEF Start
  <2>3. CASE Queue(m)
    BY <2>1, <2>3, InterruptElsewhere DEF Queue
  <2> QED BY <2>2, <2>3 DEF Arrive
<1> QED BY <1>1, <1>2, OthersKeep, StillAccounted

LEMMA ClaimAccounted ==
    ASSUME TypeInv, NEW t \in Turns, Claim(t)
    PROVE  Accounted'
<1>1. turn'[t].at = "setup" /\ turn'[t].gen = gen' /\ slot' = Sentinel
  BY DEF Claim, TypeInv, TypeOK, Task
<1>2. Claimed(t)'
  BY <1>1 DEF Claimed, Current
<1> QED BY <1>2 DEF Accounted

LEMMA TrackAccounted ==
    ASSUME TypeInv, NEW t \in Turns, Track(t)
    PROVE  Accounted'
<1>1. Claimed(t)'
  BY DEF Track, Claimed, Current
<1> QED BY <1>1 DEF Accounted

\* The steps between the claim and the release
LEMMA WorkAccounted ==
    ASSUME TypeInv, Accounted, NEW t \in Turns,
           Run(t) \/ FollowUp(t) \/ Finish(t) \/ Fail(t) \/ CutIgnored(t)
    PROVE  Accounted'
<1>1. gen' = gen /\ slot' = slot /\ cmd' = cmd
  BY DEF Run, FollowUp, Finish, Fail, CutIgnored
<1>2. turn \in [Turns -> Task]
  BY DEF TypeInv, TypeOK
<1>3. \A u \in Turns : u # t => turn'[u] = turn[u]
  BY <1>2 DEF Run, FollowUp, Finish, Fail, CutIgnored
<1>4. ASSUME Claimed(t) PROVE Claimed(t)'
  <2>1. turn[t] \in Task
    BY <1>2
  <2>2. CASE Run(t)
    <3>1. turn'[t].at = "run" /\ turn'[t].gen = turn[t].gen
      BY <1>2, <2>1, <2>2 DEF Run, Task
    <3> QED BY <1>1, <1>4, <3>1 DEF Claimed, Current
  <2>3. CASE Finish(t) \/ Fail(t)
    <3>1. turn'[t] = Rested(t, "closing")
      BY <1>2, <2>3 DEF Finish, Fail
    <3>2. turn'[t].at = "closing" /\ turn'[t].gen = turn[t].gen
      BY <2>1, <3>1 DEF Rested, Task
    <3> QED BY <1>1, <1>4, <3>2 DEF Claimed, Current
  <2>4. CASE FollowUp(t)
    <3>1. PICK next : turn' = [turn EXCEPT ![t] = [Rested(t, "again") EXCEPT !.batch = next]]
      BY <2>4 DEF FollowUp
    <3>2. turn'[t] = [Rested(t, "again") EXCEPT !.batch = next]
      BY <1>2, <3>1
    <3>3. turn'[t].at = "again" /\ turn'[t].gen = turn[t].gen
      BY <2>1, <3>2 DEF Rested, Task
    <3> QED BY <1>1, <1>4, <3>3 DEF Claimed, Current
  <2>5. CASE CutIgnored(t)
    <3>1. turn'[t].at = turn[t].at /\ turn'[t].gen = turn[t].gen
      BY <1>2, <2>1, <2>5 DEF CutIgnored, Task
    <3> QED BY <1>1, <1>4, <3>1, OthersKeep
  <2> QED BY <2>2, <2>3, <2>4, <2>5
<1>5. \A u \in Turns : Claimed(u) => Claimed(u)'
  BY <1>1, <1>3, <1>4, OthersKeep
<1> QED BY <1>1, <1>5, StillAccounted

\* The steps of a task that holds no claim, or that releases the slot
LEMMA LeaveAccounted ==
    ASSUME TypeInv, Accounted, NEW t \in Turns,
           \/ Begin(t) \/ Merge(t) \/ Push(t) \/ Close(t) \/ Unwind(t) \/ Answer(t)
           \/ TakeQueued(t) \/ HandOver(t) \/ Cleanup(t)
           \/ CutDead(t) \/ CutHandler(t) \/ CutRun(t) \/ Abort(t)
    PROVE  Accounted'
<1>1. gen' = gen /\ slot' \in {slot, Nobody} /\ cmd' = cmd
  BY DEF Begin, Merge, Push, Close, Unwind, Answer, TakeQueued, HandOver, Cleanup,
         CutDead, CutHandler, CutRun, Abort, Released, Unclaimed
<1>2. turn \in [Turns -> Task]
  BY DEF TypeInv, TypeOK
<1>3. ASSUME Claimed(t) PROVE slot' = Nobody
  <2>1. turn[t].at \in {"setup", "run", "again", "closing"} /\ Current(t)
           /\ (turn[t].at = "setup" => slot = Sentinel)
    BY <1>3 DEF Claimed
  <2>2. CASE CutHandler(t)
    BY <2>1, <2>2 DEF CutHandler, Cut, Unclaimed
  <2>3. CASE Close(t) \/ CutRun(t)
    BY <2>1, <2>3 DEF Close, CutRun, Released
  <2>4. CASE ~ (CutHandler(t) \/ Close(t) \/ CutRun(t))
    BY <2>1, <2>4 DEF Begin, Merge, Push, Unwind, Answer, TakeQueued, HandOver, Cleanup,
                      CutDead, Abort, At, Cut
  <2> QED BY <2>2, <2>3, <2>4
<1>4. ASSUME NEW u \in Turns, u # t, turn[u].at # "unused"
      PROVE  turn'[u].at = turn[u].at /\ turn'[u].gen = turn[u].gen
  <2>1. CASE HandOver(t)
    <3> DEFINE tasks == Spawn(turn, turn[t].hand)
    <3>1. tasks[u] = turn[u] /\ DOMAIN tasks = Turns
      BY <1>2, <1>4, <2>1, SpawnElsewhere DEF HandOver, Spawn
    <3>2. turn' = [tasks EXCEPT ![t].at = "cleanup", ![t].cut = FALSE, ![t].hand = {}]
      BY <2>1 DEF HandOver
    <3> HIDE DEF tasks
    <3> QED BY <1>4, <3>1, <3>2
  <2>2. CASE Cleanup(t)
    <3> DEFINE ended == [turn EXCEPT ![t].at = "over"]
    <3>1. ended \in [Turns -> Task] /\ ended[u] = turn[u]
      BY <1>2, <1>4 DEF Task, Points
    <3>2. turn' = ended \/ (Unused # {} /\ turn' = Spawn(ended, pending))
      <4>1. CASE pending = {}
        BY <2>2, <4>1 DEF Cleanup
      <4>2. CASE pending # {}
        BY <2>2, <4>2 DEF Cleanup
      <4> QED BY <4>1, <4>2
    <3> HIDE DEF ended
    <3> QED BY <1>4, <3>1, <3>2, SpawnElsewhere
  <2>3. CASE Push(t)
    BY <1>2, <1>4, <2>3, InterruptElsewhere DEF Push
  <2>4. CASE ~ (HandOver(t) \/ Cleanup(t) \/ Push(t))
    BY <1>2, <1>4, <2>4 DEF Begin, Merge, Close, Unwind, Answer, TakeQueued,
         CutDead, CutHandler, CutRun, Abort, CutTo
  <2> QED BY <2>1, <2>2, <2>3, <2>4
<1>5. ASSUME NEW u \in Turns, Claimed(u), slot' = slot PROVE Claimed(u)'
  <2>1. slot # Nobody
    BY <1>5, SessionAssumption DEF Claimed, Turns
  <2>2. u # t /\ turn[u].at # "unused"
    BY <1>3, <1>5, <2>1 DEF Claimed
  <2> QED BY <1>1, <1>4, <1>5, <2>2, OthersKeep
<1> QED BY <1>1, <1>5, StillAccounted

\* A command that ends the generation of a claim goes on to release the slot.
LEMMA IssueAccounted ==
    ASSUME TypeInv, NEW c \in Commands, NEW kind \in {"stop", "new"}, Issue(c, kind)
    PROVE  Accounted'
<1>1. slot' = slot /\ (slot # Nobody => cmd'[c].at = "stopping")
  BY DEF Issue, TypeInv, TypeOK
<1> QED BY <1>1 DEF Accounted

LEMMA ClearAccounted ==
    ASSUME NEW c \in Commands, Clear(c)
    PROVE  Accounted'
BY DEF Clear, Accounted

LEMMA CommandAccounted ==
    ASSUME TypeInv, Accounted, NEW c \in Commands, Cancel(c) \/ Join(c)
    PROVE  Accounted'
<1>1. gen' = gen /\ slot' = slot
  BY DEF Cancel, Join
<1>2. \A k \in Commands : cmd[k].at = "stopping" => cmd'[k].at = "stopping"
  BY DEF Cancel, Join, TypeInv, TypeOK
<1>3. turn \in [Turns -> Task]
  BY DEF TypeInv, TypeOK
<1>4. ASSUME NEW t \in Turns, turn[t].at # "unused"
      PROVE  turn'[t].at = turn[t].at /\ turn'[t].gen = turn[t].gen
  <2>1. CASE turn' = turn
    BY <2>1
  <2>2. CASE Unused # {} /\ turn' = Spawn(turn, pending)
    BY <1>3, <1>4, <2>2, SpawnElsewhere
  <2>3. CASE turn' = [turn EXCEPT ![owner].cut = TRUE]
    BY <1>3, <2>3 DEF Task
  <2> QED BY <2>1, <2>2, <2>3 DEF Cancel, Join, Drain
<1>5. \A t \in Turns : Claimed(t) => Claimed(t)'
  BY <1>1, <1>4, OthersKeep DEF Claimed
<1> QED BY <1>1, <1>2, <1>5, StillAccounted

LEMMA SlotStep == TypeInv /\ Accounted /\ [Next]_vars => Accounted'
<1> SUFFICES ASSUME TypeInv, Accounted, [Next]_vars PROVE Accounted'
  OBVIOUS
<1>1. ASSUME NEW m \in Messages, Arrive(m) PROVE Accounted'
  BY <1>1, ArriveAccounted
<1>2. ASSUME NEW t \in Turns, TurnStep(t) PROVE Accounted'
  BY <1>2, ClaimAccounted, TrackAccounted, WorkAccounted, LeaveAccounted DEF TurnStep
<1>3. ASSUME NEW c \in Commands, NEW kind \in {"stop", "new"}, Issue(c, kind) PROVE Accounted'
  BY <1>3, IssueAccounted
<1>4. ASSUME NEW c \in Commands, CommandStep(c) PROVE Accounted'
  BY <1>4, ClearAccounted, CommandAccounted DEF CommandStep
<1>5. CASE UNCHANGED vars
  BY <1>5 DEF vars, Accounted, Claimed, Current
<1> QED BY <1>1, <1>2, <1>3, <1>4, <1>5 DEF Next

\* However the turns of a session were cut, superseded or raised, and however many
\* commands overlapped them, the session at rest has an empty slot: the finally of
\* _handle_message ("the session would be permanently locked out") is enough.
THEOREM SlotIsFreed == Spec => []SlotFree
<1>1. Init => Accounted
  BY DEF Init, Accounted
<1>2. Accounted => SlotFree
  BY DEF Accounted, Claimed, SlotFree, Quiet
<1> QED BY <1>1, <1>2, InitTyped, TypeStep, SlotStep, PTL DEF Spec

-----------------------------------------------------------------------------
(* One task at work, a session that takes the next message, and an answer to   *)
(* every message, as long as no message crosses a command and no command goes  *)
(* on without the task that it cut.                                           *)

\* A command has begun and has not come to its end; it waits for the task it cut.
Dispatched(c) == cmd[c].at \notin {"unused", "done"}
Joining(c) == cmd[c].at = "join"

\* Who is at work: the recorded owner, or the one task that a command waits for.
\* Only such a task is cut, and it does not begin any more.
Ownership ==
    /\ owner # Nobody => turn[owner].at \notin {"unused", "over"}
    /\ \A t \in Working : t = owner \/ \E c \in Commands : Joining(c) /\ cmd[c].victim = t
    /\ \A c \in Commands : Joining(c) =>
         /\ owner = Nobody /\ cmd[c].victim \in Turns
         /\ turn[cmd[c].victim].at # "unused"
         /\ turn[cmd[c].victim].at = "spawned" => turn[cmd[c].victim].cut
    /\ \A c, d \in Commands : Joining(c) /\ Joining(d) => c = d
    /\ \A t \in Turns : turn[t].cut =>
         turn[t].at # "over" /\ \E c \in Commands : Joining(c) /\ cmd[c].victim = t

\* Whose the guard is: a command's while one is dispatched, else the owner's,
\* who can tell it for its own.
Guarding ==
    /\ guard = Nobody => owner = Nobody
    /\ guard \in Commands => Dispatched(guard)
    /\ Dispatching => guard \in Commands \union {Nobody}
    /\ ~ Dispatching =>
         /\ guard # Nobody => owner # Nobody
         /\ owner # Nobody /\ turn[owner].at # "spawned" => guard = turn[owner].bound

\* The tasks that will answer what they hold, or leave it to the queue
Carrying(t) ==
    turn[t].at \in {"spawned", "hook", "setup", "run", "again", "closing", "unwind", "answer"}
Held(m) ==
    \/ m \in pending
    \/ \E t \in Turns : m \in turn[t].hand \/ (Carrying(t) /\ m \in turn[t].batch)

\* Where the messages are: a command gives up what has not been answered; without
\* one, the owner's run is the current one and the queue has an owner to empty it.
Accounting ==
    /\ \A t \in Turns : turn[t].at = "typing" => turn[t].hand # {}
    /\ Dispatching => arrived \subseteq replied \union dropped
    /\ ~ Dispatching =>
         /\ pending # {} => owner # Nobody
         /\ owner # Nobody /\ turn[owner].at \in
              {"setup", "run", "again", "closing", "unwind", "answer"} => Current(owner)
         /\ \A m \in arrived : m \in replied \union dropped \/ Held(m)

Order == Ownership /\ Guarding /\ Accounting

Orderly == crossed = {} /\ wedged = {} => Order

\* What a step that leaves crossed empty may rely on: a message that comes, or
\* is queued or in hand, while a command is dispatched has crossed it; and
\* one that leaves wedged empty ends no wait early.
Calm ==
    /\ Dispatching => /\ pending = {} /\ arrived' \subseteq arrived
                      /\ \A t \in Turns : turn[t].hand = {}
    /\ GivingUp = {}

LEMMA Undisturbed ==
    ASSUME TypeInv, Orderly, NEW a, Ran(a), crossed' = {}, wedged' = {}
    PROVE  Order /\ Calm
<1>3. wedged = {} /\ GivingUp = {}
  BY DEF Ran
<1>1. crossed = {} /\ (Dispatching => Queued = {} /\ arrived' \subseteq arrived)
  BY DEF Ran
<1>2. Queued = {} => pending = {} /\ \A t \in Turns : turn[t].hand = {}
  BY DEF Queued
<1> QED BY <1>1, <1>2, <1>3 DEF Orderly, Calm

\* A task that has begun and goes on with its turn keeps the session's order.
LEMMA GoesOn ==
    ASSUME TypeInv, Order, UNCHANGED <<guard, owner, cmd>>, NEW t \in Turns,
           turn[t].at \notin {"unused", "spawned", "cleanup", "over"},
           turn'[t].at \notin {"unused", "spawned", "over"},
           turn'[t].cut = turn[t].cut, turn'[t].bound = turn[t].bound,
           \A u \in Turns : u # t => /\ turn'[u].at = turn[u].at /\ turn'[u].cut = turn[u].cut
                                     /\ turn'[u].bound = turn[u].bound
    PROVE  Ownership' /\ Guarding'
<1>1. Ownership /\ Guarding /\ owner \in Turns \union {Nobody}
  BY DEF Order, TypeInv, TypeOK
<1>2. \A u \in Turns : /\ turn'[u].cut = turn[u].cut /\ turn'[u].bound = turn[u].bound
                       /\ turn'[u].at \in {"unused", "spawned", "over"} => turn'[u].at = turn[u].at
                       /\ turn'[u].at \notin {"unused", "spawned", "over"}
                             => turn[u].at \notin {"unused", "spawned", "over"}
  OBVIOUS
<1>3. \A u \in Turns : u \in Working' => u \in Working
  BY DEF Working
<1>4. \A c \in Commands : Joining(c)' <=> Joining(c)
  BY DEF Joining
<1>5. Ownership'
  <2>1. (owner # Nobody => turn[owner].at \notin {"unused", "over"})'
    BY <1>1, <1>2 DEF Ownership
  <2>2. (\A u \in Working : u = owner \/ \E c \in Commands : Joining(c) /\ cmd[c].victim = u)'
    BY <1>1, <1>3, <1>4 DEF Ownership, Working
  <2>3. (\A c \in Commands : Joining(c) =>
           /\ owner = Nobody /\ cmd[c].victim \in Turns
           /\ turn[cmd[c].victim].at # "unused"
           /\ turn[cmd[c].victim].at = "spawned" => turn[cmd[c].victim].cut)'
    BY <1>1, <1>2, <1>4 DEF Ownership
  <2>4. (\A c, d \in Commands : Joining(c) /\ Joining(d) => c = d)'
    BY <1>1, <1>4 DEF Ownership
  <2>5. (\A u \in Turns : turn[u].cut =>
           turn[u].at # "over" /\ \E c \in Commands : Joining(c) /\ cmd[c].victim = u)'
    BY <1>1, <1>2, <1>4 DEF Ownership
  <2> QED BY <2>1, <2>2, <2>3, <2>4, <2>5 DEF Ownership
<1>6. Guarding'
  BY <1>1, <1>2 DEF Guarding, Dispatching, Dispatched
<1> QED BY <1>5, <1>6

\* Without a command, the one task at work is the recorded owner.
LEMMA Alone ==
    ASSUME TypeInv, Order, ~ Dispatching, NEW t \in Turns,
           turn[t].at \notin {"unused", "cleanup", "over"}
    PROVE  t = owner /\ t # Nobody /\ ~ turn[t].cut
<1>1. \A c \in Commands : ~ Joining(c)
  BY DEF Dispatching, Joining
<1>2. turn[t].cut \in BOOLEAN
  BY DEF TypeInv, TypeOK, Task
<1>3. ~ turn[t].cut
  BY <1>1, <1>2 DEF Order, Ownership
<1>4. t \in Working
  BY <1>3 DEF Working
<1>5. t # Nobody
  BY DEF Turns
<1> QED BY <1>1, <1>3, <1>4, <1>5 DEF Order, Ownership

\* What Accounting asks of a step that neither starts nor ends a command
LEMMA StaysAccounted ==
    ASSUME TypeInv, Order, UNCHANGED <<cmd, arrived>>,
           replied \subseteq replied', dropped \subseteq dropped',
           \A t \in Turns : turn'[t].at = "typing" => turn'[t].hand # {},
           ~ Dispatching =>
             /\ pending' # {} => owner' # Nobody
             /\ owner' # Nobody /\ turn'[owner'].at \in
                  {"setup", "run", "again", "closing", "unwind", "answer"} => turn'[owner'].gen = gen'
             /\ \A m \in Messages : Held(m) => m \in replied' \union dropped' \/ Held(m)'
    PROVE  Accounting'
<1>1. Accounting /\ arrived \subseteq Messages /\ (Dispatching' <=> Dispatching)
  BY DEF Order, TypeInv, TypeOK, Dispatching
<1>2. (Dispatching => arrived \subseteq replied \union dropped)'
  BY <1>1 DEF Accounting
<1>3. ~ Dispatching => \A m \in arrived : m \in replied' \union dropped' \/ Held(m)'
  BY <1>1 DEF Accounting
<1> QED BY <1>1, <1>2, <1>3 DEF Accounting, Current

\* A step that leaves every message where it is
LEMMA SameHolds ==
    ASSUME TypeInv, pending' = pending, NEW t \in Turns,
           Carrying(t) => turn'[t].at \in
             {"spawned", "hook", "setup", "run", "again", "closing", "unwind", "answer"},
           turn'[t].batch = turn[t].batch, turn'[t].hand = turn[t].hand,
           \A u \in Turns : u # t => /\ turn'[u].at = turn[u].at /\ turn'[u].batch = turn[u].batch
                                     /\ turn'[u].hand = turn[u].hand
    PROVE  \A m \in Messages : Held(m) => Held(m)'
BY DEF Held, Carrying

\* From the claim to the answer: the same message stays with the task.
LEMMA WorkOrderly ==
    ASSUME TypeInv, Order, NEW t \in Turns,
           \/ Claim(t) \/ Run(t) \/ Track(t) \/ Finish(t) \/ Fail(t)
           \/ Close(t) \/ Unwind(t) \/ Answer(t) \/ Abort(t)
    PROVE  Order'
<1>1. /\ turn \in [Turns -> Task] /\ turn[t] \in Task /\ gen \in Nat
      /\ owner \in Turns \union {Nobody} /\ arrived \subseteq Messages
  BY DEF TypeInv, TypeOK
<1>2. UNCHANGED <<guard, owner, pending, cmd, arrived, dropped>> /\ replied \subseteq replied'
  BY DEF Claim, Run, Track, Finish, Fail, Close, Unwind, Answer, Abort
<1>3. turn[t].at \in {"hook", "setup", "run", "again", "closing", "unwind", "answer", "abort"}
  BY DEF Claim, Run, Track, Finish, Fail, Close, Unwind, Answer, Abort, At
<1>4. \A u \in Turns : u # t => turn'[u] = turn[u]
  BY <1>1 DEF Claim, Run, Track, Finish, Fail, Close, Unwind, Answer, Abort
<1>5. /\ turn'[t].cut = turn[t].cut /\ turn'[t].bound = turn[t].bound
      /\ turn'[t].batch = turn[t].batch /\ turn'[t].hand = turn[t].hand
  <2>1. CASE Finish(t) \/ Fail(t)
    <3>1. turn'[t] = Rested(t, "closing")
      BY <1>1, <2>1 DEF Finish, Fail
    <3> QED BY <1>1, <3>1 DEF Rested, Task
  <2>2. CASE Claim(t)
    BY <1>1, <2>2 DEF Claim, Task
  <2>3. CASE Track(t)
    BY <2>3 DEF Track
  <2>4. CASE Run(t) \/ Close(t) \/ Answer(t) \/ Abort(t)
    BY <1>1, <2>4 DEF Run, Close, Answer, Abort, Task
  <2>5. CASE Unwind(t)
    BY <1>1, <2>5 DEF Unwind, Task
  <2> QED BY <2>1, <2>2, <2>3, <2>4, <2>5
<1>6. turn'[t].at \in {"setup", "run", "again", "closing", "unwind", "answer", "sent", "cleanup"}
  <2>1. CASE Finish(t) \/ Fail(t)
    <3>1. turn'[t] = Rested(t, "closing")
      BY <1>1, <2>1 DEF Finish, Fail
    <3> QED BY <1>1, <3>1 DEF Rested, Task
  <2>2. CASE ~ (Finish(t) \/ Fail(t))
    BY <1>1, <2>2 DEF Claim, Run, Track, Close, Unwind, Answer, Abort, Task
  <2> QED BY <2>1, <2>2
<1>7. Ownership' /\ Guarding'
  BY <1>2, <1>3, <1>4, <1>5, <1>6, GoesOn
<1>8. \A u \in Turns : turn'[u].at = "typing" => turn'[u].hand # {}
  BY <1>4, <1>6 DEF Order, Accounting
<1>9. ASSUME ~ Dispatching PROVE t = owner
  BY <1>3, <1>9, Alone
<1>10. ASSUME ~ Dispatching, owner # Nobody, turn'[owner].at \in
                {"setup", "run", "again", "closing", "unwind", "answer"}
       PROVE  turn'[owner].gen = gen'
  <2>1. CASE Claim(t)
    BY <1>1, <1>9, <1>10, <2>1 DEF Claim, Task
  <2>2. CASE ~ Claim(t)
    <3>1. turn'[t].gen = turn[t].gen /\ gen' = gen
      <4>1. CASE Finish(t) \/ Fail(t)
        <5>1. turn'[t] = Rested(t, "closing") /\ gen' = gen
          BY <1>1, <4>1 DEF Finish, Fail
        <5> QED BY <1>1, <5>1 DEF Rested, Task
      <4>2. CASE ~ (Finish(t) \/ Fail(t))
        BY <1>1, <2>2, <4>2 DEF Run, Track, Close, Unwind, Answer, Abort, Task
      <4> QED BY <4>1, <4>2
    <3>2. turn[t].at \in {"setup", "run", "again", "closing", "unwind", "answer"}
      BY <1>1, <1>3, <1>9, <1>10, <2>2
         DEF Run, Track, Finish, Fail, Close, Unwind, Answer, Abort, At, Task
    <3> QED BY <1>9, <1>10, <3>1, <3>2 DEF Order, Accounting, Current
  <2> QED BY <2>1, <2>2
<1>11. ASSUME ~ Dispatching
       PROVE  \A m \in Messages : Held(m) => m \in replied' \union dropped' \/ Held(m)'
  <2>1. CASE Answer(t)
    <3>1. replied' = replied \union turn[t].batch
      BY <2>1 DEF Answer
    <3> QED BY <1>2, <1>4, <1>5, <3>1 DEF Held, Carrying
  <2>2. CASE Abort(t)
    <3>1. ~ Carrying(t)
      BY <2>2 DEF Abort, At, Carrying
    <3> QED BY <1>2, <1>4, <1>5, <3>1, SameHolds
  <2>3. CASE Unwind(t)
    <3>1. turn'[t].at = "answer"
      BY <1>1, <1>9, <1>11, <2>3 DEF Unwind, At, Order, Accounting, Task, Turns
    <3> QED BY <1>2, <1>4, <1>5, <3>1, SameHolds
  <2>4. CASE ~ (Answer(t) \/ Abort(t) \/ Unwind(t))
    <3>1. turn'[t].at \in {"setup", "run", "again", "closing", "unwind"}
      <4>1. CASE Finish(t) \/ Fail(t)
        <5>1. turn'[t] = Rested(t, "closing")
          BY <1>1, <4>1 DEF Finish, Fail
        <5> QED BY <1>1, <5>1 DEF Rested, Task
      <4>2. CASE ~ (Finish(t) \/ Fail(t))
        BY <1>1, <2>4, <4>2 DEF Claim, Run, Track, Close, Task
      <4> QED BY <4>1, <4>2
    <3> QED BY <1>2, <1>4, <1>5, <3>1, SameHolds
  <2> QED BY <2>1, <2>2, <2>3, <2>4
<1>12. ~ Dispatching => (pending' # {} => owner' # Nobody)
  BY <1>2 DEF Order, Accounting
<1>13. Accounting'
  BY <1>2, <1>8, <1>10, <1>11, <1>12, StaysAccounted
<1> QED BY <1>7, <1>13 DEF Order

\* The queued event becomes the task's next one.
LEMMA FollowUpOrderly ==
    ASSUME TypeInv, Order, NEW t \in Turns, FollowUp(t)
    PROVE  Order'
<1>1. /\ turn \in [Turns -> Task] /\ turn[t] \in Task /\ turn[t].at = "run"
      /\ owner \in Turns \union {Nobody}
      /\ UNCHANGED <<guard, owner, slot, gen, cmd, arrived>>
  BY DEF TypeInv, TypeOK, FollowUp, At
<1>2. PICK seen \in BOOLEAN, next \in {pending, turn[t].note, {}} :
         /\ pending # {} => next = pending
         /\ pending' = {}
         /\ turn' = [turn EXCEPT ![t] = [Rested(t, "again") EXCEPT !.batch = next]]
         /\ IF seen THEN dropped' = dropped \union turn[t].batch /\ UNCHANGED replied
                    ELSE replied' = replied \union turn[t].batch /\ UNCHANGED dropped
  BY DEF FollowUp
<1>3. turn'[t] = [Rested(t, "again") EXCEPT !.batch = next]
         /\ \A u \in Turns : u # t => turn'[u] = turn[u]
  BY <1>1, <1>2
<1>4. /\ turn'[t].at = "again" /\ turn'[t].gen = turn[t].gen /\ turn'[t].cut = turn[t].cut
      /\ turn'[t].bound = turn[t].bound /\ turn'[t].hand = turn[t].hand /\ turn'[t].batch = next
  BY <1>1, <1>3 DEF Rested, Task
<1>5. Ownership' /\ Guarding'
  BY <1>1, <1>3, <1>4, GoesOn
<1>6. \A u \in Turns : turn'[u].at = "typing" => turn'[u].hand # {}
  BY <1>3, <1>4 DEF Order, Accounting
<1>7. ASSUME ~ Dispatching PROVE t = owner
  BY <1>1, <1>7, Alone
<1>8. ASSUME ~ Dispatching PROVE turn'[owner].gen = gen'
  BY <1>1, <1>4, <1>7, <1>8 DEF Order, Accounting, Current, Turns
<1>9. replied \subseteq replied' /\ dropped \subseteq dropped'
         /\ turn[t].batch \subseteq replied' \union dropped'
  BY <1>2
<1>10. \A m \in Messages : Held(m) => m \in replied' \union dropped' \/ Held(m)'
  BY <1>2, <1>3, <1>4, <1>9 DEF Held, Carrying
<1>11. Accounting'
  BY <1>1, <1>2, <1>6, <1>8, <1>9, <1>10, StaysAccounted
<1> QED BY <1>5, <1>11 DEF Order

\* A text that finds the session claimed goes into the queue.  Without a command
\* in between no agent is in the slot for it to interrupt.
LEMMA YieldOrderly ==
    ASSUME TypeInv, Accounted, Order, NEW t \in Turns, Merge(t) \/ Push(t)
    PROVE  Order'
<1>1. /\ turn \in [Turns -> Task] /\ turn[t] \in Task /\ turn[t].at = "hook"
      /\ owner \in Turns \union {Nobody}
      /\ UNCHANGED <<guard, owner, slot, gen, cmd, arrived, replied, dropped>>
  BY DEF TypeInv, TypeOK, Merge, Push, At
<1>2. /\ turn'[t].at = "sent" /\ turn'[t].gen = turn[t].gen /\ turn'[t].cut = turn[t].cut
      /\ turn'[t].bound = turn[t].bound /\ turn'[t].hand = turn[t].hand
      /\ \A u \in Turns : u # t => /\ turn'[u].at = turn[u].at /\ turn'[u].cut = turn[u].cut
                                   /\ turn'[u].bound = turn[u].bound /\ turn'[u].gen = turn[u].gen
                                   /\ turn'[u].hand = turn[u].hand /\ turn'[u].batch = turn[u].batch
  <2>1. CASE Merge(t)
    BY <1>1, <2>1 DEF Merge, Task
  <2>2. CASE Push(t)
    <3> DEFINE tasks == Interrupt(turn, turn[t].batch)
    <3>1. tasks \in [Turns -> Task]
      <4>1. Sound(turn, arrived) /\ arrived \subseteq Messages /\ turn[t].batch \subseteq arrived
        BY DEF TypeInv, TypeOK, Sound
      <4>2. Sound(Interrupt(turn, turn[t].batch), arrived)
        BY <4>1, InterruptSound
      <4> QED BY <4>2 DEF Sound
    <3>2. \A u \in Turns :
             /\ tasks[u].at = turn[u].at /\ tasks[u].cut = turn[u].cut
             /\ tasks[u].bound = turn[u].bound /\ tasks[u].gen = turn[u].gen
             /\ tasks[u].hand = turn[u].hand /\ tasks[u].batch = turn[u].batch
      BY <1>1 DEF Interrupt, Task
    <3>3. turn' = [tasks EXCEPT ![t].at = "sent"]
      BY <2>2 DEF Push
    <3> HIDE DEF tasks
    <3> QED BY <3>1, <3>2, <3>3 DEF Task
  <2> QED BY <2>1, <2>2
<1>3. Ownership' /\ Guarding'
  BY <1>1, <1>2, GoesOn
<1>4. \A u \in Turns : turn'[u].at = "typing" => turn'[u].hand # {}
  BY <1>2 DEF Order, Accounting
<1>5. ASSUME ~ Dispatching PROVE t = owner /\ owner # Nobody
  BY <1>1, <1>5, Alone
<1>6. ASSUME ~ Dispatching, Push(t) PROVE FALSE
  <2>1. slot \in Turns /\ slot # Sentinel /\ slot # Nobody
    BY <1>6, SessionAssumption DEF Push, Turns
  <2>2. PICK u \in Turns : Claimed(u)
    BY <1>6, <2>1 DEF Accounted, Dispatching
  <2>3. turn[u].at \in {"setup", "run", "again", "closing"}
    BY <2>2 DEF Claimed
  <2>4. u = owner
    BY <1>6, <2>3, Alone
  <2> QED BY <1>1, <1>5, <1>6, <2>3, <2>4
<1>7. ASSUME ~ Dispatching
      PROVE  \A m \in Messages : Held(m) => m \in replied' \union dropped' \/ Held(m)'
  <2>1. pending' = pending \union turn[t].batch
    BY <1>6, <1>7 DEF Merge
  <2> QED BY <1>2, <2>1 DEF Held, Carrying
<1>8. Accounting'
  BY <1>1, <1>2, <1>4, <1>5, <1>7, StaysAccounted
<1> QED BY <1>3, <1>8 DEF Order

\* The queued event is in hand while the typing task stops.
LEMMA TakeQueuedOrderly ==
    ASSUME TypeInv, Order, NEW t \in Turns, TakeQueued(t)
    PROVE  Order'
<1>1. /\ turn \in [Turns -> Task] /\ turn[t] \in Task /\ turn[t].at = "sent" /\ turn[t].hand = {}
      /\ owner \in Turns \union {Nobody}
      /\ UNCHANGED <<guard, owner, slot, gen, cmd, arrived, replied, dropped>>
  BY DEF TypeInv, TypeOK, TakeQueued, At
<1>2. /\ \A u \in Turns : u # t => turn'[u] = turn[u]
      /\ turn'[t].cut = turn[t].cut /\ turn'[t].bound = turn[t].bound
      /\ turn'[t].hand = pending /\ pending' = {}
      /\ turn'[t].at = IF pending = {} THEN "cleanup" ELSE "typing"
  <2>1. CASE pending = {}
    BY <1>1, <2>1 DEF TakeQueued, Task
  <2>2. CASE pending # {}
    BY <1>1, <2>2 DEF TakeQueued, Task
  <2> QED BY <2>1, <2>2
<1>3. Ownership' /\ Guarding'
  BY <1>1, <1>2, GoesOn
<1>4. \A u \in Turns : turn'[u].at = "typing" => turn'[u].hand # {}
  BY <1>1, <1>2 DEF Order, Accounting
<1>5. ASSUME ~ Dispatching PROVE t = owner
  BY <1>1, <1>5, Alone
<1>6. \A m \in Messages : Held(m) => Held(m)'
  BY <1>1, <1>2 DEF Held, Carrying
<1>7. Accounting'
  BY <1>1, <1>2, <1>4, <1>5, <1>6, StaysAccounted
<1> QED BY <1>3, <1>7 DEF Order

\* A task begins under the guard that is there.
LEMMA BeginOrderly ==
    ASSUME TypeInv, Order, NEW t \in Turns, Begin(t)
    PROVE  Order'
<1>1. /\ turn \in [Turns -> Task] /\ turn[t] \in Task /\ turn[t].at = "spawned" /\ ~ turn[t].cut
      /\ owner \in Turns \union {Nobody} /\ Nobody \notin Turns
      /\ UNCHANGED <<owner, pending, slot, gen, cmd, arrived, replied, dropped>>
  BY SessionAssumption DEF TypeInv, TypeOK, Begin, At, Turns
<1>2. Ownership /\ Guarding /\ Accounting
  BY DEF Order
<1>3. t \in Working
  BY <1>1 DEF Working
<1>4. t = owner
  BY <1>1, <1>2, <1>3 DEF Ownership
<1>5. guard # Nobody
  BY <1>1, <1>2, <1>4 DEF Guarding
<1>6. /\ turn'[t].at = "hook" /\ turn'[t].bound = guard /\ guard' = guard
      /\ turn'[t].cut = turn[t].cut /\ turn'[t].batch = turn[t].batch /\ turn'[t].hand = turn[t].hand
      /\ \A u \in Turns : u # t => turn'[u] = turn[u]
  BY <1>1, <1>5 DEF Begin, Task
<1>7. \A c \in Commands : Joining(c)' <=> Joining(c)
  BY <1>1 DEF Joining
<1>8. Ownership'
  BY <1>1, <1>2, <1>4, <1>6, <1>7 DEF Ownership, Working
<1>9. Guarding'
  BY <1>1, <1>2, <1>4, <1>6 DEF Guarding, Dispatching, Dispatched
<1>10. \A m \in Messages : Held(m) => Held(m)'
  BY <1>1, <1>6 DEF Held, Carrying
<1>11. \A u \in Turns : turn'[u].at = "typing" => turn'[u].hand # {}
  BY <1>2, <1>6 DEF Accounting
<1>12. ~ Dispatching => (pending' # {} => owner' # Nobody)
  BY <1>1, <1>2 DEF Accounting
<1>13. Accounting'
  BY <1>1, <1>4, <1>6, <1>10, <1>11, <1>12, StaysAccounted
<1> QED BY <1>8, <1>9, <1>13 DEF Order

\* The task that a command has cut unwinds while the command waits.
LEMMA CancelledOrderly ==
    ASSUME TypeInv, Order, NEW t \in Turns,
           CutDead(t) \/ CutHandler(t) \/ CutRun(t) \/ CutIgnored(t)
    PROVE  Order'
<1>1. /\ turn \in [Turns -> Task] /\ turn[t] \in Task /\ turn[t].cut
      /\ UNCHANGED <<guard, owner, pending, gen, cmd, arrived, replied, dropped>>
  BY DEF TypeInv, TypeOK, CutDead, CutHandler, CutRun, CutIgnored, Cut
<1>2. /\ \A u \in Turns : u # t => turn'[u] = turn[u]
      /\ ~ turn'[t].cut /\ turn'[t].at \notin {"unused", "spawned", "typing"}
  BY <1>1 DEF CutDead, CutHandler, CutRun, CutIgnored, CutTo, Cut, Task
<1>3. Ownership /\ Guarding /\ Accounting
  BY DEF Order
<1>4. PICK c \in Commands : Joining(c) /\ cmd[c].victim = t /\ owner = Nobody
  BY <1>1, <1>3 DEF Ownership
<1>5. Dispatching
  BY <1>4 DEF Dispatching, Joining
<1>6. \A d \in Commands : Joining(d)' <=> Joining(d)
  BY <1>1 DEF Joining
<1>7. Ownership'
  <2>1. (\A u \in Working : u = owner \/ \E d \in Commands : Joining(d) /\ cmd[d].victim = u)'
    BY <1>1, <1>2, <1>3, <1>4, <1>6 DEF Ownership, Working
  <2>2. (\A d \in Commands : Joining(d) =>
           /\ owner = Nobody /\ cmd[d].victim \in Turns
           /\ turn[cmd[d].victim].at # "unused"
           /\ turn[cmd[d].victim].at = "spawned" => turn[cmd[d].victim].cut)'
    BY <1>1, <1>2, <1>3, <1>6 DEF Ownership
  <2>3. (\A u \in Turns : turn[u].cut =>
           turn[u].at # "over" /\ \E d \in Commands : Joining(d) /\ cmd[d].victim = u)'
    BY <1>1, <1>2, <1>3, <1>6 DEF Ownership
  <2> QED BY <1>1, <1>3, <1>4, <1>6, <2>1, <2>2, <2>3 DEF Ownership
<1>8. Guarding'
  BY <1>1, <1>3, <1>5 DEF Guarding, Dispatching, Dispatched
<1>9. Accounting'
  BY <1>1, <1>2, <1>3, <1>5 DEF Accounting, Dispatching
<1> QED BY <1>7, <1>8, <1>9 DEF Order

\* What creating a task does to the tasks there are
LEMMA SpawnFacts ==
    ASSUME TypeInv, Order, Unused # {}, NEW tasks, tasks \in [Turns -> Task], NEW batch,
           tasks[Newest] = turn[Newest]
    PROVE  /\ Newest \in Turns /\ turn[Newest].at = "unused" /\ turn[Newest].hand = {}
           /\ Spawn(tasks, batch)[Newest].at = "spawned"
           /\ Spawn(tasks, batch)[Newest].batch = batch
           /\ Spawn(tasks, batch)[Newest].hand = {}
           /\ ~ Spawn(tasks, batch)[Newest].cut
           /\ \A u \in Turns : u # Newest => Spawn(tasks, batch)[u] = tasks[u]
<1>1. Newest \in Turns /\ turn[Newest].at = "unused"
  BY NewestUnused
<1>2. tasks[Newest].hand = {}
  BY <1>1 DEF TypeInv, TypeOK
<1>3. ~ tasks[Newest].cut
  BY <1>1 DEF Order, Ownership
<1>4. tasks[Newest] \in Task
  BY <1>1
<1> QED BY <1>1, <1>2, <1>3, <1>4 DEF Spawn, Task

\* A task hands the session over to the task of the queued event.
LEMMA HandOverOrderly ==
    ASSUME TypeInv, Order, Calm, NEW t \in Turns, HandOver(t)
    PROVE  Order'
<1>1. /\ turn \in [Turns -> Task] /\ turn[t] \in Task /\ turn[t].at = "typing" /\ Unused # {}
      /\ owner' = Newest /\ Nobody \notin Turns
      /\ UNCHANGED <<guard, pending, slot, gen, cmd, arrived, replied, dropped>>
  BY SessionAssumption DEF TypeInv, TypeOK, HandOver, Turns
<1>2. Ownership /\ Guarding /\ Accounting
  BY DEF Order
<1>3. ~ Dispatching /\ ~ Dispatching'
  BY <1>1, <1>2 DEF Calm, Accounting, Dispatching
<1>4. t = owner
  BY <1>1, <1>3, Alone
<1> DEFINE tasks == Spawn(turn, turn[t].hand)
<1>5. /\ Newest \in Turns /\ Newest # t
      /\ turn[Newest].at = "unused" /\ turn[Newest].hand = {}
      /\ tasks[Newest].at = "spawned" /\ tasks[Newest].batch = turn[t].hand
      /\ tasks[Newest].hand = {} /\ ~ tasks[Newest].cut
      /\ \A u \in Turns : u # Newest => tasks[u] = turn[u]
  BY <1>1, SpawnFacts
<1>6. turn' = [tasks EXCEPT ![t].at = "cleanup", ![t].cut = FALSE, ![t].hand = {}]
         /\ DOMAIN tasks = Turns
  BY <1>1 DEF HandOver, Spawn
<1> HIDE DEF tasks
<1>7. /\ turn'[Newest] = tasks[Newest]
      /\ turn'[t].at = "cleanup" /\ ~ turn'[t].cut
      /\ \A u \in Turns : u # t /\ u # Newest => turn'[u] = turn[u]
  BY <1>1, <1>5, <1>6 DEF Task
<1>8. \A c \in Commands : ~ Joining(c) /\ ~ Joining(c)'
  BY <1>3 DEF Dispatching, Joining
<1>9. Ownership'
  <2>1. \A u \in Turns : u \in Working => u = t
    BY <1>2, <1>4, <1>8 DEF Ownership
  <2>2. \A u \in Turns : u \in Working' => u = Newest
    BY <1>7, <2>1 DEF Working
  <2>3. \A u \in Turns : ~ turn'[u].cut
    BY <1>2, <1>5, <1>7, <1>8 DEF Ownership
  <2> QED BY <1>1, <1>5, <1>7, <1>8, <2>2, <2>3 DEF Ownership, Working
<1>10. Guarding'
  BY <1>1, <1>2, <1>3, <1>4, <1>5, <1>7 DEF Guarding, Dispatched
<1>11. \A m \in Messages : Held(m) => Held(m)'
  BY <1>1, <1>5, <1>7 DEF Held, Carrying
<1>12. \A u \in Turns : turn'[u].at = "typing" => turn'[u].hand # {}
  BY <1>2, <1>5, <1>7 DEF Accounting
<1>13. Accounting'
  BY <1>1, <1>5, <1>7, <1>11, <1>12, StaysAccounted
<1> QED BY <1>9, <1>10, <1>13 DEF Order

\* A task ends: the late event gets a task, or the session is free.
LEMMA CleanupOrderly ==
    ASSUME TypeInv, Order, Calm, NEW t \in Turns, Cleanup(t)
    PROVE  Order'
<1>1. /\ turn \in [Turns -> Task] /\ turn[t] \in Task /\ turn[t].at = "cleanup" /\ ~ turn[t].cut
      /\ turn[t].hand = {} /\ owner \in Turns \union {Nobody} /\ Nobody \notin Turns
      /\ guard \in Turns \union Commands \union {Nobody}
      /\ UNCHANGED <<slot, gen, cmd, arrived, replied, dropped>>
  BY SessionAssumption DEF TypeInv, TypeOK, Cleanup, At, Turns
<1>2. Ownership /\ Guarding /\ Accounting
  BY DEF Order
<1>3. \A c \in Commands : Joining(c)' <=> Joining(c)
  BY <1>1 DEF Joining
<1>4. Dispatching' <=> Dispatching
  BY <1>1 DEF Dispatching
<1> DEFINE ended == [turn EXCEPT ![t].at = "over"]
<1>5. /\ ended \in [Turns -> Task] /\ ended[t].at = "over" /\ ~ ended[t].cut /\ ended[t].hand = {}
      /\ \A u \in Turns : u # t => ended[u] = turn[u]
  BY <1>1 DEF Task, Points
<1>6. CASE pending = {}
  <2>1. /\ turn' = ended /\ pending' = {}
        /\ owner' = IF owner = t THEN Nobody ELSE owner
        /\ guard' = IF owner = t /\ guard = turn[t].bound THEN Nobody ELSE guard
    BY <1>6 DEF Cleanup
  <2> HIDE DEF ended
  <2>2. Ownership'
    <3>1. (owner # Nobody => turn[owner].at \notin {"unused", "over"})'
      BY <1>1, <1>2, <1>5, <2>1 DEF Ownership
    <3>2. (\A u \in Working : u = owner \/ \E d \in Commands : Joining(d) /\ cmd[d].victim = u)'
      BY <1>1, <1>2, <1>3, <1>5, <2>1 DEF Ownership, Working
    <3>3. (\A d \in Commands : Joining(d) =>
             /\ owner = Nobody /\ cmd[d].victim \in Turns
             /\ turn[cmd[d].victim].at # "unused"
             /\ turn[cmd[d].victim].at = "spawned" => turn[cmd[d].victim].cut)'
      BY <1>1, <1>2, <1>3, <1>5, <2>1 DEF Ownership
    <3>4. (\A u \in Turns : turn[u].cut =>
             turn[u].at # "over" /\ \E d \in Commands : Joining(d) /\ cmd[d].victim = u)'
      BY <1>1, <1>2, <1>3, <1>5, <2>1 DEF Ownership
    <3> QED BY <1>1, <1>2, <1>3, <3>1, <3>2, <3>3, <3>4 DEF Ownership
  <2>3. Guarding'
    <3>1. ~ Dispatching /\ owner = t => guard = turn[t].bound
      BY <1>1, <1>2 DEF Guarding
    <3>2. ~ Dispatching /\ owner # t /\ owner # Nobody => turn'[owner] = turn[owner]
      BY <1>1, <1>5, <2>1
    <3> QED BY <1>1, <1>2, <1>4, <2>1, <3>1, <3>2 DEF Guarding, Dispatched
  <2>4. \A m \in Messages : Held(m) => Held(m)'
    BY <1>1, <1>5, <1>6, <2>1 DEF Held, Carrying
  <2>5. \A u \in Turns : turn'[u].at = "typing" => turn'[u].hand # {}
    BY <1>2, <1>5, <2>1 DEF Accounting
  <2>6. ASSUME ~ Dispatching, owner' # Nobody, turn'[owner'].at \in
                 {"setup", "run", "again", "closing", "unwind", "answer"}
        PROVE  turn'[owner'].gen = gen'
    BY <1>1, <1>2, <1>5, <2>1, <2>6 DEF Accounting, Current
  <2>7. Accounting'
    BY <1>1, <2>1, <2>4, <2>5, <2>6, StaysAccounted
  <2> QED BY <2>2, <2>3, <2>7 DEF Order
<1>7. CASE pending # {}
  <2>1. ~ Dispatching /\ owner # Nobody
    BY <1>2, <1>7 DEF Calm, Accounting
  <2>2. \A c \in Commands : ~ Joining(c)
    BY <2>1 DEF Dispatching, Joining
  <2>3. CASE owner # t
    <3>1. turn' = ended /\ UNCHANGED <<owner, pending, guard>>
      BY <1>7, <2>1, <2>3 DEF Cleanup
    <3> HIDE DEF ended
    <3>2. Ownership'
      BY <1>1, <1>2, <1>3, <1>5, <2>2, <2>3, <3>1 DEF Ownership, Working
    <3>3. Guarding'
      BY <1>1, <1>2, <1>4, <1>5, <2>1, <2>3, <3>1 DEF Guarding, Dispatched
    <3>4. \A m \in Messages : Held(m) => Held(m)'
      BY <1>1, <1>5, <3>1 DEF Held, Carrying
    <3>5. \A u \in Turns : turn'[u].at = "typing" => turn'[u].hand # {}
      BY <1>2, <1>5, <3>1 DEF Accounting
    <3>6. ASSUME turn'[owner'].at \in {"setup", "run", "again", "closing", "unwind", "answer"}
          PROVE  turn'[owner'].gen = gen'
      BY <1>1, <1>2, <1>5, <2>1, <2>3, <3>1, <3>6 DEF Accounting, Current
    <3>7. Accounting'
      BY <1>1, <2>1, <3>1, <3>4, <3>5, <3>6, StaysAccounted
    <3> QED BY <3>2, <3>3, <3>7 DEF Order
  <2>4. CASE owner = t
    <3> DEFINE tasks == Spawn(ended, pending)
    <3>1. /\ Unused # {} /\ turn' = tasks /\ owner' = Newest
          /\ pending' = {} /\ guard' = guard
      BY <1>7, <2>4 DEF Cleanup
    <3>2. ended[Newest] = turn[Newest]
      BY <1>1, <1>5, <3>1, NewestUnused
    <3>3. /\ Newest \in Turns /\ Newest # t
          /\ turn[Newest].at = "unused" /\ turn[Newest].hand = {}
          /\ tasks[Newest].at = "spawned" /\ tasks[Newest].batch = pending
          /\ tasks[Newest].hand = {} /\ ~ tasks[Newest].cut
          /\ \A u \in Turns : u # Newest => tasks[u] = ended[u]
      <4> HIDE DEF ended
      <4>1. Newest \in Turns /\ turn[Newest].at = "unused"
        BY <3>1, NewestUnused
      <4> QED BY <1>1, <1>5, <3>1, <3>2, <4>1, SpawnFacts
    <3> HIDE DEF tasks, ended
    <3>4. Ownership'
      <4>1. \A u \in Turns : u \in Working => u = t
        BY <1>2, <2>2, <2>4 DEF Ownership
      <4>2. \A u \in Turns : u \in Working' => u = Newest
        BY <1>5, <3>1, <3>3, <4>1 DEF Working
      <4>3. \A u \in Turns : ~ turn'[u].cut
        BY <1>2, <1>5, <2>2, <3>1, <3>3 DEF Ownership
      <4> QED BY <1>1, <1>3, <2>2, <3>1, <3>3, <4>2, <4>3 DEF Ownership, Working
    <3>5. Guarding'
      BY <1>1, <1>2, <1>4, <2>1, <3>1, <3>3 DEF Guarding, Dispatched
    <3>6. \A m \in Messages : Held(m) => Held(m)'
      BY <1>1, <1>5, <3>1, <3>3 DEF Held, Carrying
    <3>7. \A u \in Turns : turn'[u].at = "typing" => turn'[u].hand # {}
      BY <1>2, <1>5, <3>1, <3>3 DEF Accounting
    <3>8. Accounting'
      BY <1>1, <3>1, <3>3, <3>6, <3>7, StaysAccounted
    <3> QED BY <3>4, <3>5, <3>8 DEF Order
  <2> QED BY <2>3, <2>4
<1> QED BY <1>6, <1>7

\* A message starts a turn in a session that is free, or waits for its owner.
LEMMA ArriveOrderly ==
    ASSUME TypeInv, Order, Calm, NEW m \in Messages, Arrive(m)
    PROVE  Order'
<1>1. /\ turn \in [Turns -> Task] /\ owner \in Turns \union {Nobody} /\ Nobody \notin Turns
      /\ guard \in Turns \union Commands \union {Nobody} /\ arrived \subseteq Messages
      /\ Turns \intersect {Nobody} = {} /\ Commands \intersect {Nobody} = {}
  BY SessionAssumption DEF TypeInv, TypeOK, Turns
<1>2. /\ m \notin arrived /\ arrived' = arrived \union {m}
      /\ UNCHANGED <<slot, gen, cmd, replied>>
  BY DEF Arrive, Start, Queue
<1>3. Ownership /\ Guarding /\ Accounting
  BY DEF Order
<1>4. ~ Dispatching /\ ~ Dispatching'
  BY <1>2 DEF Calm, Dispatching
<1>5. \A c \in Commands : ~ Joining(c) /\ ~ Joining(c)'
  BY <1>4 DEF Dispatching, Joining
<1>6. ~ Stale
  BY <1>3 DEF Stale, Over, Ownership
<1>7. CASE Start(m)
  <2>1. /\ guard = Nobody /\ owner = Nobody /\ pending = {} /\ Unused # {}
        /\ turn' = Spawn(turn, {m}) /\ guard' = Newest /\ owner' = Newest
        /\ pending' = pending /\ dropped' = dropped
    BY <1>3, <1>4, <1>6, <1>7 DEF Start, Guarding, Accounting
  <2>2. /\ Newest \in Turns /\ turn[Newest].at = "unused" /\ turn[Newest].hand = {}
        /\ turn'[Newest].at = "spawned" /\ turn'[Newest].batch = {m}
        /\ turn'[Newest].hand = {} /\ ~ turn'[Newest].cut
        /\ \A u \in Turns : u # Newest => turn'[u] = turn[u]
    BY <1>1, <2>1, SpawnFacts
  <2>3. \A u \in Turns : u \notin Working /\ ~ turn[u].cut
    BY <1>1, <1>3, <1>5, <2>1 DEF Ownership, Working
  <2>4. Ownership'
    BY <1>1, <1>3, <1>5, <2>1, <2>2, <2>3 DEF Ownership, Working
  <2>5. Guarding'
    BY <1>1, <1>4, <2>1, <2>2, SessionAssumption DEF Guarding, Dispatched, Turns
  <2>6. \A k \in Messages : Held(k) => Held(k)'
    BY <2>1, <2>2 DEF Held, Carrying
  <2>7. Held(m)'
    BY <2>2 DEF Held, Carrying
  <2>8. Accounting'
    BY <1>1, <1>2, <1>3, <1>4, <2>1, <2>2, <2>6, <2>7 DEF Accounting
  <2> QED BY <2>4, <2>5, <2>8 DEF Order
<1>8. CASE Queue(m)
  <2>1. /\ guard # Nobody /\ pending' = {m} /\ dropped' = dropped \union pending
        /\ UNCHANGED <<guard, owner>> /\ turn' = Interrupt(turn, {m})
    BY <1>8 DEF Queue
  <2>2. \A u \in Turns :
           /\ turn'[u].at = turn[u].at /\ turn'[u].cut = turn[u].cut
           /\ turn'[u].bound = turn[u].bound /\ turn'[u].gen = turn[u].gen
           /\ turn'[u].hand = turn[u].hand /\ turn'[u].batch = turn[u].batch
    BY <1>1, <2>1 DEF Interrupt, Task
  <2>3. owner # Nobody
    BY <1>3, <1>4, <2>1 DEF Guarding
  <2>4. Ownership'
    BY <1>1, <1>3, <1>5, <2>1, <2>2 DEF Ownership, Working
  <2>5. Guarding'
    BY <1>1, <1>2, <1>3, <1>4, <2>1, <2>2, <2>3 DEF Guarding, Dispatched
  <2>6. \A k \in Messages : Held(k) => k \in dropped' \/ Held(k)'
    BY <2>1, <2>2 DEF Held, Carrying
  <2>7. Held(m)'
    BY <2>1 DEF Held
  <2>8. Accounting'
    <3>1. \A u \in Turns : turn'[u].at = "typing" => turn'[u].hand # {}
      BY <1>3, <2>2 DEF Accounting
    <3>2. turn'[owner'].at \in {"setup", "run", "again", "closing", "unwind", "answer"}
            => turn'[owner'].gen = gen'
      BY <1>1, <1>2, <1>3, <1>4, <2>1, <2>2, <2>3 DEF Accounting, Current
    <3>3. \A k \in arrived' : k \in replied' \union dropped' \/ Held(k)'
      BY <1>1, <1>2, <1>3, <1>4, <2>1, <2>6, <2>7 DEF Accounting
    <3> QED BY <1>4, <2>1, <2>3, <3>1, <3>2, <3>3 DEF Accounting, Current
  <2> QED BY <2>4, <2>5, <2>8 DEF Order
<1> QED BY <1>7, <1>8 DEF Arrive

\* A command takes the guard and gives up what has not been answered.
LEMMA IssueOrderly ==
    ASSUME TypeInv, Order, NEW c \in Commands, NEW kind \in {"stop", "new"}, Issue(c, kind)
    PROVE  Order'
<1>1. /\ turn \in [Turns -> Task] /\ owner \in Turns \union {Nobody} /\ c # Nobody
      /\ cmd \in [Commands -> Dispatch]
  BY SessionAssumption DEF TypeInv, TypeOK
<1>2. /\ cmd[c].at = "unused" /\ cmd'[c].at \in {"respond", "stopping"}
      /\ \A d \in Commands : d # c => cmd'[d] = cmd[d]
      /\ guard' = c /\ owner' = owner /\ arrived' = arrived /\ replied' = replied
      /\ dropped' = dropped \union (arrived \ replied)
  BY <1>1 DEF Issue
<1>3. \A u \in Turns :
         /\ turn'[u].at = turn[u].at /\ turn'[u].cut = turn[u].cut /\ turn'[u].hand = turn[u].hand
  BY <1>1 DEF Issue, Interrupt, Task
<1>4. Ownership /\ Accounting
  BY DEF Order
<1>5. \A d \in Commands : /\ Joining(d)' <=> Joining(d)
                          /\ Joining(d) => cmd'[d].victim = cmd[d].victim
  BY <1>2 DEF Joining
<1>6. Dispatching' /\ Dispatched(c)'
  BY <1>2 DEF Dispatching, Dispatched
<1>7. Ownership'
  <2>1. (owner # Nobody => turn[owner].at \notin {"unused", "over"})'
    BY <1>1, <1>2, <1>3, <1>4 DEF Ownership
  <2>2. (\A u \in Working : u = owner \/ \E d \in Commands : Joining(d) /\ cmd[d].victim = u)'
    BY <1>2, <1>3, <1>4, <1>5 DEF Ownership, Working
  <2>3. (\A d \in Commands : Joining(d) =>
           /\ owner = Nobody /\ cmd[d].victim \in Turns
           /\ turn[cmd[d].victim].at # "unused"
           /\ turn[cmd[d].victim].at = "spawned" => turn[cmd[d].victim].cut)'
    BY <1>2, <1>3, <1>4, <1>5 DEF Ownership
  <2>4. (\A u \in Turns : turn[u].cut =>
           turn[u].at # "over" /\ \E d \in Commands : Joining(d) /\ cmd[d].victim = u)'
    BY <1>3, <1>4, <1>5 DEF Ownership
  <2> QED BY <1>4, <1>5, <2>1, <2>2, <2>3, <2>4 DEF Ownership
<1>8. Guarding'
  BY <1>1, <1>2, <1>6 DEF Guarding
<1>9. Accounting'
  BY <1>2, <1>3, <1>4, <1>6 DEF Accounting
<1> QED BY <1>7, <1>8, <1>9 DEF Order

LEMMA ClearOrderly ==
    ASSUME TypeInv, Order, NEW c \in Commands, Clear(c)
    PROVE  Order'
<1>1. /\ cmd[c].at = "stopping" /\ cmd'[c].at = "respond"
      /\ \A d \in Commands : d # c => cmd'[d] = cmd[d]
      /\ UNCHANGED <<guard, owner, turn, arrived, replied, dropped>>
  BY DEF Clear, TypeInv, TypeOK, Dispatch
<1>2. \A d \in Commands : /\ Joining(d)' <=> Joining(d)
                          /\ Joining(d) => cmd'[d].victim = cmd[d].victim
                          /\ Dispatched(d)' <=> Dispatched(d)
  BY <1>1 DEF Joining, Dispatched
<1>3. Dispatching /\ Dispatching'
  BY <1>1 DEF Dispatching
<1>4. Ownership'
  BY <1>1, <1>2 DEF Order, Ownership, Working
<1>5. Guarding'
  BY <1>1, <1>2, <1>3 DEF Order, Guarding
<1>6. Accounting'
  BY <1>1, <1>3 DEF Order, Accounting
<1> QED BY <1>4, <1>5, <1>6 DEF Order

\* A command cuts the owner, which leaves the session without one.
LEMMA CutOrderly ==
    ASSUME TypeInv, Order, NEW c \in Commands, Cancel(c), owner # Nobody, ~ Over(owner)
    PROVE  Order'
<1>1. /\ turn \in [Turns -> Task] /\ owner \in Turns /\ cmd \in [Commands -> Dispatch]
  BY DEF TypeInv, TypeOK
<1>2. /\ turn' = [turn EXCEPT ![owner].cut = TRUE] /\ owner' = Nobody
      /\ cmd' = [cmd EXCEPT ![c].at = "join", ![c].victim = owner] /\ cmd[c].at = "respond"
      /\ UNCHANGED <<guard, pending, slot, gen, arrived, replied, dropped>>
  BY DEF Cancel
<1>3. /\ turn'[owner].cut /\ turn'[owner].at = turn[owner].at /\ turn'[owner].hand = turn[owner].hand
      /\ \A u \in Turns : u # owner => turn'[u] = turn[u]
      /\ cmd'[c].at = "join" /\ cmd'[c].victim = owner
      /\ \A d \in Commands : d # c => cmd'[d] = cmd[d]
  BY <1>1, <1>2 DEF Task, Dispatch
<1>4. Ownership /\ Guarding /\ Accounting
  BY DEF Order
<1>5. \A d \in Commands : ~ Joining(d) /\ (Joining(d)' <=> d = c)
  BY <1>3, <1>4 DEF Ownership, Joining
<1>6. Dispatching /\ Dispatching' /\ \A d \in Commands : Dispatched(d)' <=> Dispatched(d)
  BY <1>2, <1>3 DEF Dispatching, Dispatched
<1>7. Ownership'
  <2>1. \A u \in Turns : u \in Working => u = owner
    BY <1>4, <1>5 DEF Ownership
  <2>2. \A u \in Turns : u \notin Working'
    BY <1>3, <2>1 DEF Working
  <2>3. \A u \in Turns : turn'[u].cut => u = owner
    BY <1>3, <1>4, <1>5 DEF Ownership
  <2>4. turn[owner].at \notin {"unused", "over"}
    BY <1>1, <1>4 DEF Ownership
  <2>5. owner' = Nobody /\ \A u \in Working' : FALSE
    BY <1>2, <2>2 DEF Working
  <2> QED BY <1>1, <1>3, <1>5, <2>3, <2>4, <2>5 DEF Ownership
<1>8. Guarding'
  BY <1>2, <1>4, <1>6 DEF Guarding
<1>9. Accounting'
  BY <1>2, <1>3, <1>4, <1>6 DEF Accounting
<1> QED BY <1>7, <1>8, <1>9 DEF Order

\* A command that has nobody to wait for any more ends, and frees the guard.
LEMMA EndOrderly ==
    ASSUME TypeInv, Order, Calm, NEW c \in Commands,
           (Cancel(c) /\ ~ (owner # Nobody /\ ~ Over(owner))) \/ Join(c)
    PROVE  Order'
<1>1. /\ cmd \in [Commands -> Dispatch] /\ owner \in Turns \union {Nobody}
      /\ guard \in Turns \union Commands \union {Nobody} /\ c # Nobody
      /\ cmd[c].at \in {"respond", "join"}
  BY SessionAssumption DEF TypeInv, TypeOK, Cancel, Join
<1>2. Ownership /\ Guarding /\ Accounting
  BY DEF Order
<1>3. Dispatching /\ pending = {}
  BY <1>1 DEF Dispatching, Calm
<1>4. owner = Nobody
  BY <1>1, <1>2 DEF Cancel, Join, Over, Ownership, Joining
<1>5. Drain(c, turn, Nobody) /\ cmd' = [cmd EXCEPT ![c].at = "done"]
         /\ UNCHANGED <<slot, gen, arrived, replied, dropped>>
  BY <1>4 DEF Cancel, Join
<1>6. /\ turn' = turn /\ owner' = Nobody /\ pending' = {}
      /\ guard' = IF guard = c THEN Nobody ELSE guard
  BY <1>3, <1>5 DEF Drain
<1>7. cmd'[c].at = "done" /\ \A d \in Commands : d # c => cmd'[d] = cmd[d]
  BY <1>1, <1>5 DEF Dispatch
<1>8. \A d \in Commands : /\ Joining(d)' <=> (Joining(d) /\ d # c)
                          /\ Dispatched(d)' <=> (Dispatched(d) /\ d # c)
  BY <1>7 DEF Joining, Dispatched
<1>9. Joining(c) => Over(cmd[c].victim)
  BY <1>7 DEF Joining, Cancel, Join, Calm, GivingUp
<1>10. Ownership'
  <2>1. \A u \in Turns : u \in Working => \E d \in Commands : Joining(d) /\ d # c /\ cmd[d].victim = u
    BY <1>2, <1>4, <1>9 DEF Ownership, Working, Over, Turns
  <2>2. \A u \in Turns : turn[u].cut =>
           turn[u].at # "over" /\ \E d \in Commands : Joining(d) /\ d # c /\ cmd[d].victim = u
    BY <1>2, <1>9 DEF Ownership, Over
  <2>3. Working' = Working
    BY <1>6 DEF Working
  <2>4. \A d \in Commands : Joining(d)' => cmd'[d].victim = cmd[d].victim
    BY <1>7, <1>8
  <2>5. (\A u \in Working : u = owner \/ \E d \in Commands : Joining(d) /\ cmd[d].victim = u)'
    BY <1>7, <1>8, <2>1, <2>3 DEF Working
  <2> QED BY <1>2, <1>6, <1>7, <1>8, <2>2, <2>4, <2>5 DEF Ownership
<1>11. (guard \in Commands => Dispatched(guard))'
  BY <1>2, <1>6, <1>8, <1>1 DEF Guarding
<1>12. guard' \in Commands \union {Nobody}
  BY <1>2, <1>3, <1>6 DEF Guarding
<1>13. Dispatching' \/ guard' = Nobody
  BY <1>11, <1>12 DEF Dispatching, Dispatched
<1>14. Guarding'
  BY <1>6, <1>11, <1>12, <1>13 DEF Guarding
<1>15. Accounting'
  BY <1>2, <1>3, <1>5, <1>6 DEF Accounting
<1> QED BY <1>10, <1>14, <1>15 DEF Order

LEMMA OrderInit == Init => Order
<1> SUFFICES ASSUME Init PROVE Order
  OBVIOUS
<1>1. \A t \in Turns : turn[t].at = "unused" /\ ~ turn[t].cut /\ turn[t].hand = {}
  BY DEF Init, NoTask
<1>2. \A c \in Commands : ~ Dispatched(c) /\ ~ Joining(c)
  BY DEF Init, NoDispatch, Dispatched, Joining
<1>3. ~ Dispatching
  BY <1>2 DEF Dispatching, Dispatched
<1>4. Ownership
  BY <1>1, <1>2 DEF Init, Ownership, Working
<1>5. Guarding
  BY <1>3, SessionAssumption DEF Init, Guarding
<1>6. Accounting
  BY <1>1, <1>3 DEF Init, Accounting
<1> QED BY <1>4, <1>5, <1>6 DEF Order

LEMMA OrderStep == TypeInv /\ Accounted /\ Orderly /\ [Next]_vars => Orderly'
<1> SUFFICES ASSUME TypeInv, Accounted, Orderly, [Next]_vars, crossed' = {}, wedged' = {}
             PROVE  Order'
  BY DEF Orderly
<1>1. ASSUME NEW m \in Messages, Arrive(m) PROVE Order'
  <2>1. Ran(m)
    BY <1>1 DEF Arrive
  <2> QED BY <1>1, <2>1, Undisturbed, ArriveOrderly
<1>2. ASSUME NEW t \in Turns, TurnStep(t) PROVE Order'
  <2>1. Ran(t)
    BY <1>2 DEF TurnStep, Begin, Claim, Merge, Push, Run, Track, FollowUp, Finish, Fail, Close,
         Unwind, Answer, TakeQueued, HandOver, Cleanup, CutDead, CutHandler, CutRun, Abort, CutIgnored
  <2>2. Order /\ Calm
    BY <2>1, Undisturbed
  <2> QED BY <1>2, <2>2, BeginOrderly, WorkOrderly, YieldOrderly, FollowUpOrderly,
        TakeQueuedOrderly, HandOverOrderly, CleanupOrderly, CancelledOrderly DEF TurnStep
<1>3. ASSUME NEW c \in Commands, NEW kind \in {"stop", "new"}, Issue(c, kind) PROVE Order'
  <2>1. Ran(c)
    BY <1>3 DEF Issue
  <2> QED BY <1>3, <2>1, Undisturbed, IssueOrderly
<1>4. ASSUME NEW c \in Commands, CommandStep(c) PROVE Order'
  <2>1. Ran(c)
    BY <1>4 DEF CommandStep, Clear, Cancel, Join
  <2>2. Order /\ Calm
    BY <2>1, Undisturbed
  <2> QED BY <1>4, <2>2, ClearOrderly, CutOrderly, EndOrderly DEF CommandStep
<1>5. CASE UNCHANGED vars
  BY <1>5 DEF vars, Orderly, Order, Ownership, Guarding, Accounting, Working, Joining, Dispatched,
     Dispatching, Held, Carrying, Current
<1> QED BY <1>1, <1>2, <1>3, <1>4, <1>5 DEF Next

LEMMA InOrder == Spec => [](TypeInv /\ Orderly)
<1>1. Init => Accounted
  BY DEF Init, Accounted
<1>2. Init => Orderly
  BY OrderInit DEF Orderly
<1> QED BY <1>1, <1>2, InitTyped, TypeStep, SlotStep, OrderStep, PTL DEF Spec

\* For any messages and commands: as long as none crosses a command and every task
\* that a command cut ends within the five seconds, no two tasks of a session are at
\* work, whatever the drains, the hand-overs of the ownership and the cancellations
\* (_process_message_background, cancel_session_processing).
THEOREM WorksAlone == Spec => []OneTurn
<1>1. TypeInv /\ Orderly => OneTurn
  <2> SUFFICES ASSUME TypeInv, Order
               PROVE  Cardinality(Working) <= 1
    BY DEF Orderly, OneTurn
  <2>1. \A t, u \in Working : t = u
    BY DEF Order, Ownership, Working, Turns
  <2>2. CASE Working = {}
    <3>1. Cardinality(Working) = 0
      BY <2>2, FS_EmptySet, Zenon
    <3> QED BY <3>1
  <2>3. CASE Working # {}
    <3>1. PICK t : Working = {t}
      BY <2>1, <2>3
    <3>2. Cardinality(Working) = 1
      BY <3>1, FS_Singleton, Zenon
    <3> QED BY <3>2
  <2> QED BY <2>2, <2>3
<1> QED BY <1>1, InOrder, PTL

\* With the same exceptions a session at rest has no guard left that would hold the
\* next message back (_dispatch_active_session_command, the end of the task's finally).
THEOREM TakesTheNext == Spec => [](wedged = {} => NotTrapped)
<1>1. TypeInv /\ Orderly => (wedged = {} => NotTrapped)
  <2> SUFFICES ASSUME TypeInv, Order, Quiet
               PROVE  guard = Nobody
    BY DEF Orderly, NotTrapped
  <2>1. ~ Dispatching
    BY DEF Quiet, Dispatching
  <2>2. owner = Nobody
    BY DEF Order, Ownership, Quiet, TypeInv, TypeOK
  <2> QED BY <2>1, <2>2 DEF Order, Guarding
<1> QED BY <1>1, InOrder, PTL

\* With the same exceptions no message is lost: at rest each one is answered or given
\* up for a command or a later message (_pending_messages and both its drains).
THEOREM EveryoneServed == Spec => []Served
<1>1. TypeInv /\ Orderly => Served
  <2> SUFFICES ASSUME TypeInv, Order, Quiet
               PROVE  pending = {} /\ arrived = replied \union dropped
    BY DEF Orderly, Served
  <2>1. ~ Dispatching
    BY DEF Quiet, Dispatching
  <2>2. owner = Nobody
    BY DEF Order, Ownership, Quiet, TypeInv, TypeOK
  <2>3. pending = {}
    BY <2>1, <2>2 DEF Order, Accounting
  <2>4. \A m \in arrived : ~ Held(m)
    BY <2>3 DEF Held, Carrying, Quiet, TypeInv, TypeOK
  <2>5. arrived \subseteq replied \union dropped
    BY <2>1, <2>4 DEF Order, Accounting
  <2>6. replied \union dropped \subseteq arrived
    BY DEF TypeInv, TypeOK
  <2> QED BY <2>3, <2>5, <2>6
<1> QED BY <1>1, InOrder, PTL
=============================================================================
