----------------------------- MODULE CronProofs -----------------------------
(* Type correctness of CronJobs, and that runs do not overlap, for any      *)
(* jobs, processes that tick, editors, edits and crashes.                   *)
EXTENDS CronJobs, TLAPS, FiniteSetTheorems

USE CronAssumption DEF CronAssumption

Pages == [Jobs -> Job]
Ticks == [at : {"idle", "sift", "advance", "advancing", "marking"},
          page : Pages, job : Jobs \union {Nobody},
          advance : SUBSET Jobs, due : SUBSET Jobs, running : SUBSET Jobs]
Edits == [op : Ops \union {"none"}, job : Jobs \union {Nobody}, page : Pages]

\* The local state of ticks and edits.  Nothing runs in an idle process, and
\* next to a job with a workdir no other does.
Alone(t) == t.running \intersect Workdir # {} => \E j \in Jobs : t.running = {j}
TickOK(t) ==
    /\ t \in Ticks
    /\ t.at \in {"advancing", "marking"} => t.job \in Jobs
    /\ t.at = "idle" => t.running = {}
    /\ Alone(t)
EditOK(e) == e \in Edits /\ (e.op # "none" => e.job \in Jobs)
Working ==
    /\ proc \in [Procs -> Ticks] /\ \A p \in Procs : TickOK(proc[p])
    /\ edit \in [Editors -> Edits] /\ \A e \in Editors : EditOK(edit[e])

Inv == TypeOK /\ Working

-----------------------------------------------------------------------------
(* What the operations on a job make of it is a job.                       *)

LEMMA JobTyped == NoJob \in Job /\ NoPage \in Pages
  BY DEF NoJob, NoPage, Pages, Job, Whens

LEMMA WhenTyped ==
    ASSUME runAt \in [Jobs \ Recurring -> {"ahead", "due", "stale"}], NEW j \in Jobs
    PROVE  NextRun(j) \in Whens /\ New(j) \in Job
  BY DEF NextRun, Recoverable, New, NoJob, Job, Whens

LEMMA OwingTyped ==
    ASSUME owed \in [Jobs -> 0..2], NEW j \in Jobs, NEW n \in Nat
    PROVE  Owing(j, n) \in [Jobs -> 0..2]
  BY DEF Owing

LEMMA SiftTyped ==
    ASSUME runAt \in [Jobs \ Recurring -> {"ahead", "due", "stale"}],
           NEW j \in Jobs, NEW job \in Job
    PROVE  Sifted(j, job) \in Job
<1>1. Recovered(j, job) \in Job
  BY WhenTyped DEF Recovered, Job
<1> QED BY <1>1 DEF Sifted, Job, Whens

LEMMA AdvanceTyped ==
    ASSUME NEW j \in Jobs, NEW job \in Job
    PROVE  Advanced(j, job) \in Job
  BY DEF Advanced, Job, Whens

LEMMA MarkTyped ==
    ASSUME NEW j \in Jobs, NEW job \in Job
    PROVE  Marked(j, job) \in Job
<1>1. NoJob \in Job
  BY JobTyped
<1>2. job.done + 1 \in Nat
  BY DEF Job
<1> QED BY <1>1, <1>2 DEF Marked, Job, Whens

LEMMA ChangeTyped ==
    ASSUME runAt \in [Jobs \ Recurring -> {"ahead", "due", "stale"}],
           NEW op \in Ops, NEW j \in Jobs, NEW job \in Job
    PROVE  Changed(op, j, job) \in Job
<1>1. NextRun(j) \in Whens /\ New(j) \in Job /\ NoJob \in Job
  BY WhenTyped, JobTyped
<1>2. \A when \in Whens, on \in BOOLEAN :
          [job EXCEPT !.enabled = on, !.next = when] \in Job
  BY DEF Job
<1>3. \A when \in Whens : [job EXCEPT !.next = when] \in Job
  BY DEF Job
<1>4. [job EXCEPT !.enabled = FALSE] \in Job
  BY DEF Job
<1>5. "ahead" \in Whens /\ "due" \in Whens /\ "none" \in Whens
  BY DEF Whens
<1>6. CASE op = "create"
  BY <1>1, <1>6 DEF Changed
<1>7. CASE op = "update"
  BY <1>1, <1>3, <1>7 DEF Changed
<1>8. CASE op = "reschedule"
  BY <1>3, <1>5, <1>8 DEF Changed
<1>9. CASE op = "pause"
  BY <1>4, <1>9 DEF Changed
<1>10. CASE op = "resume"
  BY <1>1, <1>2, <1>10 DEF Changed
<1>11. CASE op = "trigger"
  BY <1>2, <1>5, <1>11 DEF Changed
<1>12. CASE op = "remove"
  BY <1>1, <1>12 DEF Changed
<1>13. CASE op = "bypass"
  BY <1>3, <1>5, <1>13 DEF Changed
<1> QED BY <1>6, <1>7, <1>8, <1>9, <1>10, <1>11, <1>12, <1>13 DEF Ops

LEMMA AgeTyped ==
    ASSUME NEW jobs \in Pages, NEW j \in Jobs, NEW when \in {"ahead", "due"}
    PROVE  Aged(jobs, j, when) \in Pages
<1>1. Older(when) \in Whens
  BY DEF Older, Whens
<1>2. jobs[j] \in Job
  BY DEF Pages
<1>3. [jobs[j] EXCEPT !.next = Older(when)] \in Job
  BY <1>1, <1>2 DEF Job
<1> QED BY <1>3 DEF Aged, Pages

-----------------------------------------------------------------------------
(* What a step does to one variable.                                       *)

LEMMA IdleOK == TickOK(Idle) /\ EditOK(NoEdit)
  BY JobTyped DEF TickOK, Alone, Idle, Ticks, EditOK, NoEdit, Edits

LEMMA FileStep ==
    ASSUME TypeOK, NEW x \in Procs \union Editors, NEW jobs \in Pages,
           Save(x, jobs) \/ Loads(x) \/ NoSave
    PROVE  /\ file' \in [Jobs -> Job] /\ dirty' \subseteq Procs \union Editors
           /\ lost' \in BOOLEAN
<1>1. CASE Save(x, jobs)
  BY <1>1 DEF Save, Loaded, Pages
<1>2. CASE Loads(x)
  BY <1>2 DEF Loads, TypeOK
<1>3. CASE NoSave
  BY <1>3 DEF NoSave, TypeOK
<1> QED BY <1>1, <1>2, <1>3

LEMMA ProcStep ==
    ASSUME Working, NEW p \in Procs, NEW rec, TickOK(rec), Local(p, rec)
    PROVE  /\ proc' \in [Procs -> Ticks] /\ \A q \in Procs : TickOK(proc'[q])
           /\ \A q \in Procs : proc'[q] = IF q = p THEN rec ELSE proc[q]
<1>1. rec \in Ticks
  BY DEF TickOK
<1>2. \A q \in Procs : proc'[q] = IF q = p THEN rec ELSE proc[q]
  BY DEF Local, Working
<1>3. proc' \in [Procs -> Ticks]
  BY <1>1 DEF Local, Working
<1> QED BY <1>2, <1>3 DEF Working

LEMMA EditStep ==
    ASSUME Working, NEW e \in Editors, NEW rec, EditOK(rec),
           edit' = [edit EXCEPT ![e] = rec]
    PROVE  edit' \in [Editors -> Edits] /\ \A d \in Editors : EditOK(edit'[d])
<1>1. rec \in Edits
  BY DEF EditOK
<1>2. \A d \in Editors : edit'[d] = IF d = e THEN rec ELSE edit[d]
  BY DEF Working
<1>3. edit' \in [Editors -> Edits]
  BY <1>1 DEF Working
<1> QED BY <1>2, <1>3 DEF Working

\* A step of a tick that leaves the lock alone, all but `owed' and `twice'.
LEMMA TickStep ==
    ASSUME Inv, NEW p \in Procs, NEW rec, TickOK(rec), Local(p, rec),
           ~ At(p, "idle"), rec.at # "idle",
           NEW jobs \in Pages, Save(p, jobs) \/ Loads(p) \/ NoSave,
           UNCHANGED <<lock, Outside>>, stray' \subseteq Jobs,
           owed' \in [Jobs -> 0..2], twice' \subseteq Jobs, served' \subseteq Jobs, edited' \subseteq Jobs
    PROVE  Inv'
<1>1. /\ file' \in [Jobs -> Job] /\ dirty' \subseteq Procs \union Editors
      /\ lost' \in BOOLEAN
  BY FileStep DEF Inv
<1>2. /\ proc' \in [Procs -> Ticks] /\ \A q \in Procs : TickOK(proc'[q])
      /\ \A q \in Procs : proc'[q] = IF q = p THEN rec ELSE proc[q]
  BY ProcStep DEF Inv
<1>3. \A q \in Procs : proc'[q].at = "idle" <=> proc[q].at = "idle"
  BY <1>2 DEF At
<1>4. TypeOK'
  BY <1>1, <1>3 DEF Inv, TypeOK, At, Outside
<1>5. Working'
  BY <1>2 DEF Inv, Working, Outside
<1> QED BY <1>4, <1>5 DEF Inv

\* The step to an idle process that gives the lock back.
LEMMA Released ==
    ASSUME Inv, NEW p \in Procs, Local(p, Idle), ~ At(p, "idle"), lock' = Nobody, NoSave,
           UNCHANGED <<runAt, edit, owed, History>>, stray' \subseteq Jobs
    PROVE  Inv'
<1>1. /\ proc' \in [Procs -> Ticks] /\ \A q \in Procs : TickOK(proc'[q])
      /\ \A q \in Procs : proc'[q] = IF q = p THEN Idle ELSE proc[q]
  BY ProcStep, IdleOK DEF Inv
<1>2. \A q \in Procs : proc'[q].at = "idle"
  BY <1>1 DEF Inv, TypeOK, At, Idle
<1>3. TypeOK'
  BY <1>2 DEF Inv, TypeOK, At, History, NoSave
<1>4. Working'
  BY <1>1 DEF Inv, Working
<1> QED BY <1>3, <1>4 DEF Inv

-----------------------------------------------------------------------------
(* The steps of a tick.                                                    *)

LEMMA InvBegin == ASSUME Inv, NEW p \in Procs, Begin(p) PROVE Inv'
<1> DEFINE rec == [Idle EXCEPT !.at = "sift", !.page = file]
<1>1. file \in Pages
  BY DEF Inv, TypeOK, Pages
<1>2. TickOK(rec)
  BY <1>1 DEF TickOK, Alone, Idle, Ticks
<1>3. /\ file' \in [Jobs -> Job] /\ dirty' \subseteq Procs \union Editors
      /\ lost' \in BOOLEAN
  BY <1>1, FileStep DEF Begin, Inv
<1>4. /\ proc' \in [Procs -> Ticks] /\ \A q \in Procs : TickOK(proc'[q])
      /\ \A q \in Procs : proc'[q] = IF q = p THEN rec ELSE proc[q]
  BY <1>2, ProcStep DEF Begin, Inv
<1>5. \A q \in Procs : proc'[q].at = "idle" <=> q # p
  BY <1>4 DEF Begin, Inv, TypeOK, At, Idle
<1>6. TypeOK'
  BY <1>3, <1>5 DEF Begin, Inv, TypeOK, At, Outside, History
<1>7. Working'
  BY <1>4 DEF Begin, Inv, Working, Outside
<1> QED BY <1>6, <1>7 DEF Inv

LEMMA InvSift == ASSUME Inv, NEW p \in Procs, Sift(p) PROVE Inv'
<1> DEFINE page == proc[p].page
           jobs == [j \in Jobs |-> Sifted(j, page[j])]
           due  == {j \in Jobs : Due(j, jobs[j])}
           rec  == [Idle EXCEPT !.at = "advance", !.advance = due, !.due = due]
<1>1. page \in Pages
  BY DEF Inv, Working, TickOK, Ticks
<1>2. jobs \in Pages
  BY <1>1, SiftTyped DEF Pages, Inv, TypeOK
<1>3. TickOK(rec)
  <2> HIDE DEF due
  <2>1. due \subseteq Jobs
    BY DEF due
  <2> QED BY <2>1, IdleOK DEF TickOK, Alone, Idle, Ticks
<1>4. owed' \in [Jobs -> 0..2]
  BY DEF Sift, Inv, TypeOK
<1>5. Local(p, rec) /\ (Save(p, jobs) \/ NoSave)
  BY DEF Sift
<1>6. rec.at # "idle" /\ ~ At(p, "idle")
  BY DEF Sift, At, Idle
<1> HIDE DEF rec, jobs
<1> QED BY <1>2, <1>3, <1>4, <1>5, <1>6, TickStep DEF Sift, Inv, TypeOK, History

LEMMA InvAdvanceLoad == ASSUME Inv, NEW p \in Procs, AdvanceLoad(p) PROVE Inv'
<1>1. PICK j \in proc[p].advance :
          Local(p, [proc[p] EXCEPT !.at = "advancing", !.job = j, !.page = file])
  BY DEF AdvanceLoad
<1> DEFINE rec == [proc[p] EXCEPT !.at = "advancing", !.job = j, !.page = file]
<1>2. file \in Pages /\ proc[p] \in Ticks /\ j \in Jobs
  BY DEF Inv, TypeOK, Pages, Working, TickOK, Ticks
<1>3. TickOK(rec)
  BY <1>2 DEF TickOK, Alone, Ticks, Inv, Working
<1>4. rec.at # "idle" /\ ~ At(p, "idle")
  BY <1>2 DEF AdvanceLoad, At, Ticks
<1> HIDE DEF rec
<1> QED BY <1>1, <1>2, <1>3, <1>4, TickStep DEF rec, AdvanceLoad, Inv, TypeOK, History

LEMMA InvAdvanceSave == ASSUME Inv, NEW p \in Procs, AdvanceSave(p) PROVE Inv'
<1> DEFINE j    == proc[p].job
           page == proc[p].page
           jobs == [page EXCEPT ![j] = Advanced(j, @)]
           rec  == [proc[p] EXCEPT !.at = "advance", !.job = Nobody,
                       !.page = NoPage, !.advance = @ \ {j}]
<1>1. page \in Pages /\ proc[p] \in Ticks /\ j \in Jobs
  BY DEF AdvanceSave, At, Inv, Working, TickOK, Ticks
<1>2. jobs \in Pages
  BY <1>1, AdvanceTyped DEF Pages
<1>3. TickOK(rec)
  BY <1>1, JobTyped DEF TickOK, Alone, Ticks, Inv, Working
<1>4. owed' \in [Jobs -> 0..2]
  BY <1>1, OwingTyped DEF AdvanceSave, Inv, TypeOK
<1>5. Local(p, rec) /\ (Save(p, jobs) \/ NoSave)
  BY DEF AdvanceSave
<1>6. rec.at # "idle" /\ ~ At(p, "idle")
  BY <1>1 DEF AdvanceSave, At, Ticks
<1> HIDE DEF rec, jobs
<1> QED BY <1>2, <1>3, <1>4, <1>5, <1>6, TickStep DEF AdvanceSave, Inv, TypeOK, History

LEMMA InvStart ==
    ASSUME Inv, NEW p \in Procs, NEW j \in Jobs, Start(p, j) PROVE Inv'
<1> DEFINE rec == [proc[p] EXCEPT !.due = @ \ {j}, !.running = @ \union {j}]
<1>1. proc[p] \in Ticks /\ Alone(proc[p])
  BY DEF Inv, Working, TickOK
<1>2. rec \in Ticks /\ rec.at = "advance" /\ rec.running = proc[p].running \union {j}
  BY <1>1 DEF Ticks, Start, At
\* A job with a workdir starts alone; no other starts while one runs.
<1>3. Alone(rec)
  <2>1. CASE j \in Workdir
    BY <1>2, <2>1 DEF Start, Launchable, Alone
  <2>2. CASE j \notin Workdir
    BY <1>2, <2>2 DEF Start, Launchable, Alone
  <2> QED BY <2>1, <2>2
<1>4. TickOK(rec)
  BY <1>2, <1>3 DEF TickOK
<1>5. owed' \in [Jobs -> 0..2]
  <2>1. owed[j] > 0 => owed[j] - 1 \in Nat
    BY DEF Inv, TypeOK
  <2> QED BY <2>1, OwingTyped DEF Start, Inv, TypeOK
<1>6. twice' \subseteq Jobs
  BY DEF Start, Inv, TypeOK
<1>7. file \in Pages /\ rec.at # "idle" /\ ~ At(p, "idle")
  BY <1>2 DEF Start, At, Inv, TypeOK, Pages
<1> HIDE DEF rec
<1> QED BY <1>4, <1>5, <1>6, <1>7, TickStep DEF rec, Start, Inv, TypeOK, Outside

LEMMA StrayTyped ==
    ASSUME Inv, NEW j \in Jobs, Returns(j)
    PROVE  stray' \subseteq Jobs
  BY DEF Returns, Inv, TypeOK

LEMMA InvMarkLoad ==
    ASSUME Inv, NEW p \in Procs, NEW j \in Jobs, MarkLoad(p, j) PROVE Inv'
<1> DEFINE rec == [proc[p] EXCEPT !.at = "marking", !.job = j, !.page = file]
<1>1. file \in Pages /\ proc[p] \in Ticks
  BY DEF Inv, TypeOK, Pages, Working, TickOK
<1>2. TickOK(rec)
  BY <1>1 DEF TickOK, Alone, Ticks, Inv, Working
<1>3. rec.at # "idle" /\ ~ At(p, "idle")
  BY <1>1 DEF MarkLoad, At, Ticks
<1> HIDE DEF rec
<1>4. stray' \subseteq Jobs
  BY StrayTyped DEF MarkLoad
<1> QED BY <1>1, <1>2, <1>3, <1>4, TickStep DEF rec, MarkLoad, Inv, TypeOK, History

LEMMA InvStrayEnds ==
    ASSUME Inv, NEW j \in Jobs, StrayEnds(j) PROVE Inv'
<1>1. stray' \subseteq Jobs
  BY DEF StrayEnds, Inv, TypeOK
<1>2. TypeOK'
  BY <1>1 DEF StrayEnds, NoSave, Inv, TypeOK, At, Outside, History
<1>3. Working'
  BY DEF StrayEnds, Inv, Working, Outside
<1> QED BY <1>2, <1>3 DEF Inv

LEMMA InvMarkSave == ASSUME Inv, NEW p \in Procs, MarkSave(p) PROVE Inv'
<1> DEFINE j    == proc[p].job
           page == proc[p].page
           jobs == [page EXCEPT ![j] = Marked(j, @)]
           rec  == [proc[p] EXCEPT !.at = "advance", !.job = Nobody,
                       !.page = NoPage, !.running = @ \ {j}]
<1>1. page \in Pages /\ proc[p] \in Ticks /\ j \in Jobs /\ Alone(proc[p])
  BY DEF MarkSave, At, Inv, Working, TickOK, Ticks
<1>2. jobs \in Pages
  BY <1>1, MarkTyped DEF Pages
<1>3. rec \in Ticks /\ rec.at = "advance" /\ rec.running = proc[p].running \ {j}
  BY <1>1, JobTyped DEF Ticks
<1>4. TickOK(rec)
  BY <1>1, <1>3 DEF TickOK, Alone
<1>5. owed' \in [Jobs -> 0..2]
  BY <1>1, OwingTyped DEF MarkSave, Inv, TypeOK
<1>6. Local(p, rec) /\ (Save(p, jobs) \/ NoSave)
  BY DEF MarkSave
<1>7. served' \subseteq Jobs
  BY <1>1 DEF MarkSave, Inv, TypeOK
<1>8. rec.at # "idle" /\ ~ At(p, "idle")
  BY <1>3 DEF MarkSave, At
<1> HIDE DEF rec, jobs
<1> QED BY <1>2, <1>4, <1>5, <1>6, <1>7, <1>8, TickStep DEF MarkSave, Inv, TypeOK

LEMMA InvEnd == ASSUME Inv, NEW p \in Procs, End(p) PROVE Inv'
  BY Released DEF End, At, Outside, Inv, TypeOK

LEMMA InvCrash == ASSUME Inv, NEW p \in Procs, Crash(p) PROVE Inv'
<1>1. stray' \subseteq Jobs
  BY DEF Crash, Inv, TypeOK
<1> QED BY <1>1, Released DEF Crash

-----------------------------------------------------------------------------
(* Edits, and time.                                                        *)

LEMMA InvLoad ==
    ASSUME Inv, NEW e \in Editors, NEW op \in Ops, NEW j \in Jobs, Load(e, op, j)
    PROVE  Inv'
<1> DEFINE rec == [op |-> op, job |-> j, page |-> file]
<1>1. file \in Pages
  BY DEF Inv, TypeOK, Pages
<1>2. EditOK(rec)
  BY <1>1 DEF EditOK, Edits
<1>3. edit' \in [Editors -> Edits] /\ \A d \in Editors : EditOK(edit'[d])
  BY <1>2, EditStep DEF Load, Inv
<1>4. /\ file' \in [Jobs -> Job] /\ dirty' \subseteq Procs \union Editors
      /\ lost' \in BOOLEAN
  BY <1>1, FileStep DEF Load, Inv
<1>5. TypeOK'
  BY <1>4 DEF Load, Inv, TypeOK, At, History
<1>6. Working'
  BY <1>3 DEF Load, Inv, Working
<1> QED BY <1>5, <1>6 DEF Inv

LEMMA InvEditSave == ASSUME Inv, NEW e \in Editors, EditSave(e) PROVE Inv'
<1> DEFINE op   == edit[e].op
           j    == edit[e].job
           page == edit[e].page
           jobs == [page EXCEPT ![j] = Changed(op, j, @)]
<1>1. page \in Pages /\ op \in Ops /\ j \in Jobs
  BY DEF EditSave, Inv, Working, EditOK, Edits
<1>2. jobs \in Pages
  BY <1>1, ChangeTyped DEF Pages, Inv, TypeOK
<1>3. Save(e, jobs)
  BY DEF EditSave
<1>4. /\ file' \in [Jobs -> Job] /\ dirty' \subseteq Procs \union Editors
      /\ lost' \in BOOLEAN
  BY <1>2, <1>3, FileStep DEF Inv
<1>5. edit' \in [Editors -> Edits] /\ \A d \in Editors : EditOK(edit'[d])
  BY IdleOK, EditStep DEF EditSave, Inv
<1>6. owed' \in [Jobs -> 0..2]
  <2>1. owed[j] + 1 \in Nat
    BY <1>1 DEF Inv, TypeOK
  <2> QED BY <1>1, <2>1, OwingTyped DEF EditSave, Inv, TypeOK
<1>7. edited' \subseteq Jobs
  BY <1>1 DEF EditSave, Inv, TypeOK
<1>8. TypeOK'
  BY <1>4, <1>6, <1>7 DEF EditSave, Inv, TypeOK, At
<1>9. Working'
  BY <1>5 DEF EditSave, Inv, Working
<1> QED BY <1>8, <1>9 DEF Inv

LEMMA InvAge ==
    ASSUME Inv, NEW j \in Jobs, NEW when \in {"ahead", "due"}, Age(j, when)
    PROVE  Inv'
<1> DEFINE to(jobs) == IF j \in Recurring \/ when = "ahead"
                       THEN Aged(jobs, j, when) ELSE jobs
<1>1. \A jobs \in Pages : to(jobs) \in Pages
  BY AgeTyped
<1>2. /\ file' = to(file)
      /\ proc' = [p \in Procs |-> [proc[p] EXCEPT !.page = to(proc[p].page)]]
      /\ edit' = [e \in Editors |-> [edit[e] EXCEPT !.page = to(edit[e].page)]]
  BY DEF Age
<1> HIDE DEF to
<1>3. file' \in [Jobs -> Job]
  BY <1>1, <1>2 DEF Inv, TypeOK, Pages
<1>4. ASSUME NEW p \in Procs
      PROVE  proc'[p] \in Ticks /\ TickOK(proc'[p]) /\ proc'[p].at = proc[p].at
  <2>1. proc[p] \in Ticks /\ TickOK(proc[p])
    BY DEF Inv, Working
  <2>2. to(proc[p].page) \in Pages
    BY <1>1, <2>1 DEF Ticks
  <2> QED BY <1>2, <2>1, <2>2 DEF TickOK, Alone, Ticks
<1>5. ASSUME NEW e \in Editors
      PROVE  edit'[e] \in Edits /\ EditOK(edit'[e])
  <2>1. edit[e] \in Edits /\ EditOK(edit[e])
    BY DEF Inv, Working
  <2>2. to(edit[e].page) \in Pages
    BY <1>1, <2>1 DEF Edits
  <2> QED BY <1>2, <2>1, <2>2 DEF EditOK, Edits
<1>6. runAt' \in [Jobs \ Recurring -> {"ahead", "due", "stale"}]
  BY DEF Age, Inv, TypeOK, Older
<1>7. owed' \in [Jobs -> 0..2]
  <2>1. owed[j] + 1 \in Nat
    BY DEF Inv, TypeOK
  <2> QED BY <2>1, OwingTyped DEF Age, Inv, TypeOK
<1>8. TypeOK'
  BY <1>3, <1>4, <1>6, <1>7 DEF Age, Inv, TypeOK, At
<1>9. Working'
  <2>1. proc' \in [Procs -> Ticks]
    BY <1>2, <1>4
  <2>2. edit' \in [Editors -> Edits]
    BY <1>2, <1>5
  <2> QED BY <1>4, <1>5, <2>1, <2>2 DEF Working
<1> QED BY <1>8, <1>9 DEF Inv

-----------------------------------------------------------------------------
(* The invariant, and what follows from it.                                *)

LEMMA InvInit == Init => Inv
<1> SUFFICES ASSUME Init PROVE Inv
  OBVIOUS
<1>1. runAt \in [Jobs \ Recurring -> {"ahead", "due", "stale"}]
  BY DEF Init
<1>2. \A j \in Jobs : file[j] \in Job
  BY <1>1, WhenTyped, JobTyped DEF Init
<1>3. file \in [Jobs -> Job]
  <2>1. file = [j \in Jobs |-> file[j]]
    BY DEF Init
  <2> QED BY <1>2, <2>1
<1>4. \A p \in Procs : proc[p] = Idle /\ proc[p].at = "idle" /\ lock # p
  BY DEF Init, Idle
<1>5. TypeOK
  <2>1. owed \in [Jobs -> 0..2]
    BY DEF Init
  <2>2. \A p \in Procs : At(p, "idle") <=> lock # p
    BY <1>4 DEF At
  <2>3. lock \in Procs \union {Nobody} /\ dirty \subseteq Procs \union Editors
    BY DEF Init
  <2>5. stray \subseteq Jobs
    BY DEF Init
  <2>4. twice \union served \union edited \subseteq Jobs /\ lost \in BOOLEAN
    BY DEF Init
  <2> QED BY <1>1, <1>3, <2>1, <2>2, <2>3, <2>4, <2>5 DEF TypeOK
<1>6. Idle \in Ticks /\ NoEdit \in Edits
  BY IdleOK DEF TickOK, EditOK
<1>7. Working
  BY <1>6, IdleOK DEF Init, Working
<1> QED BY <1>5, <1>7 DEF Inv

LEMMA InvNext == Inv /\ [Next]_vars => Inv'
<1> SUFFICES ASSUME Inv, [Next]_vars PROVE Inv'
  OBVIOUS
<1>1. CASE \E j \in Jobs, when \in {"ahead", "due"} : Age(j, when)
  BY <1>1, InvAge
<1>2. ASSUME NEW p \in Procs, Tick(p) PROVE Inv'
  BY <1>2, InvBegin, InvSift, InvAdvanceLoad, InvAdvanceSave, InvStart,
     InvMarkLoad, InvMarkSave, InvEnd DEF Tick
<1>3. CASE \E p \in Procs : Tick(p) \/ Crash(p)
  BY <1>2, <1>3, InvCrash
<1>7. CASE \E j \in Jobs : StrayEnds(j)
  BY <1>7, InvStrayEnds
<1>4. CASE \E e \in Editors, op \in Ops, j \in Jobs : Load(e, op, j)
  BY <1>4, InvLoad
<1>5. CASE \E e \in Editors : EditSave(e)
  BY <1>5, InvEditSave
<1>6. CASE UNCHANGED vars
  BY <1>6 DEF Inv, TypeOK, Working, At, vars
<1> QED BY <1>1, <1>3, <1>4, <1>5, <1>6, <1>7 DEF Next

\* Whatever ticks, edits and crashes come together, jobs.json, the lock and
\* the copies that operations work on are of their types, and the process
\* whose tick is on (tick, cron/scheduler.py) is the one that holds the lock.
THEOREM TypeCorrect == Spec => []TypeOK
<1>1. Inv => TypeOK
  BY DEF Inv
<1> QED BY <1>1, InvInit, InvNext, PTL DEF Spec

LEMMA AloneByInv == Inv => RunAlone
<1> SUFFICES ASSUME Inv PROVE RunAlone
  OBVIOUS
<1>1. ASSUME NEW j \in Jobs
      PROVE  Cardinality({p \in Procs : j \in proc[p].running}) <= 1
  <2> DEFINE S == {p \in Procs : j \in proc[p].running}
\* What runs anywhere runs in the process that holds the lock.
  <2>1. S \subseteq {lock}
    BY DEF Inv, TypeOK, At, Working, TickOK
  <2>2. IsFiniteSet({lock}) /\ Cardinality({lock}) = 1
    BY FS_Singleton
  <2> HIDE DEF S
  <2>3. Cardinality(S) <= 1
    BY <2>1, <2>2, FS_Subset
  <2> QED BY <2>3 DEF S
<1>2. ASSUME NEW p \in Procs, proc[p].running \intersect Workdir # {}
      PROVE  Cardinality(proc[p].running) = 1
  <2>1. PICK j \in Jobs : proc[p].running = {j}
    BY <1>2 DEF Inv, Working, TickOK, Alone
  <2> QED BY <2>1, FS_Singleton
<1> QED BY <1>1, <1>2 DEF RunAlone

\* No job has two runs at the same time, in one process or in two, and one with
\* a workdir has no run beside it, for any number of processes, jobs, edits and
\* crashes, and of agents that go on after their run was given up (tick and its
\* two passes, run_job, cron/scheduler.py).
THEOREM RunsAlone == Spec => []RunAlone
<1> QED BY InvInit, InvNext, AloneByInv, PTL DEF Spec

-----------------------------------------------------------------------------
(* Once for each time.  Without a lost save, what is worked on is what is  *)
(* in the file, and a recurring job that may start has a time it is owed.  *)

Copying == {"sift", "advancing", "marking"}
Came(job) == job.next \in {"due", "stale"}
Clean(job) == job.here \/ (~ job.enabled /\ job.next = "none")

\* Which jobs a tick is about: those it found due, or will.
Touched(t) == t.due \union t.running \union {j \in Jobs : t.at = "sift" /\ t.page[j].here}
Ordered(t) ==
    /\ t.advance \subseteq t.due /\ t.due \intersect t.running = {}
    /\ t.at \in {"idle", "sift"} => t.due = {}
    /\ t.at = "advancing" => t.job \in t.advance
    /\ t.at = "marking" => t.job \in t.running
Fresh ==
    /\ \A p \in Procs : proc[p].at \in Copying => p \in dirty \/ proc[p].page = file
    /\ \A e \in Editors : edit[e].op # "none" =>
           /\ e \in dirty \/ edit[e].page = file
           /\ edit[e].page[edit[e].job].here <=> edit[e].op # "create"
Quiet ==
    /\ edits \in Nat
    /\ edits = 0 => ~ lost /\ dirty = {} /\ \A e \in Editors : edit[e].op = "none"

\* Until it starts, a job that is due has a time it is owed; one that was
\* advanced and came up again has two.
Owes(t, j) ==
    /\ t.at = "sift" /\ Came(t.page[j]) => owed[j] > 0
    /\ j \in t.due => owed[j] > 0
    /\ j \in t.due \ t.advance /\ Came(file[j]) => owed[j] > 1
    /\ t.at = "advancing" /\ t.job = j /\ (t.page[j].here => t.page[j].next = "ahead")
           /\ Came(file[j]) => owed[j] > 1
    /\ t.at \in {"advancing", "marking"} /\ t.job = j /\ ~ t.page[j].here => ~ file[j].here
    /\ j \in Touched(t) => file[j].here \/ j \in edited
Unborn(e) ==
    edit[e].op = "create" /\ e \notin dirty /\ edit[e].job \in Recurring =>
        \A p \in Procs : edit[e].job \notin Touched(proc[p])
Careful ==
    /\ twice = {}
    /\ \A j \in Jobs : Clean(file[j])
    /\ \A j \in Recurring : Came(file[j]) => owed[j] > 0
    /\ \A p \in Procs, j \in Recurring : Owes(proc[p], j)
    /\ \A e \in Editors : Unborn(e)

CareInv ==
    /\ Inv /\ Fresh /\ Quiet /\ \A p \in Procs : Ordered(proc[p])
    /\ ~ lost => Careful

LEMMA IdleIsCareful ==
    ASSUME NEW t \in Ticks, t.at = "idle", t.due = {}, t.running = {}
    PROVE  Touched(t) = {} /\ \A j \in Jobs : Owes(t, j)
  BY DEF Touched, Owes

\* The others are idle while one process ticks.
LEMMA OthersIdle ==
    ASSUME CareInv, NEW p \in Procs, lock \in {p, Nobody}, NEW q \in Procs, q # p
    PROVE  /\ proc[q] \in Ticks /\ proc[q].at = "idle" /\ proc[q].due = {}
           /\ proc[q].running = {}
  BY DEF CareInv, Inv, TypeOK, At, Working, TickOK, Ordered

\* A step of a tick, from what it does to the file and to the jobs owed.
LEMMA TickCare ==
    ASSUME CareInv, Inv', NEW p \in Procs, lock \in {p, Nobody},
           NEW rec, TickOK(rec), Ordered(rec), Local(p, rec),
           NEW jobs \in Pages,
           \/ Save(p, jobs) /\ rec.at \notin Copying
           \/ Loads(p) /\ rec.page = file
           \/ NoSave /\ rec.at \notin Copying,
           UNCHANGED <<edit, edits, edited>>,
           \A j \in Touched(rec) : j \in Touched(proc[p]) \/ file[j].here,
           ~ lost' => /\ twice' = {}
                      /\ \A j \in Jobs : Clean(file'[j])
                      /\ \A j \in Recurring : Came(file'[j]) => owed'[j] > 0
                      /\ \A j \in Recurring : Owes(proc[p], j)'
    PROVE  CareInv'
<1>1. \A q \in Procs : proc'[q] = IF q = p THEN rec ELSE proc[q]
  BY ProcStep DEF CareInv, Inv
<1>2. p \notin Editors /\ \A e \in Editors : e # p
  OBVIOUS
<1>3. \A q \in Procs : Ordered(proc'[q])
  BY <1>1 DEF CareInv
<1>4. ASSUME NEW q \in Procs, proc'[q].at \in Copying
      PROVE  q \in dirty' \/ proc'[q].page = file'
  <2>1. CASE q = p
    BY <1>1, <1>4, <2>1 DEF Loads
  <2>2. CASE q # p
    BY <1>1, <1>4, <2>2, OthersIdle DEF Copying
  <2> QED BY <2>1, <2>2
<1>5. ASSUME NEW e \in Editors, edit[e].op # "none"
      PROVE  e \in dirty' \/ (e \notin dirty /\ file' = file)
  <2>1. CASE Save(p, jobs)
    BY <1>2, <1>5, <2>1 DEF Save, Loaded
  <2>2. CASE Loads(p)
    BY <1>2, <2>2 DEF Loads
  <2>3. CASE NoSave
    BY <2>3 DEF NoSave
  <2> QED BY <2>1, <2>2, <2>3
<1>6. Fresh'
  <2>1. ASSUME NEW e \in Editors, edit[e].op # "none"
        PROVE  e \in dirty' \/ edit[e].page = file'
    BY <1>5, <2>1 DEF CareInv, Fresh
  <2> QED BY <1>4, <2>1 DEF CareInv, Fresh
<1>7. Quiet'
  <2> SUFFICES ASSUME edits = 0 PROVE ~ lost' /\ dirty' = {}
    BY DEF CareInv, Quiet
  <2>1. ~ lost /\ dirty = {} /\ \A e \in Editors : edit[e].op = "none"
    BY DEF CareInv, Quiet
  <2>2. Loaded \ {p} = {}
    BY <2>1, OthersIdle DEF Loaded
  <2>3. CASE Save(p, jobs)
    BY <2>1, <2>2, <2>3 DEF Save
  <2>4. CASE Loads(p)
    BY <2>1, <2>4 DEF Loads
  <2>5. CASE NoSave
    BY <2>1, <2>5 DEF NoSave
  <2> QED BY <2>3, <2>4, <2>5
<1>8. ASSUME ~ lost' PROVE Careful'
  <2>1. ~ lost /\ Careful
    <3>1. lost => lost'
      <4>1. Save(p, jobs) => (lost => lost')
        BY DEF Save
      <4>2. Loads(p) \/ NoSave => lost' = lost
        BY DEF Loads, NoSave
      <4> QED BY <4>1, <4>2
    <3> QED BY <1>8, <3>1 DEF CareInv
  <2>2. ASSUME NEW q \in Procs, NEW j \in Recurring PROVE Owes(proc[q], j)'
    <3>1. CASE q = p
      BY <1>8, <3>1
    <3>2. CASE q # p
      <4>1. proc'[q] = proc[q] /\ proc[q].at = "idle" /\ proc[q].due = {} /\ proc[q].running = {}
        BY <1>1, <3>2, OthersIdle
      <4> QED BY <4>1 DEF Owes, Touched
    <3> QED BY <3>1, <3>2
  <2>3. ASSUME NEW e \in Editors PROVE Unborn(e)'
    <3> SUFFICES ASSUME edit[e].op = "create", e \notin dirty', edit[e].job \in Recurring,
                        NEW q \in Procs
                 PROVE  edit[e].job \notin Touched(proc'[q])
      BY DEF Unborn, Touched
    <3>1. e \notin dirty /\ edit[e].page = file /\ ~ file[edit[e].job].here
      BY <1>5 DEF CareInv, Fresh
    <3>2. CASE q = p
      BY <1>1, <2>1, <3>1, <3>2 DEF Careful, Unborn
    <3>3. CASE q # p
      BY <1>1, <3>3, OthersIdle, IdleIsCareful
    <3> QED BY <3>2, <3>3
  <2> QED BY <1>8, <2>2, <2>3 DEF Careful
<1> QED BY <1>3, <1>6, <1>7, <1>8 DEF CareInv

\* What is saved without a loss was changed from what is in the file.
LEMMA SavedFile ==
    ASSUME CareInv, NEW p \in Procs, proc[p].at \in Copying, NEW jobs, Save(p, jobs), ~ lost'
    PROVE  file' = jobs /\ proc[p].page = file /\ Careful
<1>1. file' = jobs /\ proc[p].page = file /\ ~ lost
  BY DEF CareInv, Fresh, Save
<1> QED BY <1>1 DEF CareInv

LEMMA Ticking ==
    ASSUME CareInv, NEW p \in Procs, ~ At(p, "idle")
    PROVE  /\ lock = p /\ proc[p] \in Ticks /\ proc[p].page \in Pages /\ TickOK(proc[p])
           /\ Ordered(proc[p]) /\ file \in Pages /\ owed \in [Jobs -> 0..2]
  BY DEF CareInv, Inv, TypeOK, Working, TickOK, Ticks, Pages

-----------------------------------------------------------------------------
LEMMA CareBegin == ASSUME CareInv, NEW p \in Procs, Begin(p) PROVE CareInv'
<1> DEFINE rec == [Idle EXCEPT !.at = "sift", !.page = file]
<1>1. Inv' /\ file \in Pages /\ lock = Nobody
  BY InvBegin DEF CareInv, Begin, Inv, TypeOK, Pages
<1>2. /\ rec.at = "sift" /\ rec.page = file /\ rec.advance = {} /\ rec.due = {}
      /\ rec.running = {} /\ rec \in Ticks
  BY <1>1, JobTyped DEF Idle, Ticks
<1>3. TickOK(rec) /\ Ordered(rec)
  BY <1>2 DEF TickOK, Alone, Ordered
<1>4. \A j \in Touched(rec) : file[j].here
  BY <1>2 DEF Touched
<1>5. Local(p, rec) /\ Loads(p) /\ proc'[p] = rec
  BY DEF Begin, Local, CareInv, Inv, Working
<1> HIDE DEF rec
<1>6. ASSUME ~ lost'
      PROVE  /\ twice' = {}
             /\ \A j \in Jobs : Clean(file'[j])
             /\ \A j \in Recurring : Came(file'[j]) => owed'[j] > 0
             /\ \A j \in Recurring : Owes(proc[p], j)'
  <2>1. Careful /\ file' = file
    BY <1>5, <1>6 DEF Loads, CareInv
  <2>2. owed' = owed /\ edited' = edited /\ twice' = twice
    BY DEF Begin, History
  <2>3. ASSUME NEW j \in Recurring PROVE Owes(proc[p], j)'
    BY <1>2, <1>4, <1>5, <2>1, <2>2 DEF Owes, Careful, Touched
  <2> QED BY <2>1, <2>2, <2>3 DEF Careful
<1> QED BY <1>1, <1>2, <1>3, <1>4, <1>5, <1>6, TickCare DEF Begin, Outside, History

\* What a sift leaves due came up, and was not skipped.
LEMMA SiftFacts ==
    ASSUME NEW j \in Recurring, NEW job \in Job, Clean(job)
    PROVE  LET s == Sifted(j, job)
           IN  /\ s.here = job.here /\ s.enabled = job.enabled /\ Clean(s)
               /\ Came(s) => s.next = job.next
               /\ s.enabled => s.next # "stale"
<1>1. job.enabled \in BOOLEAN /\ job.next \in Whens
  BY DEF Job
<1>2. Recovered(j, job) = IF job.enabled /\ job.next = "none" THEN [job EXCEPT !.next = "ahead"] ELSE job
  BY DEF Recovered, NextRun
<1> QED BY <1>1, <1>2 DEF Sifted, Came, Clean, Job, Whens

LEMMA CareSift == ASSUME CareInv, NEW p \in Procs, Sift(p) PROVE CareInv'
<1> DEFINE page == proc[p].page
           jobs == [j \in Jobs |-> Sifted(j, page[j])]
           due  == {j \in Jobs : Due(j, jobs[j])}
           rec  == [Idle EXCEPT !.at = "advance", !.advance = due, !.due = due]
<1>1. proc[p].at = "sift" /\ Inv' /\ ~ At(p, "idle")
  BY InvSift DEF CareInv, Sift, At
<1>2. /\ lock = p /\ proc[p] \in Ticks /\ page \in Pages /\ Ordered(proc[p]) /\ file \in Pages
      /\ owed \in [Jobs -> 0..2]
  BY <1>1, Ticking
<1>3. jobs \in Pages
  BY <1>2, SiftTyped DEF Pages, CareInv, Inv, TypeOK
<1>4. Local(p, rec) /\ (Save(p, jobs) \/ (jobs = page /\ NoSave))
  BY DEF Sift
<1>5. owed' = [j \in Jobs |-> IF page[j].next = "stale" /\ jobs[j].next = "ahead"
                              THEN 0 ELSE owed[j]]
  BY DEF Sift
<1>6. \A j \in due : jobs[j].here /\ jobs[j].enabled /\ Came(jobs[j])
  BY DEF Due, Came
<1>7. due \subseteq Jobs
  OBVIOUS
<1> HIDE DEF due
<1>8. /\ rec.at = "advance" /\ rec.advance = due /\ rec.due = due
      /\ rec.running = {} /\ rec \in Ticks
  BY <1>7, JobTyped DEF Idle, Ticks
<1>9. TickOK(rec) /\ Ordered(rec) /\ Touched(rec) = due
  BY <1>8 DEF TickOK, Alone, Ordered, Touched
<1>10. proc'[p] = rec
  BY <1>4 DEF Local, CareInv, Inv, Working
<1> HIDE DEF rec
<1>11. \A j \in Jobs : jobs[j] = Sifted(j, page[j]) /\ page[j] \in Job
  BY <1>2 DEF Pages
<1> HIDE DEF jobs
<1>12. \A j \in Jobs : jobs[j].here = page[j].here
  BY <1>11 DEF Sifted, Recovered, Job
<1>13. \A j \in Touched(rec) : j \in Touched(proc[p])
  BY <1>1, <1>6, <1>7, <1>9, <1>12 DEF Touched
<1>14. ASSUME ~ lost'
       PROVE  /\ twice' = {}
              /\ \A j \in Jobs : Clean(file'[j])
              /\ \A j \in Recurring : Came(file'[j]) => owed'[j] > 0
              /\ \A j \in Recurring : Owes(proc[p], j)'
  <2>1. Careful /\ ((file' = jobs /\ page = file) \/ (file' = file /\ jobs = page))
    <3>1. CASE Save(p, jobs)
      BY <1>1, <1>14, <3>1, SavedFile DEF Copying
    <3>2. CASE jobs = page /\ NoSave
      BY <1>14, <3>2 DEF NoSave, CareInv
    <3> QED BY <1>4, <3>1, <3>2
  <2>2. twice' = {} /\ edited' = edited
    BY <2>1 DEF Sift, History, Careful
  <2>3. ASSUME NEW j \in Jobs PROVE Clean(file'[j])
    <3>1. CASE file' = file
      BY <2>1, <3>1 DEF Careful
    <3>2. CASE file' = jobs /\ page = file
      <4>1. Clean(page[j])
        BY <2>1, <3>2 DEF Careful
      <4> QED BY <1>11, <3>2, <4>1 DEF Clean, Sifted, Recovered, Job
    <3> QED BY <2>1, <3>1, <3>2
\* A time that is still there after the sift was there before, and is owed.
  <2>4. ASSUME NEW j \in Recurring, Came(jobs[j])
        PROVE  owed'[j] > 0
    <3>1. jobs[j].next = page[j].next
      <4>1. CASE Clean(page[j])
        BY <1>11, <2>4, <4>1, SiftFacts
      <4>2. CASE ~ Clean(page[j])
        BY <1>11, <2>4, <4>2 DEF Clean, Sifted, Recovered, Came, NextRun, Job, Whens
      <4> QED BY <4>1, <4>2
    <3>2. owed[j] > 0
      BY <1>1, <2>1, <2>4, <3>1 DEF Came, Careful, Owes
    <3> QED BY <1>5, <3>1, <3>2
  <2>5. ASSUME NEW j \in Recurring, Came(file'[j]) PROVE owed'[j] > 0
    <3>1. CASE file' = jobs
      BY <2>4, <2>5, <3>1
    <3>2. CASE file' = file /\ jobs = page
      <4>1. owed'[j] = owed[j]
        BY <1>5, <3>2
      <4> QED BY <2>1, <2>5, <3>2, <4>1 DEF Careful
    <3> QED BY <2>1, <3>1, <3>2
  <2>6. ASSUME NEW j \in Recurring PROVE Owes(proc[p], j)'
    <3>1. j \in due => owed'[j] > 0
      BY <1>6, <2>4
    <3>2. j \in due => file'[j].here \/ j \in edited'
      BY <1>1, <1>6, <1>12, <2>1, <2>2 DEF Careful, Owes, Touched
    <3> QED BY <1>8, <1>9, <1>10, <3>1, <3>2 DEF Owes, Touched
  <2> QED BY <2>2, <2>3, <2>5, <2>6
<1>15. Save(p, jobs) \/ NoSave
  BY <1>4
<1>16. rec.at \notin Copying
  BY <1>8 DEF Copying
<1>17. UNCHANGED <<edit, edits, edited>>
  BY DEF Sift, Outside, History
<1> QED BY <1>1, <1>2, <1>3, <1>4, <1>9, <1>13, <1>14, <1>15, <1>16, <1>17, TickCare

LEMMA CareAdvanceLoad == ASSUME CareInv, NEW p \in Procs, AdvanceLoad(p) PROVE CareInv'
<1>1. PICK i \in proc[p].advance :
          Local(p, [proc[p] EXCEPT !.at = "advancing", !.job = i, !.page = file])
  BY DEF AdvanceLoad
<1> DEFINE rec == [proc[p] EXCEPT !.at = "advancing", !.job = i, !.page = file]
<1>2. proc[p].at = "advance" /\ Inv' /\ ~ At(p, "idle")
  BY InvAdvanceLoad DEF CareInv, AdvanceLoad, At
<1>3. /\ lock = p /\ proc[p] \in Ticks /\ TickOK(proc[p]) /\ Ordered(proc[p]) /\ file \in Pages
      /\ i \in Jobs
  BY <1>2, Ticking DEF Ticks
<1>4. /\ rec \in Ticks /\ rec.at = "advancing" /\ rec.job = i /\ rec.page = file
      /\ rec.advance = proc[p].advance /\ rec.due = proc[p].due
      /\ rec.running = proc[p].running
  BY <1>3 DEF Ticks
<1>5. TickOK(rec) /\ Ordered(rec) /\ Touched(rec) = Touched(proc[p])
  BY <1>2, <1>3, <1>4 DEF TickOK, Alone, Ordered, Touched
<1>6. Local(p, rec) /\ Loads(p) /\ proc'[p] = rec
  BY <1>1 DEF AdvanceLoad, Local, CareInv, Inv, Working
<1> HIDE DEF rec
<1>7. ASSUME ~ lost'
      PROVE  /\ twice' = {}
             /\ \A j \in Jobs : Clean(file'[j])
             /\ \A j \in Recurring : Came(file'[j]) => owed'[j] > 0
             /\ \A j \in Recurring : Owes(proc[p], j)'
  <2>1. Careful /\ file' = file /\ owed' = owed /\ edited' = edited /\ twice' = twice
    BY <1>6, <1>7 DEF AdvanceLoad, Loads, CareInv, History
  <2>2. ASSUME NEW j \in Recurring PROVE Owes(proc[p], j)'
    <3>1. Owes(proc[p], j) /\ Clean(file[j])
      BY <2>1 DEF Careful
    <3>2. Touched(proc[p])' = Touched(proc[p])
      BY <1>5, <1>6 DEF Touched
    <3>3. (file[j].here => file[j].next = "ahead") => ~ Came(file[j])
      BY <3>1 DEF Clean, Came
    <3> QED BY <1>4, <1>6, <2>1, <3>1, <3>2, <3>3 DEF Owes
  <2> QED BY <2>1, <2>2 DEF Careful
<1>8. UNCHANGED <<edit, edits, edited>>
  BY DEF AdvanceLoad, Outside, History
<1>9. rec.page = file /\ \A j \in Touched(rec) : j \in Touched(proc[p])
  BY <1>4, <1>5
<1> QED BY <1>2, <1>3, <1>5, <1>6, <1>7, <1>8, <1>9, TickCare

LEMMA CareAdvanceSave == ASSUME CareInv, NEW p \in Procs, AdvanceSave(p) PROVE CareInv'
<1> DEFINE i    == proc[p].job
           page == proc[p].page
           jobs == [page EXCEPT ![i] = Advanced(i, page[i])]
           rec  == [proc[p] EXCEPT !.at = "advance", !.job = Nobody,
                       !.page = NoPage, !.advance = @ \ {i}]
<1>1. proc[p].at = "advancing" /\ Inv' /\ ~ At(p, "idle")
  BY InvAdvanceSave DEF CareInv, AdvanceSave, At
<1>2. /\ lock = p /\ proc[p] \in Ticks /\ TickOK(proc[p]) /\ Ordered(proc[p]) /\ file \in Pages
      /\ page \in Pages /\ owed \in [Jobs -> 0..2]
  BY <1>1, Ticking
<1>3. i \in proc[p].advance /\ i \in proc[p].due /\ i \in Jobs
  BY <1>1, <1>2 DEF Ordered, Ticks
<1>4. /\ rec \in Ticks /\ rec.at = "advance" /\ rec.advance = proc[p].advance \ {i}
      /\ rec.due = proc[p].due /\ rec.running = proc[p].running
  BY <1>2, JobTyped DEF Ticks
<1>5. TickOK(rec) /\ Ordered(rec) /\ Touched(rec) = Touched(proc[p])
  BY <1>1, <1>2, <1>4 DEF TickOK, Alone, Ordered, Touched
<1>6. Local(p, rec) /\ ((jobs # page /\ Save(p, jobs)) \/ (jobs = page /\ NoSave))
  BY DEF AdvanceSave
<1>7. proc'[p] = rec
  BY <1>6 DEF Local, CareInv, Inv, Working
<1>8. owed' = IF jobs # page /\ owed[i] > 0 THEN Owing(i, 1) ELSE owed
  BY DEF AdvanceSave
<1>9. /\ \A j \in Jobs : jobs[j] = IF j = i THEN Advanced(i, page[i]) ELSE page[j]
      /\ jobs \in Pages
  BY <1>2, <1>3, AdvanceTyped DEF Pages
<1>10. /\ page[i] \in Job /\ Advanced(i, page[i]).here = page[i].here
       /\ Clean(page[i]) => Clean(Advanced(i, page[i]))
       /\ i \in Recurring /\ page[i].here => Advanced(i, page[i]).next = "ahead"
       /\ ~ page[i].here => Advanced(i, page[i]) = page[i]
  BY <1>2, <1>3 DEF Pages, Advanced, Job, Clean
<1> HIDE DEF rec, jobs, page, i
<1>11. ASSUME ~ lost'
       PROVE  /\ twice' = {}
              /\ \A j \in Jobs : Clean(file'[j])
              /\ \A j \in Recurring : Came(file'[j]) => owed'[j] > 0
              /\ \A j \in Recurring : Owes(proc[p], j)'
  <2>1. Careful /\ ((file' = jobs /\ page = file) \/ (file' = file /\ jobs = page))
    <3>1. CASE Save(p, jobs)
      BY <1>1, <1>11, <3>1, SavedFile DEF Copying, page
    <3>2. CASE jobs = page /\ NoSave
      BY <1>11, <3>2 DEF NoSave, CareInv
    <3> QED BY <1>6, <3>1, <3>2
  <2>2. twice' = {} /\ edited' = edited
    BY <2>1 DEF AdvanceSave, History, Careful
  <2>3. \A j \in Jobs : j # i => file'[j] = file[j] /\ owed'[j] = owed[j]
    BY <1>2, <1>8, <1>9, <2>1 DEF Owing
  <2>4. Clean(file'[i]) /\ file'[i].here = file[i].here
    BY <1>3, <1>9, <1>10, <2>1 DEF Careful
\* What was advanced is not due again, unless it came up meanwhile.
  <2>5. ASSUME i \in Recurring PROVE owed'[i] > 0 /\ (Came(file'[i]) => owed'[i] > 1)
    <3>1. Owes(proc[p], i) /\ owed[i] > 0
      BY <1>3, <2>1, <2>5 DEF Careful, Owes
    <3>2. CASE jobs # page
      <4>1. file' = jobs /\ page = file
        BY <2>1, <3>2
      <4>2. file'[i] = Advanced(i, page[i]) /\ page[i].here
        <5>1. page[i].here
          <6>1. SUFFICES ASSUME ~ page[i].here PROVE FALSE
            OBVIOUS
          <6>2. jobs = [page EXCEPT ![i] = page[i]]
            BY <1>10, <6>1 DEF jobs
          <6>3. jobs = page
            BY <1>2, <6>2 DEF Pages
          <6> QED BY <3>2, <6>3
        <5> QED BY <1>3, <1>9, <4>1, <5>1
      <4>3. ~ Came(file'[i])
        BY <1>10, <2>5, <4>2 DEF Came
      <4>4. owed'[i] = 1
        BY <1>2, <1>3, <1>8, <3>1, <3>2 DEF Owing
      <4> QED BY <4>3, <4>4
    <3>3. CASE jobs = page
      <4>1. owed' = owed /\ file' = file
        BY <1>8, <2>1, <3>3
      <4>2. page[i].here => page[i].next = "ahead"
        BY <1>3, <1>9, <1>10, <2>5, <3>3
      <4>3. Came(file[i]) => owed[i] > 1
        BY <1>1, <3>1, <4>2 DEF Owes, i, page
      <4> QED BY <3>1, <4>1, <4>3
    <3> QED BY <3>2, <3>3
  <2>6. \A j \in Jobs : Clean(file'[j])
    BY <2>1, <2>3, <2>4 DEF Careful
  <2>7. \A j \in Recurring : Came(file'[j]) => owed'[j] > 0
    BY <2>1, <2>3, <2>5 DEF Careful
  <2>8. ASSUME NEW j \in Recurring PROVE Owes(proc[p], j)'
    <3>1. Owes(proc[p], j)
      BY <2>1 DEF Careful
    <3>2. Touched(proc[p])' = Touched(proc[p])
      BY <1>5, <1>7 DEF Touched
    <3>3. j = i => Owes(proc[p], j)'
      BY <1>4, <1>7, <2>2, <2>4, <2>5, <3>1, <3>2 DEF Owes
    <3>4. j # i => Owes(proc[p], j)'
      BY <1>4, <1>7, <2>2, <2>3, <3>1, <3>2 DEF Owes
    <3> QED BY <3>3, <3>4
  <2> QED BY <2>2, <2>6, <2>7, <2>8
<1>12. rec.at \notin Copying
  BY <1>4 DEF Copying
<1>13. UNCHANGED <<edit, edits, edited>>
  BY DEF AdvanceSave, Outside, History
<1> QED BY <1>1, <1>2, <1>5, <1>6, <1>9, <1>11, <1>12, <1>13, TickCare

LEMMA CareStart ==
    ASSUME CareInv, NEW p \in Procs, NEW i \in Jobs, Start(p, i) PROVE CareInv'
<1> DEFINE rec == [proc[p] EXCEPT !.due = @ \ {i}, !.running = @ \union {i}]
<1>1. /\ proc[p].at = "advance" /\ proc[p].advance = {} /\ i \in proc[p].due /\ Inv'
      /\ ~ At(p, "idle")
  BY InvStart DEF CareInv, Start, At
<1>2. /\ lock = p /\ proc[p] \in Ticks /\ Ordered(proc[p]) /\ file \in Pages
      /\ owed \in [Jobs -> 0..2]
  BY <1>1, Ticking
<1>3. /\ rec.at = "advance" /\ rec.advance = {} /\ rec.due = proc[p].due \ {i}
      /\ rec.running = proc[p].running \union {i}
  BY <1>1, <1>2 DEF Ticks
<1>4. Local(p, rec) /\ NoSave /\ proc'[p] = rec
  BY DEF Start, Local, CareInv, Inv, Working
<1>5. TickOK(rec)
  BY <1>1, <1>4 DEF Inv, Working
<1>6. Ordered(rec) /\ Touched(rec) = Touched(proc[p])
  BY <1>1, <1>2, <1>3 DEF Ordered, Touched
<1> HIDE DEF rec
<1>7. ASSUME ~ lost'
      PROVE  /\ twice' = {}
             /\ \A j \in Jobs : Clean(file'[j])
             /\ \A j \in Recurring : Came(file'[j]) => owed'[j] > 0
             /\ \A j \in Recurring : Owes(proc[p], j)'
  <2>1. Careful /\ file' = file /\ edited' = edited
    BY <1>4, <1>7 DEF Start, NoSave, CareInv
  <2>2. i \in Recurring => owed[i] > 0 /\ (Came(file[i]) => owed[i] > 1)
    BY <1>1, <2>1 DEF Careful, Owes
  <2>3. twice' = {}
    BY <1>2, <2>1, <2>2 DEF Start, Careful
  <2>4. \A j \in Jobs : j # i => owed'[j] = owed[j]
    BY <1>2 DEF Start, Owing
  <2>5. i \in Recurring => owed'[i] = owed[i] - 1
    BY <1>2, <2>2 DEF Start, Owing
  <2>6. \A j \in Recurring : Came(file'[j]) => owed'[j] > 0
    BY <1>2, <2>1, <2>2, <2>4, <2>5 DEF Careful
  <2>7. ASSUME NEW j \in Recurring PROVE Owes(proc[p], j)'
    <3>1. Owes(proc[p], j)
      BY <2>1 DEF Careful
    <3>2. Touched(proc[p])' = Touched(proc[p])
      BY <1>4, <1>6 DEF Touched
    <3> QED BY <1>1, <1>3, <1>4, <2>1, <2>4, <3>1, <3>2 DEF Owes
  <2> QED BY <2>1, <2>3, <2>6, <2>7 DEF Careful
<1>8. rec.at \notin Copying
  BY <1>3 DEF Copying
<1>9. UNCHANGED <<edit, edits, edited>>
  BY DEF Start, Outside
<1> QED BY <1>1, <1>2, <1>4, <1>5, <1>6, <1>7, <1>8, <1>9, TickCare

LEMMA CareMarkLoad ==
    ASSUME CareInv, NEW p \in Procs, NEW i \in Jobs, MarkLoad(p, i) PROVE CareInv'
<1> DEFINE rec == [proc[p] EXCEPT !.at = "marking", !.job = i, !.page = file]
<1>1. proc[p].at = "advance" /\ i \in proc[p].running /\ Inv' /\ ~ At(p, "idle")
  BY InvMarkLoad DEF CareInv, MarkLoad, At
<1>2. /\ lock = p /\ proc[p] \in Ticks /\ TickOK(proc[p]) /\ Ordered(proc[p]) /\ file \in Pages
  BY <1>1, Ticking
<1>3. /\ rec \in Ticks /\ rec.at = "marking" /\ rec.job = i /\ rec.page = file
      /\ rec.advance = proc[p].advance /\ rec.due = proc[p].due
      /\ rec.running = proc[p].running
  BY <1>2 DEF Ticks
<1>4. TickOK(rec) /\ Ordered(rec) /\ Touched(rec) = Touched(proc[p])
  BY <1>1, <1>2, <1>3 DEF TickOK, Alone, Ordered, Touched
<1>5. Local(p, rec) /\ Loads(p) /\ proc'[p] = rec
  BY DEF MarkLoad, Local, CareInv, Inv, Working
<1> HIDE DEF rec
<1>6. ASSUME ~ lost'
      PROVE  /\ twice' = {}
             /\ \A j \in Jobs : Clean(file'[j])
             /\ \A j \in Recurring : Came(file'[j]) => owed'[j] > 0
             /\ \A j \in Recurring : Owes(proc[p], j)'
  <2>1. Careful /\ file' = file /\ owed' = owed /\ edited' = edited /\ twice' = twice
    BY <1>5, <1>6 DEF MarkLoad, Loads, CareInv, History
  <2>2. ASSUME NEW j \in Recurring PROVE Owes(proc[p], j)'
    <3>1. Owes(proc[p], j)
      BY <2>1 DEF Careful
    <3>2. Touched(proc[p])' = Touched(proc[p])
      BY <1>4, <1>5 DEF Touched
    <3> QED BY <1>3, <1>5, <2>1, <3>1, <3>2 DEF Owes
  <2> QED BY <2>1, <2>2 DEF Careful
<1>7. UNCHANGED <<edit, edits, edited>>
  BY DEF MarkLoad, Outside, History
<1>8. rec.page = file /\ \A j \in Touched(rec) : j \in Touched(proc[p])
  BY <1>3, <1>4
<1> QED BY <1>1, <1>2, <1>4, <1>5, <1>6, <1>7, <1>8, TickCare

LEMMA CareMarkSave == ASSUME CareInv, NEW p \in Procs, MarkSave(p) PROVE CareInv'
<1> DEFINE i    == proc[p].job
           page == proc[p].page
           jobs == [page EXCEPT ![i] = Marked(i, page[i])]
           rec  == [proc[p] EXCEPT !.at = "advance", !.job = Nobody,
                       !.page = NoPage, !.running = @ \ {i}]
<1>1. proc[p].at = "marking" /\ Inv' /\ ~ At(p, "idle")
  BY InvMarkSave DEF CareInv, MarkSave, At
<1>2. /\ lock = p /\ proc[p] \in Ticks /\ Ordered(proc[p]) /\ file \in Pages
      /\ page \in Pages /\ owed \in [Jobs -> 0..2]
  BY <1>1, Ticking
<1>3. i \in proc[p].running /\ i \notin proc[p].due /\ i \in Jobs
  BY <1>1, <1>2 DEF Ordered, Ticks
<1>4. /\ rec \in Ticks /\ rec.at = "advance" /\ rec.advance = proc[p].advance
      /\ rec.due = proc[p].due /\ rec.running = proc[p].running \ {i}
  BY <1>2, JobTyped DEF Ticks
<1>5. Ordered(rec) /\ Touched(rec) = Touched(proc[p]) \ {i}
  BY <1>1, <1>2, <1>3, <1>4 DEF Ordered, Touched
<1>6. Local(p, rec) /\ ((page[i].here /\ Save(p, jobs)) \/ (~ page[i].here /\ NoSave))
  BY DEF MarkSave
<1>7. proc'[p] = rec
  BY <1>6 DEF Local, CareInv, Inv, Working
<1>8. TickOK(rec)
  BY <1>1, <1>7 DEF Inv, Working
<1>9. owed' = [owed EXCEPT ![i] = 0]
  BY DEF MarkSave, Owing
<1>10. /\ \A j \in Jobs : jobs[j] = IF j = i THEN Marked(i, page[i]) ELSE page[j]
       /\ jobs \in Pages
  BY <1>2, <1>3, MarkTyped DEF Pages
<1>11. page[i].here => /\ Clean(Marked(i, page[i]))
                       /\ i \in Recurring => ~ Came(Marked(i, page[i]))
  BY <1>2, <1>3 DEF Pages, Marked, NoJob, Job, Clean, Came
<1> HIDE DEF rec, jobs, page, i
<1>12. ASSUME ~ lost'
       PROVE  /\ twice' = {}
              /\ \A j \in Jobs : Clean(file'[j])
              /\ \A j \in Recurring : Came(file'[j]) => owed'[j] > 0
              /\ \A j \in Recurring : Owes(proc[p], j)'
  <2>1. Careful /\ \/ page[i].here /\ file' = jobs /\ page = file
                   \/ ~ page[i].here /\ file' = file
    <3>1. CASE page[i].here /\ Save(p, jobs)
      BY <1>1, <1>12, <3>1, SavedFile DEF Copying, page
    <3>2. CASE ~ page[i].here /\ NoSave
      BY <1>12, <3>2 DEF NoSave, CareInv
    <3> QED BY <1>6, <3>1, <3>2
  <2>2. twice' = {} /\ edited' = edited
    BY <2>1 DEF MarkSave, Careful
  <2>3. \A j \in Jobs : j # i => file'[j] = file[j] /\ owed'[j] = owed[j]
    BY <1>2, <1>9, <1>10, <2>1
\* A job that is gone when it is marked is gone for good.
  <2>4. Clean(file'[i]) /\ (i \in Recurring => ~ Came(file'[i]))
    <3>1. CASE page[i].here /\ file' = jobs
      BY <1>3, <1>10, <1>11, <3>1
    <3>2. CASE ~ page[i].here /\ file' = file
      <4>1. Clean(file[i]) /\ (i \in Recurring => Owes(proc[p], i))
        BY <1>3, <2>1 DEF Careful
      <4>2. i \in Recurring => ~ file[i].here
        BY <1>1, <3>2, <4>1 DEF Owes, i, page
      <4> QED BY <3>2, <4>1, <4>2 DEF Clean, Came
    <3> QED BY <2>1, <3>1, <3>2
  <2>5. \A j \in Jobs : Clean(file'[j])
    BY <2>1, <2>3, <2>4 DEF Careful
  <2>6. \A j \in Recurring : Came(file'[j]) => owed'[j] > 0
    BY <2>1, <2>3, <2>4 DEF Careful
  <2>7. ASSUME NEW j \in Recurring PROVE Owes(proc[p], j)'
    <3>1. Owes(proc[p], j)
      BY <2>1 DEF Careful
    <3>2. Touched(proc[p])' = Touched(rec)
      BY <1>7 DEF Touched
    <3>3. j = i => Owes(proc[p], j)'
      BY <1>3, <1>4, <1>5, <1>7, <3>2 DEF Owes
    <3>4. j # i => Owes(proc[p], j)'
      BY <1>4, <1>5, <1>7, <2>2, <2>3, <3>1, <3>2 DEF Owes
    <3> QED BY <3>3, <3>4
  <2> QED BY <2>2, <2>5, <2>6, <2>7
<1>13. rec.at \notin Copying /\ (Save(p, jobs) \/ NoSave)
  BY <1>4, <1>6 DEF Copying
<1>14. UNCHANGED <<edit, edits, edited>>
  BY DEF MarkSave, Outside
<1> QED BY <1>1, <1>2, <1>5, <1>6, <1>8, <1>10, <1>12, <1>13, <1>14, TickCare

\* A tick is over, with its end or with its process.
LEMMA CareReleased ==
    ASSUME CareInv, Inv', NEW p \in Procs, ~ At(p, "idle"), Local(p, Idle), NoSave,
           UNCHANGED <<edit, edits, owed, History>>
    PROVE  CareInv'
<1>1. /\ Idle \in Ticks /\ Idle.at = "idle" /\ Idle.due = {} /\ Idle.running = {}
      /\ Idle.advance = {} /\ Idle.at \notin Copying
  BY JobTyped DEF Idle, Ticks, Copying
<1>2. TickOK(Idle) /\ Ordered(Idle) /\ Touched(Idle) = {}
  BY <1>1, IdleOK, IdleIsCareful DEF Ordered
<1>3. lock = p /\ file \in Pages
  BY Ticking
<1>4. proc'[p] = Idle
  BY DEF Local, CareInv, Inv, Working
<1>5. ASSUME ~ lost'
      PROVE  /\ twice' = {}
             /\ \A j \in Jobs : Clean(file'[j])
             /\ \A j \in Recurring : Came(file'[j]) => owed'[j] > 0
             /\ \A j \in Recurring : Owes(proc[p], j)'
  <2>1. Careful /\ file' = file /\ twice' = twice /\ owed' = owed
    BY <1>5 DEF NoSave, CareInv, History
  <2>2. \A j \in Recurring : Owes(proc[p], j)'
    BY <1>1, <1>4 DEF Owes, Touched
  <2> QED BY <2>1, <2>2 DEF Careful
<1>6. UNCHANGED <<edit, edits, edited>>
  BY DEF History
<1> QED BY <1>1, <1>2, <1>3, <1>5, <1>6, TickCare

LEMMA CareEnd == ASSUME CareInv, NEW p \in Procs, End(p) PROVE CareInv'
<1>1. Inv' /\ ~ At(p, "idle")
  BY InvEnd DEF CareInv, End, At
<1> QED BY <1>1, CareReleased DEF End, Outside

LEMMA CareCrash == ASSUME CareInv, NEW p \in Procs, Crash(p) PROVE CareInv'
<1>1. Inv'
  BY InvCrash DEF CareInv
<1> QED BY <1>1, CareReleased DEF Crash

LEMMA CareStrayEnds ==
    ASSUME CareInv, NEW j \in Jobs, StrayEnds(j) PROVE CareInv'
<1>1. /\ UNCHANGED <<file, proc, edit, edits, owed, twice, edited, dirty, lost>>
      /\ Inv'
  BY InvStrayEnds DEF CareInv, StrayEnds, NoSave, Outside, History
<1>2. Fresh' /\ Quiet' /\ \A q \in Procs : Ordered(proc'[q])
  BY <1>1 DEF CareInv, Fresh, Quiet
<1>3. Careful => Careful'
  BY <1>1 DEF Careful, Owes, Touched, Unborn
<1> QED BY <1>1, <1>2, <1>3 DEF CareInv

-----------------------------------------------------------------------------
LEMMA CareLoad ==
    ASSUME CareInv, NEW e \in Editors, NEW op \in Ops, NEW j \in Jobs, Load(e, op, j)
    PROVE  CareInv'
<1> DEFINE rec == [op |-> op, job |-> j, page |-> file]
<1>1. Inv'
  BY InvLoad DEF CareInv
<1>2. /\ \A d \in Editors : edit'[d] = IF d = e THEN rec ELSE edit[d]
      /\ rec.op = op /\ rec.job = j /\ rec.page = file
  BY DEF Load, CareInv, Inv, Working
<1> HIDE DEF rec
<1>3. /\ file' = file /\ lost' = lost /\ dirty' = dirty \ {e} /\ proc' = proc
      /\ owed' = owed /\ twice' = twice /\ edited' = edited /\ edits' = edits + 1
      /\ \A p \in Procs : p # e
  BY DEF Load, Loads, History
<1>4. file[j].here <=> op # "create"
  BY DEF Load
<1>5. Fresh'
  BY <1>2, <1>3, <1>4 DEF CareInv, Fresh
<1>6. Quiet'
  BY <1>3 DEF CareInv, Quiet
<1>7. ASSUME ~ lost' PROVE Careful'
  <2>1. Careful
    BY <1>3, <1>7 DEF CareInv
\* A job that is not there, and was not edited, is nobody's.
  <2>2. ASSUME op = "create", j \in Recurring, NEW p \in Procs
        PROVE  j \notin Touched(proc[p])
    <3>1. j \notin edited /\ ~ file[j].here
      BY <1>4, <2>2 DEF Load
    <3> QED BY <2>1, <2>2, <3>1 DEF Careful, Owes
  <2>3. ASSUME NEW d \in Editors PROVE Unborn(d)'
    <3>1. \A p \in Procs : Touched(proc'[p]) = Touched(proc[p])
      BY <1>3
    <3>2. CASE d = e
      <4> SUFFICES ASSUME op = "create", j \in Recurring, NEW p \in Procs
                   PROVE  j \notin Touched(proc'[p])
        BY <1>2, <3>2 DEF Unborn, Touched
      <4> QED BY <2>2, <3>1
    <3>3. CASE d # e
      <4>1. Unborn(d) /\ edit'[d] = edit[d] /\ (d \in dirty' <=> d \in dirty)
        BY <1>2, <1>3, <2>1, <3>3 DEF Careful
      <4> QED BY <1>3, <4>1 DEF Unborn, Touched
    <3> QED BY <3>2, <3>3
  <2>4. ASSUME NEW p \in Procs, NEW i \in Recurring PROVE Owes(proc[p], i)'
    BY <1>3, <2>1 DEF Careful, Owes, Touched
  <2> QED BY <1>3, <2>1, <2>3, <2>4 DEF Careful
<1>8. \A p \in Procs : Ordered(proc'[p])
  BY <1>3 DEF CareInv
<1> QED BY <1>1, <1>5, <1>6, <1>7, <1>8 DEF CareInv

\* An edit brings no new time for a recurring job, a trigger apart.
LEMMA ChangeFacts ==
    ASSUME NEW op \in Ops, NEW j \in Jobs, NEW job \in Job, job.here <=> op # "create"
    PROVE  LET c == Changed(op, j, job)
           IN  /\ c.here <=> op # "remove"
               /\ Clean(c)
               /\ j \in Recurring /\ Came(c) => Came(job) \/ op = "trigger"
<1>1. j \in Recurring => NextRun(j) = "ahead" /\ New(j).next = "ahead"
  BY DEF NextRun, New, NoJob
<1>2. New(j).here /\ ~ NoJob.here /\ ~ NoJob.enabled /\ NoJob.next = "none"
  BY DEF New, NoJob
<1>3. CASE op = "create"
  BY <1>1, <1>2, <1>3 DEF Changed, Clean, Came
<1>4. CASE op = "update"
  BY <1>1, <1>4 DEF Changed, Clean, Came, Job
<1>5. CASE op = "reschedule"
  BY <1>5 DEF Changed, Clean, Came, Job
<1>6. CASE op = "pause"
  BY <1>6 DEF Changed, Clean, Came, Job
<1>7. CASE op = "resume"
  BY <1>1, <1>7 DEF Changed, Clean, Came, Job
<1>8. CASE op = "trigger"
  BY <1>8 DEF Changed, Clean, Came, Job
<1>9. CASE op = "remove"
  BY <1>2, <1>9 DEF Changed, Clean, Came
<1>10. CASE op = "bypass"
  BY <1>10 DEF Changed, Clean, Came, Job
<1> QED BY <1>3, <1>4, <1>5, <1>6, <1>7, <1>8, <1>9, <1>10 DEF Ops

LEMMA CareEditSave == ASSUME CareInv, NEW e \in Editors, EditSave(e) PROVE CareInv'
<1> DEFINE op   == edit[e].op
           i    == edit[e].job
           page == edit[e].page
           jobs == [page EXCEPT ![i] = Changed(op, i, page[i])]
<1>1. Inv'
  BY InvEditSave DEF CareInv
<1>2. page \in Pages /\ op \in Ops /\ i \in Jobs /\ op # "none"
  BY DEF EditSave, CareInv, Inv, Working, EditOK, Edits
<1>3. /\ Save(e, jobs) /\ proc' = proc /\ edits' = edits /\ twice' = twice
      /\ \A d \in Editors : edit'[d] = IF d = e THEN NoEdit ELSE edit[d]
      /\ owed' = IF op = "trigger" THEN Owing(i, owed[i] + 1) ELSE owed
      /\ edited \subseteq edited' /\ (op = "remove" => i \in edited')
  BY DEF EditSave, CareInv, Inv, Working
<1>4. NoEdit.op = "none"
  BY DEF NoEdit
<1>5. page[i].here <=> op # "create"
  BY <1>2 DEF CareInv, Fresh
<1>6. owed \in [Jobs -> 0..2]
  BY DEF CareInv, Inv, TypeOK
<1>7. page[i] \in Job /\ \A j \in Jobs : jobs[j] = IF j = i THEN Changed(op, i, page[i]) ELSE page[j]
  BY <1>2 DEF Pages
<1>8. ~ lost' => e \notin dirty /\ ~ lost /\ page = file
  BY <1>2, <1>3 DEF Save, CareInv, Fresh
<1> HIDE DEF op, i, page, jobs
\* What others have loaded is no longer what is in the file.
<1>9. file' = jobs /\ dirty' = Loaded \ {e}
  BY <1>3 DEF Save
<1>10. Fresh'
  <2>1. ASSUME NEW p \in Procs, proc[p].at \in Copying PROVE p \in dirty'
    BY <1>9, <2>1 DEF Loaded, At, Copying
  <2>2. ASSUME NEW d \in Editors, d # e, edit[d].op # "none" PROVE d \in dirty'
    BY <1>9, <2>2 DEF Loaded
  <2> QED BY <1>3, <1>4, <2>1, <2>2 DEF CareInv, Fresh
<1>11. Quiet'
  BY <1>2, <1>3 DEF CareInv, Quiet, op
<1>12. ASSUME ~ lost' PROVE Careful'
  <2>1. Careful /\ page = file /\ e \notin dirty
    BY <1>8, <1>12 DEF CareInv
  <2>2. /\ file'[i].here <=> op # "remove"
        /\ Clean(file'[i])
        /\ i \in Recurring /\ Came(file'[i]) => Came(file[i]) \/ op = "trigger"
    BY <1>2, <1>5, <1>7, <1>9, <2>1, ChangeFacts
  <2>3. \A j \in Jobs : j # i => file'[j] = file[j] /\ owed'[j] = owed[j]
    BY <1>3, <1>6, <1>7, <1>9, <2>1 DEF Owing
  <2>4. /\ owed'[i] >= owed[i] /\ owed[i] \in 0..2 /\ owed'[i] \in 0..2
        /\ op = "trigger" => owed'[i] > 0 /\ (owed[i] > 0 => owed'[i] > 1)
    BY <1>2, <1>3, <1>6 DEF Owing
  <2>5. \A j \in Jobs : Clean(file'[j])
    BY <2>1, <2>2, <2>3 DEF Careful
  <2>6. \A j \in Recurring : Came(file'[j]) => owed'[j] > 0
    BY <2>1, <2>2, <2>3, <2>4 DEF Careful
  <2>7. ASSUME NEW p \in Procs, NEW j \in Recurring PROVE Owes(proc[p], j)'
    <3>1. Owes(proc[p], j) /\ Ordered(proc[p]) /\ Touched(proc[p])' = Touched(proc[p])
      BY <1>3, <2>1 DEF Careful, CareInv, Touched
    <3>2. CASE j # i
      BY <1>3, <2>3, <3>1, <3>2 DEF Owes
    <3>3. CASE j = i
      <4>1. j \in proc[p].due /\ Came(file'[j]) => Came(file[j]) \/ owed'[j] > 1
        BY <2>2, <2>4, <3>1, <3>3 DEF Owes
\* It is not created while a tick is about it.
      <4>2. j \in Touched(proc[p]) => op # "create"
        BY <2>1, <3>3 DEF Careful, Unborn, op, i
      <4>3. j \in Touched(proc[p]) /\ ~ file[j].here => FALSE
        BY <1>5, <2>1, <3>3, <4>2
      <4>4. /\ proc[p].at = "advancing" => proc[p].job \in proc[p].due
            /\ proc[p].at \in {"advancing", "marking"} => proc[p].job \in Touched(proc[p])
        BY <3>1 DEF Ordered, Touched
      <4>5. j \in Touched(proc[p]) => file'[j].here \/ j \in edited'
        BY <1>3, <2>2, <3>3
      <4> QED BY <1>3, <2>4, <3>1, <3>3, <4>1, <4>3, <4>4, <4>5 DEF Owes
    <3> QED BY <3>2, <3>3
  <2>8. ASSUME NEW d \in Editors PROVE Unborn(d)'
    <3>1. d # e /\ edit[d].op # "none" => d \in dirty'
      BY <1>9 DEF Loaded
    <3> QED BY <1>3, <1>4, <3>1 DEF Unborn
  <2> QED BY <1>3, <2>1, <2>5, <2>6, <2>7, <2>8 DEF Careful
<1>13. \A p \in Procs : Ordered(proc'[p])
  BY <1>3 DEF CareInv
<1> QED BY <1>1, <1>10, <1>11, <1>12, <1>13 DEF CareInv

LEMMA CareAge ==
    ASSUME CareInv, NEW j \in Jobs, NEW when \in {"ahead", "due"}, Age(j, when)
    PROVE  CareInv'
<1> DEFINE to(jobs) == IF j \in Recurring \/ when = "ahead"
                       THEN Aged(jobs, j, when) ELSE jobs
           older(job, i) == i = j /\ job.next = when /\ (j \in Recurring \/ when = "ahead")
<1>1. Inv'
  BY InvAge DEF CareInv
<1>2. ASSUME NEW jobs \in Pages, NEW i \in Jobs
      PROVE  /\ to(jobs)[i].here = jobs[i].here /\ to(jobs)[i].enabled = jobs[i].enabled
             /\ to(jobs)[i].next = IF older(jobs[i], i) THEN Older(when) ELSE jobs[i].next
  <2>1. jobs[i] \in Job /\ jobs[j] \in Job
    BY DEF Pages
  <2> QED BY <2>1 DEF Aged, Pages, Job
<1>3. /\ file' = to(file)
      /\ proc' = [p \in Procs |-> [proc[p] EXCEPT !.page = to(proc[p].page)]]
      /\ edit' = [e \in Editors |-> [edit[e] EXCEPT !.page = to(edit[e].page)]]
      /\ dirty' = dirty /\ lost' = lost /\ edits' = edits /\ twice' = twice
      /\ edited' = edited
  BY DEF Age
<1> HIDE DEF to
<1>4. ASSUME NEW p \in Procs
      PROVE  /\ proc[p] \in Ticks /\ proc[p].page \in Pages
             /\ proc'[p].page = to(proc[p].page)
             /\ proc'[p].at = proc[p].at /\ proc'[p].job = proc[p].job
             /\ proc'[p].advance = proc[p].advance /\ proc'[p].due = proc[p].due
             /\ proc'[p].running = proc[p].running
  <2>1. proc[p] \in Ticks
    BY DEF CareInv, Inv, Working
  <2> QED BY <1>3, <2>1 DEF Ticks
<1>5. ASSUME NEW e \in Editors
      PROVE  /\ edit[e] \in Edits /\ edit[e].page \in Pages
             /\ edit'[e].page = to(edit[e].page)
             /\ edit'[e].op = edit[e].op /\ edit'[e].job = edit[e].job
  <2>1. edit[e] \in Edits
    BY DEF CareInv, Inv, Working
  <2> QED BY <1>3, <2>1 DEF Edits
<1>6. \A p \in Procs : Touched(proc'[p]) = Touched(proc[p])
  BY <1>2, <1>4 DEF Touched
<1>7. \A p \in Procs : Ordered(proc'[p])
  BY <1>4 DEF CareInv, Ordered
<1>8. Fresh'
  <2>1. ASSUME NEW e \in Editors, edit[e].op # "none" PROVE edit[e].job \in Jobs
    BY <2>1 DEF CareInv, Inv, Working, EditOK
  <2>2. ASSUME NEW p \in Procs, proc'[p].at \in Copying
        PROVE  p \in dirty' \/ proc'[p].page = file'
    BY <1>3, <1>4, <2>2 DEF CareInv, Fresh
  <2>3. ASSUME NEW e \in Editors, edit'[e].op # "none"
        PROVE  /\ e \in dirty' \/ edit'[e].page = file'
               /\ edit'[e].page[edit'[e].job].here <=> edit'[e].op # "create"
    BY <1>2, <1>3, <1>5, <2>1, <2>3 DEF CareInv, Fresh
  <2> QED BY <2>2, <2>3 DEF Fresh
<1>9. Quiet'
  BY <1>3, <1>5 DEF CareInv, Quiet
<1>10. ASSUME ~ lost' PROVE Careful'
  <2>1. Careful /\ file \in Pages /\ owed \in [Jobs -> 0..2]
    BY <1>3, <1>10 DEF CareInv, Inv, TypeOK, Pages
  <2>2. ASSUME NEW i \in Jobs PROVE Clean(file'[i])
    BY <1>2, <1>3, <2>1 DEF Careful, Clean
  <2>3. ASSUME NEW e \in Editors PROVE Unborn(e)'
    <3>1. Unborn(e)
      BY <2>1 DEF Careful
    <3> QED BY <1>3, <1>5, <1>6, <3>1 DEF Unborn, Touched
\* A recurring job comes up, and it is owed one time more.
  <2>4. ASSUME NEW i \in Recurring
        PROVE  /\ owed'[i] >= owed[i] /\ owed[i] \in 0..2 /\ owed'[i] \in 0..2
               /\ i = j /\ when = "ahead" => owed'[i] > 0 /\ (owed[i] > 0 => owed'[i] > 1)
               /\ Came(file'[i]) => Came(file[i]) \/ (i = j /\ when = "ahead")
    <3>1. owed'[i] = IF i = j /\ when = "ahead" THEN (IF owed[i] + 1 > 2 THEN 2 ELSE owed[i] + 1)
                     ELSE owed[i]
      BY <2>1 DEF Age, Owing
    <3>2. owed[i] \in 0..2
      BY <2>1
    <3>3. Came(file'[i]) => Came(file[i]) \/ (i = j /\ when = "ahead")
      BY <1>2, <1>3, <2>1 DEF Came
    <3> QED BY <3>1, <3>2, <3>3
  <2>5. \A i \in Recurring : Came(file'[i]) => owed'[i] > 0
    BY <2>1, <2>4 DEF Careful
  <2>6. ASSUME NEW p \in Procs, NEW i \in Recurring PROVE Owes(proc[p], i)'
    <3>1. Owes(proc[p], i) /\ Ordered(proc[p])
      BY <2>1 DEF Careful, CareInv
    <3>2. /\ file'[i].here = file[i].here
          /\ proc'[p].page[i].here = proc[p].page[i].here
          /\ Came(proc'[p].page[i]) => Came(proc[p].page[i]) \/ (i = j /\ when = "ahead")
          /\ proc'[p].page[i].next = "ahead" => proc[p].page[i].next = "ahead"
      BY <1>2, <1>3, <1>4, <2>1 DEF Came, Older
    <3>3. i \in proc[p].due /\ Came(file'[i]) => Came(file[i]) \/ owed'[i] > 1
      BY <2>4, <3>1 DEF Owes
    <3>4. proc[p].at = "advancing" => proc[p].job \in proc[p].due
      BY <3>1 DEF Ordered
    <3>5. i \in Touched(proc'[p]) => file'[i].here \/ i \in edited'
      BY <1>3, <1>6, <3>1, <3>2 DEF Owes
    <3> QED BY <1>4, <2>4, <3>1, <3>2, <3>3, <3>4, <3>5 DEF Owes
  <2> QED BY <1>3, <2>1, <2>2, <2>3, <2>5, <2>6 DEF Careful
<1> QED BY <1>1, <1>7, <1>8, <1>9, <1>10 DEF CareInv

LEMMA CareInit == Init => CareInv
<1> SUFFICES ASSUME Init PROVE CareInv
  OBVIOUS
<1>1. Inv
  BY InvInit
<1>2. \A p \in Procs : proc[p] = Idle /\ proc[p] \in Ticks
  BY <1>1 DEF Init, Inv, Working
<1>3. /\ Idle.at = "idle" /\ Idle.due = {} /\ Idle.running = {} /\ Idle.advance = {}
      /\ NoEdit.op = "none"
  BY DEF Idle, NoEdit
<1>4. Fresh /\ Quiet /\ \A p \in Procs : Ordered(proc[p])
  BY <1>2, <1>3 DEF Init, Fresh, Quiet, Ordered, Copying
<1>5. \A j \in Jobs : Clean(file[j]) /\ (j \in Recurring => ~ Came(file[j]))
  <2> TAKE j \in Jobs
  <2>1. Clean(NoJob) /\ ~ Came(NoJob)
    BY DEF Clean, Came, NoJob
  <2>2. Clean(New(j)) /\ (j \in Recurring => ~ Came(New(j)))
    BY DEF Clean, Came, New, NoJob, NextRun
  <2> QED BY <2>1, <2>2 DEF Init
<1>6. \A p \in Procs, j \in Recurring : Owes(proc[p], j)
  BY <1>2, <1>3, IdleIsCareful
<1>7. \A e \in Editors : Unborn(e)
  BY <1>3 DEF Init, Unborn
<1>8. Careful
  BY <1>5, <1>6, <1>7 DEF Careful, Init
<1> QED BY <1>1, <1>4, <1>8 DEF CareInv

LEMMA CareNext == CareInv /\ [Next]_vars => CareInv'
<1> SUFFICES ASSUME CareInv, [Next]_vars PROVE CareInv'
  OBVIOUS
<1>1. CASE \E j \in Jobs, when \in {"ahead", "due"} : Age(j, when)
  BY <1>1, CareAge
<1>2. ASSUME NEW p \in Procs, Tick(p) PROVE CareInv'
  BY <1>2, CareBegin, CareSift, CareAdvanceLoad, CareAdvanceSave, CareStart,
     CareMarkLoad, CareMarkSave, CareEnd DEF Tick
<1>3. CASE \E p \in Procs : Tick(p) \/ Crash(p)
  BY <1>2, <1>3, CareCrash
<1>7. CASE \E j \in Jobs : StrayEnds(j)
  BY <1>7, CareStrayEnds
<1>4. CASE \E e \in Editors, op \in Ops, j \in Jobs : Load(e, op, j)
  BY <1>4, CareLoad
<1>5. CASE \E e \in Editors : EditSave(e)
  BY <1>5, CareEditSave
<1>6. CASE UNCHANGED vars
  <2>1. Inv' /\ Fresh' /\ Quiet' /\ \A p \in Procs : Ordered(proc'[p])
    BY <1>6, InvNext DEF CareInv, Fresh, Quiet, vars
  <2>2. Careful => Careful'
    BY <1>6 DEF Careful, Owes, Touched, Unborn, vars
  <2>3. lost' = lost
    BY <1>6 DEF vars
  <2> QED BY <2>1, <2>2, <2>3 DEF CareInv
<1> QED BY <1>1, <1>3, <1>4, <1>5, <1>6, <1>7 DEF Next

\* With any number of jobs, ticking processes, edits and crashes, a recurring job
\* starts at most once for each time it comes up, unless an edit and a tick
\* overwrote each other (advance_next_run and tick, cron/scheduler.py).
THEOREM OncePerTime == Spec => []AtMostOnce
<1>1. CareInv => AtMostOnce
  BY DEF CareInv, Careful, Quiet, AtMostOnce
<1> QED BY <1>1, CareInit, CareNext, PTL DEF Spec
=============================================================================
