----------------------------- MODULE ForgeReview -----------------------------
(***************************************************************************)
(* The review of one forge unit: the fleet's ticker dispatches a worker,   *)
(* the worker stages a draft, the ticker puts up a card, and the operator  *)
(* promotes, rejects or sends back the draft in the portal                 *)
(* (grove/fleet/manager.py, resolvers.py, unit_state.py, dispositions.py,  *)
(* grove/api/actions.py, grove/api/portal.py).                             *)
(*                                                                         *)
(* A request handler runs on the event loop and shares it at its awaits;   *)
(* publishing runs in executor threads; the ticker is a thread, and the    *)
(* worker a process.  Each action is one file operation that the others,   *)
(* or a crash, can come after.                                             *)
(***************************************************************************)
EXTENDS Naturals, FiniteSets

CONSTANTS
    Taps,          \* requests of the portal
    NoTap,         \* none of them
    RevisionMax,   \* _REVISION_MAX
    MaxDrafts,     \* bound: drafts made of the unit
    MaxCrashes     \* bound: crashes of the gateway

ASSUME ReviewAssumption ==
    /\ NoTap \notin Taps
    /\ RevisionMax \in Nat \ {0} /\ MaxDrafts \in Nat /\ MaxCrashes \in Nat

VARIABLES
    \* the disk
    staged,        \* forge/pending_review/<slug>/: draft, its documents, mark
    canon,         \* the draft whose documents are in forge/<slug>/
    card,          \* the unit's row in the proposal queue
    ledger,        \* the last terminal disposition of the unit
    notes, skip,   \* feedback store: revisions asked for, won't converge
    run,           \* the worker process: its dispatch record has no receipt
    successes,     \* success receipts
    \* the services
    drive,         \* the draft whose documents are in the Drive folder
    notion,        \* the row's status is Drafted
    \* the gateway
    req,           \* by tap: where its handler is
    loop,          \* the handler that has not reached an await
    job,           \* by tap: its executor thread
    tick,          \* the ticker's card scan
    up, swept,     \* the process is alive; its startup sweeps are over
    \* history, read by no guard (drafts and crashes carry the bounds)
    archived,      \* drafts moved to forge/.archive
    settled,       \* drafts whose promotion or rejection is on record
    expired,       \* a publish has timed out since the card was leased
    raised,        \* an exception has ended a handler, or the sweep, since then
    displaced,     \* a startup sweep, or a rejection, came between a tap and
                   \* the card it holds
    drafts, crashes

lease    == <<card, expired, raised>>
disk     == <<staged, canon, lease, ledger, notes, skip>>
worker   == <<run, successes, drafts>>
services == <<drive, notion>>
process  == <<tick, up, swept>>
history  == <<archived, settled, displaced, crashes>>
vars == <<disk, worker, services, req, loop, job, process, history>>

Drafts == 0..MaxDrafts
NoDir  == [draft |-> 0, docs |-> FALSE, marked |-> FALSE]
Idle   == [kind |-> "none", at |-> "idle", draft |-> 0]
NoJob  == [at |-> "none", path |-> "none", draft |-> 0, leased |-> FALSE]

Init ==
    /\ staged = NoDir /\ canon = 0 /\ card = "none" /\ ledger = "none"
    /\ notes = 0 /\ skip = FALSE
    /\ run = "none" /\ successes = 0 /\ drafts = 0
    /\ drive = 0 /\ notion = FALSE
    /\ req = [t \in Taps |-> Idle] /\ loop = NoTap
    /\ job = [t \in Taps |-> NoJob]
    /\ tick = "idle" /\ up = TRUE /\ swept = FALSE
    /\ archived = {} /\ settled = {} /\ expired = FALSE /\ raised = FALSE
    /\ displaced = FALSE /\ crashes = 0

-----------------------------------------------------------------------------
(* Unit states, the ticker and the worker.                                 *)

UnitState ==
    IF run # "none" THEN "Working"
    ELSE IF ledger # "none" THEN "Done"
    ELSE IF successes > 0 THEN "Needs you"
    ELSE IF skip THEN "Dead-lettered"
    ELSE "Waiting"

\* The tracker offers rows that are not Drafted; the worker skips units that
\* are worked on, wait for the operator, or will not converge.
Eligible == ~notion /\ UnitState \in {"Done", "Waiting"}

Dispatch ==
    /\ up /\ swept /\ tick = "idle"
    /\ Eligible /\ drafts < MaxDrafts
    /\ run' = "drafting"
    /\ UNCHANGED <<disk, successes, drafts, services, req, loop, job, process,
                   history>>

\* stage_package wipes what is in the directory.
Stage ==
    /\ run = "drafting"
    /\ run' = "staged" /\ drafts' = drafts + 1
    /\ staged' = [draft |-> drafts + 1, docs |-> TRUE, marked |-> FALSE]
    /\ UNCHANGED <<canon, lease, ledger, notes, skip, successes, services, req,
                   loop, job, process, history>>

Receipt ==
    /\ run = "staged"
    /\ run' = "none" /\ successes' = successes + 1
    /\ UNCHANGED <<disk, drafts, services, req, loop, job, process, history>>

\* The card scan: first which units have a card, then the state of the others.
ScanCards ==
    /\ up /\ swept /\ tick = "idle"
    /\ card = "none"
    /\ tick' = "scan"
    /\ UNCHANGED <<disk, worker, services, req, loop, job, up, swept, history>>

\* Mutant of NeedsCard: units that were sent back get no card.
NeedsCardUnnoted == UnitState = "Needs you" /\ successes = 1 /\ notes = 0

NeedsCard == UnitState = "Needs you" /\ successes = 1

EmitCard ==
    /\ tick = "scan"
    /\ tick' = "idle"
    /\ card' = IF NeedsCard /\ card = "none" THEN "open" ELSE card
    /\ UNCHANGED <<staged, canon, expired, raised, ledger, notes, skip, worker,
                   services, req, loop, job, up, swept, history>>

-----------------------------------------------------------------------------
(* Handlers.                                                               *)

\* The handler of t goes on at a place, with the loop or without it.
GoTo(t, place) ==
    req' = [req EXCEPT ![t].at = place] /\ loop' = t
Await(t, place) ==
    req' = [req EXCEPT ![t].at = place] /\ loop' = NoTap
Finish(t) ==
    req' = [req EXCEPT ![t] = Idle] /\ loop' = NoTap

LoopFree == up /\ loop = NoTap

Begin(t, kind, place) ==
    /\ LoopFree /\ req[t] = Idle /\ job[t] = NoJob
    /\ req' = [req EXCEPT ![t] =
                 [kind |-> kind, at |-> place, draft |-> staged.draft]]

\* Mutant of Lease: a lease does not keep others out.
LeaseAgain(t, kind, place) ==
    /\ Begin(t, kind, place)
    /\ card # "none"
    /\ card' = "leased" /\ expired' = FALSE /\ raised' = FALSE
    /\ loop' = t

\* promote and suggest_revision take the card's lease first.
Lease(t, kind, place) ==
    /\ Begin(t, kind, place)
    /\ card = "open"
    /\ card' = "leased" /\ expired' = FALSE /\ raised' = FALSE
    /\ loop' = t

Unleased == IF card = "leased" THEN "open" ELSE card

\* clear_lease rewrites the queue; where it raises, the lease stays.
ClearLease ==
    \/ card' = Unleased /\ expired' = FALSE /\ raised' = FALSE
    \/ card = "leased" /\ raised' = TRUE /\ UNCHANGED <<card, expired>>

\* An exception ends the handler of t.  A revision clears its lease on the way
\* out, in its finally; a promotion keeps it.
Raise(t) ==
    /\ Finish(t)
    /\ IF req[t].kind = "revise" THEN ClearLease
       ELSE /\ raised' = (raised \/ (card = "leased" /\ req[t].kind = "promote"))
            /\ UNCHANGED <<card, expired>>

Promote(t) ==
    /\ Lease(t, "promote", "canonicalize")
    /\ UNCHANGED <<staged, canon, ledger, notes, skip, worker, services, job,
                   process, history>>

SuggestRevision(t) ==
    /\ Lease(t, "revise", "note")
    /\ UNCHANGED <<staged, canon, ledger, notes, skip, worker, services, job,
                   process, history>>

\* Reject does not look at the lease.
Reject(t) ==
    /\ card # "none"
    /\ Begin(t, "reject", "archive") /\ loop' = t
    /\ UNCHANGED <<disk, worker, services, job, process, history>>

\* The publish route knows neither cards nor leases.
Publish(t) ==
    /\ Begin(t, "publish", "check")
    /\ UNCHANGED <<disk, worker, services, loop, job, process, history>>

\* A look at the fleet view closes cards that the files, or the ledger, say
\* are settled: documents published and staging gone, a terminal disposition,
\* or nothing staged and no revision under way.
SettledElsewhere ==
    \/ canon # 0 /\ staged.draft = 0
    \/ ledger # "none"
    \/ staged.draft = 0 /\ (notes = 0 \/ skip)

View(t) ==
    /\ card # "none" /\ SettledElsewhere
    /\ Begin(t, "view", "remove") /\ loop' = t
    /\ UNCHANGED <<disk, worker, services, job, process, history>>

-----------------------------------------------------------------------------
(* Promotion.                                                              *)

\* Mutant of Refuse: the lease is kept.
RefuseKeepingLease(t) ==
    /\ Finish(t)
    /\ UNCHANGED lease

\* A failure that is over: the lease is cleared, whoever holds it.
Refuse(t) ==
    /\ Finish(t)
    /\ IF req[t].kind = "promote" THEN ClearLease ELSE UNCHANGED lease

\* The documents move to the canonical directory, unless they are there.
Canonicalize(t) ==
    /\ req[t].at = "canonicalize"
    /\ \/ /\ staged.docs
          /\ canon' = staged.draft /\ staged' = [staged EXCEPT !.docs = FALSE]
          /\ Await(t, "check")
          /\ UNCHANGED lease
       \/ /\ ~staged.docs /\ canon # 0
          /\ Await(t, "check")
          /\ UNCHANGED <<staged, canon, lease>>
       \/ /\ staged.docs \/ staged.draft # 0 \/ canon = 0
          /\ Refuse(t)     \* meta.json is invalid, a move fails, or no file
          /\ UNCHANGED <<staged, canon>>
    /\ UNCHANGED <<ledger, notes, skip, worker, services, job, process, history>>

\* _forge_publish_core, up to its first await.
Check(t) ==
    /\ req[t].at = "check" /\ LoopFree
    /\ \/ /\ staged.draft # 0 /\ (canon # 0 \/ staged.docs)
          /\ LET d == IF canon # 0 THEN canon ELSE staged.draft IN
               /\ req' = [req EXCEPT ![t] =
                            [kind |-> req[t].kind, at |-> "drive", draft |-> d]]
               /\ job' = [job EXCEPT ![t] =
                            [at |-> "drive", draft |-> d,
                             path |-> IF canon # 0 THEN "canonical" ELSE "staged",
                             leased |-> req[t].kind = "promote"]]
          /\ UNCHANGED <<lease, loop>>
       \/ Refuse(t) /\ UNCHANGED job   \* no directory, no file, invalid meta
    /\ UNCHANGED <<staged, canon, ledger, notes, skip, worker, services,
                   process, history>>

\* A thread whose handler has gone leaves no result.
JobEnds(t, result) ==
    job' = [job EXCEPT ![t] =
              IF req[t] = Idle THEN NoJob ELSE [job[t] EXCEPT !.at = result]]

\* publish_application_package: documents that have their title in the folder
\* are not written again.
Drive(t) ==
    /\ job[t].at = "drive"
    /\ \/ /\ IF job[t].path = "canonical" THEN canon # 0 ELSE staged.docs
          /\ drive' = IF drive # 0 THEN drive
                      ELSE IF job[t].path = "canonical" THEN canon
                      ELSE staged.draft
          /\ JobEnds(t, "ok")
       \/ JobEnds(t, "failed") /\ UNCHANGED drive
    /\ UNCHANGED <<disk, worker, notion, req, loop, process, history>>

NotionUpdate(t) ==
    /\ job[t].at = "notion"
    /\ \/ notion' = TRUE /\ JobEnds(t, "ok")
       \/ JobEnds(t, "failed") /\ UNCHANGED notion
    /\ UNCHANGED <<disk, worker, drive, req, loop, process, history>>

\* Mutant of Answered: a failed update of the row is taken for a success.
AnsweredAnyhow(t) == job[t].at \in {"ok", "failed"}

Answered(t) == job[t].at = "ok"

\* Drive has answered; the Notion session may be cold.
AfterDrive(t) ==
    /\ req[t].at = "drive" /\ LoopFree /\ job[t].at \in {"ok", "failed"}
    /\ \/ /\ job[t].at = "ok"
          /\ job' = [job EXCEPT ![t].at = "notion"]
          /\ Await(t, "notion") /\ UNCHANGED lease
       \/ job' = [job EXCEPT ![t] = NoJob] /\ Refuse(t)
    /\ UNCHANGED <<staged, canon, ledger, notes, skip, worker, services,
                   process, history>>

AfterNotion(t) ==
    /\ req[t].at = "notion" /\ LoopFree /\ job[t].at \in {"ok", "failed"}
    /\ job' = [job EXCEPT ![t] = NoJob]
    /\ \/ /\ Answered(t) /\ req[t].kind = "promote"
          /\ GoTo(t, "archive") /\ UNCHANGED lease
       \/ /\ ~Answered(t) \/ req[t].kind = "publish"
          /\ Refuse(t)
    /\ UNCHANGED <<staged, canon, ledger, notes, skip, worker, services,
                   process, history>>

\* wait_for gives up; the thread goes on, and the lease stays.
Timeout(t) ==
    /\ req[t].kind = "promote" /\ req[t].at \in {"drive", "notion"}
    /\ LoopFree
    /\ Finish(t)
    /\ job' = IF job[t].at \in {"ok", "failed"} THEN [job EXCEPT ![t] = NoJob]
              ELSE job
    /\ expired' = (card = "leased")
    /\ UNCHANGED <<staged, canon, card, raised, ledger, notes, skip, worker,
                   services, process, history>>

-----------------------------------------------------------------------------
(* Revision.                                                               *)

\* The note is stored; the one that reaches the limit ends the redrafting,
\* and is announced before the handler goes on.  Either write may raise.
Note(t) ==
    /\ req[t].at = "note"
    /\ \/ /\ notes' = IF notes < RevisionMax THEN notes + 1 ELSE notes
          /\ \/ /\ skip' = (skip \/ notes' = RevisionMax)
                /\ IF notes' = RevisionMax THEN Await(t, "announce")
                                          ELSE GoTo(t, "remove")
                /\ UNCHANGED lease
             \/ notes' = RevisionMax /\ Raise(t) /\ UNCHANGED skip
       \/ Raise(t) /\ UNCHANGED <<notes, skip>>
    /\ UNCHANGED <<staged, canon, ledger, worker, services, job, process,
                   history>>

Announced(t) ==
    /\ req[t].at = "announce" /\ LoopFree
    /\ GoTo(t, "remove")
    /\ UNCHANGED <<disk, worker, services, job, process, history>>

Mark(t) ==
    /\ req[t].at = "mark"
    /\ \/ /\ staged' = [staged EXCEPT !.marked = staged.draft # 0]
          /\ GoTo(t, "archive") /\ UNCHANGED lease
       \/ staged.draft # 0 /\ Raise(t) /\ UNCHANGED staged
    /\ UNCHANGED <<canon, ledger, notes, skip, worker, services, job, process,
                   history>>

-----------------------------------------------------------------------------
(* What the dispositions share.                                            *)

\* The handlers that will clear their lease, or remove the card.
Owns(t) ==
    \/ req[t].kind = "promote" /\ req[t].at # "idle"
    \/ req[t].kind = "revise" /\ req[t].at \in {"note", "announce", "remove"}

\* The promotions whose thread is under way, whether its handler waits or not.
Publishing == {t \in Taps : job[t].leased /\ job[t].at \in {"drive", "notion"}}

InHand == \E t \in Taps : Owns(t) \/ t \in Publishing

\* Mutants of ArchiveStaged: the documents stay; the directory is copied.
ArchiveMeta ==
    /\ staged' = [staged EXCEPT !.draft = 0]
    /\ archived' = archived \cup ({staged.draft} \ {0})

ArchiveCopy ==
    /\ archived' = archived \cup ({staged.draft} \ {0})
    /\ UNCHANGED staged

ArchiveStaged ==
    /\ staged' = NoDir
    /\ archived' = archived \cup ({staged.draft} \ {0})

\* _archive_forge_slug renames the directory that is there now.  A revision
\* swallows its failure, which the mark is for; nothing else does.
Archive(t) ==
    /\ req[t].at = "archive"
    /\ \/ /\ ArchiveStaged
          /\ IF req[t].kind = "revise" THEN Finish(t) /\ ClearLease
                                       ELSE GoTo(t, "remove") /\ UNCHANGED lease
       \/ /\ staged.draft # 0 /\ UNCHANGED <<staged, archived>>
          /\ IF req[t].kind = "revise" THEN Finish(t) /\ ClearLease ELSE Raise(t)
    /\ UNCHANGED <<canon, ledger, notes, skip, worker, services, job, process,
                   settled, displaced, crashes>>

\* finalize_proposal_state pops the row under the queue's lock, unless it
\* raises before the queue is written...
Remove(t) ==
    /\ req[t].at = "remove"
    /\ \/ /\ card # "none" /\ card' = "none" /\ GoTo(t, "record")
          /\ expired' = FALSE /\ raised' = FALSE
       \/ card = "none" /\ Finish(t) /\ UNCHANGED lease
       \/ card # "none" /\ Raise(t)
    /\ UNCHANGED <<staged, canon, ledger, notes, skip, worker, services, job,
                   process, history>>

Disposition(kind) ==
    CASE kind = "promote" -> "applied"
      [] kind = "reject"  -> "rejected"
      [] OTHER            -> "none"

\* ...and writes the ledger after it, which may raise too.  Only "applied" and
\* "rejected" count as terminal: a revision, or a card closed by the view,
\* leaves the unit as it is.
Record(t) ==
    /\ req[t].at = "record"
    /\ LET d == Disposition(req[t].kind) IN
         \/ /\ ledger' = IF d = "none" THEN ledger ELSE d
            /\ settled' = IF d = "none" THEN settled ELSE settled \cup {req[t].draft}
            /\ IF req[t].kind = "revise" THEN GoTo(t, "mark") ELSE Finish(t)
            /\ UNCHANGED lease
         \/ Raise(t) /\ UNCHANGED <<ledger, settled>>
    /\ displaced' = (displaced \/ (req[t].kind = "reject" /\ InHand))
    /\ UNCHANGED <<staged, canon, notes, skip, worker, services, job, process,
                   archived, crashes>>

-----------------------------------------------------------------------------
(* Crash and restart.                                                      *)

Crash ==
    /\ up /\ crashes < MaxCrashes
    /\ up' = FALSE /\ swept' = FALSE /\ crashes' = crashes + 1
    /\ req' = [t \in Taps |-> Idle] /\ loop' = NoTap
    /\ job' = [t \in Taps |-> NoJob] /\ tick' = "idle"
    /\ expired' = FALSE /\ raised' = FALSE /\ displaced' = FALSE
    /\ UNCHANGED <<staged, canon, card, ledger, notes, skip, worker, services, archived, settled>>

Start ==
    /\ ~up
    /\ up' = TRUE
    /\ UNCHANGED <<disk, worker, services, req, loop, job, tick, swept, history>>

\* The startup sweeps, on the loop and without an await: orphaned workers (one
\* that cannot be identified lives on), leases, marked directories.  A failure
\* of one is logged, and the next one runs.
Sweep ==
    /\ LoopFree /\ ~swept
    /\ swept' = TRUE
    /\ run' \in {run, "none"}
    /\ ClearLease
    /\ displaced' = (displaced \/ (card = "leased" /\ InHand))
    /\ \/ staged.marked /\ ArchiveStaged
       \/ UNCHANGED <<staged, archived>>
    /\ UNCHANGED <<canon, ledger, notes, skip, successes, drafts, services, req,
                   loop, job, tick, up, settled, crashes>>

-----------------------------------------------------------------------------

\* What a handler does once it has begun.
Handler(t) ==
    \/ Canonicalize(t) \/ Check(t) \/ AfterDrive(t) \/ AfterNotion(t)
    \/ Note(t) \/ Announced(t) \/ Mark(t)
    \/ Archive(t) \/ Remove(t) \/ Record(t)

Next ==
    \/ Dispatch \/ Stage \/ Receipt \/ ScanCards \/ EmitCard
    \/ \E t \in Taps :
         \/ Promote(t) \/ SuggestRevision(t) \/ Reject(t) \/ Publish(t) \/ View(t)
         \/ Handler(t) \/ Drive(t) \/ NotionUpdate(t) \/ Timeout(t)
    \/ Crash \/ Start \/ Sweep

\* A handler gets the loop back in turn, an executor thread and a worker end,
\* and the ticker ticks.  The operator need not do anything.
Fairness ==
    /\ \A t \in Taps : SF_vars(Handler(t)) /\ WF_vars(Drive(t))
                       /\ WF_vars(NotionUpdate(t))
    /\ SF_vars(Dispatch) /\ WF_vars(Stage) /\ WF_vars(Receipt)
    /\ SF_vars(ScanCards) /\ WF_vars(EmitCard)
    /\ WF_vars(Start) /\ SF_vars(Sweep)

Spec == Init /\ [][Next]_vars

FairSpec == Spec /\ Fairness

-----------------------------------------------------------------------------
(* Properties.                                                             *)

Kinds  == {"none", "promote", "revise", "reject", "publish", "view"}
Places == {"idle", "canonicalize", "check", "drive", "notion", "note",
           "announce", "mark", "archive", "remove", "record"}

\* The places between two awaits.
OnLoop == {"canonicalize", "note", "mark", "archive", "remove", "record"}

Package == [draft : Drafts, docs : BOOLEAN, marked : BOOLEAN]
Request == [kind : Kinds, at : Places, draft : Drafts]
Job     == [at : {"none", "drive", "notion", "ok", "failed"},
            path : {"none", "canonical", "staged"},
            draft : Drafts, leased : BOOLEAN]

\* Every variable has its type, and a handler between two awaits has the loop.
TypeOK ==
    /\ staged \in Package /\ (staged.draft = 0 => staged = NoDir)
    /\ canon \in Drafts /\ card \in {"none", "open", "leased"}
    /\ ledger \in {"none", "applied", "rejected"}
    /\ notes \in 0..RevisionMax /\ skip \in BOOLEAN
    /\ run \in {"none", "drafting", "staged"}
    /\ drafts \in Drafts /\ successes \in 0..drafts
    /\ drive \in Drafts /\ notion \in BOOLEAN
    /\ req \in [Taps -> Request] /\ job \in [Taps -> Job]
    /\ loop \in Taps \cup {NoTap}
    /\ \A t \in Taps : (loop = t) <=> (req[t].at \in OnLoop)
    /\ tick \in {"idle", "scan"} /\ up \in BOOLEAN /\ swept \in BOOLEAN
    /\ archived \subseteq Drafts /\ settled \subseteq Drafts
    /\ expired \in BOOLEAN /\ raised \in BOOLEAN /\ displaced \in BOOLEAN
    /\ crashes \in 0..MaxCrashes

\* "clearing it would let a re-tap double-write against the concurrent-racy
\* Drive guard" (_promote_disposition): two promotions never publish at once,
\* also when the first has timed out and its thread goes on.  (Two things get
\* past the lease: a rejection that is recorded while a promotion is under way,
\* since it does not look at the lease and frees the unit for a redraft, and a
\* startup sweep that comes after the first taps.)
OnePublish == ~displaced => Cardinality(Publishing) <= 1

\* "There is no applied without a delivery": a promotion on record has its
\* unit's documents in Drive and the tracker row on Drafted.
AppliedIsDelivered ==
    ledger = "applied" => drive # 0 /\ notion

\* "archive BEFORE finalize, so a crash between them leaves the proposal LIVE,
\* never a cleared-proposal-with-unarchived-dir" (_apply_routing): a draft whose
\* disposition is on record is not staged any more.
SettledIsArchived == staged.draft \notin settled \ {0}

\* A lease has a handler that will clear it or remove the card, or stays until
\* the next start for one of two reasons: its publish has timed out, or an
\* exception ended its handler in the archive, the finalize or the clearing of
\* the lease (or the sweep of this start).  No refusal of a promotion, no step
\* of a revision, no other tap and no crash leaves one behind.
LeaseHasOwner ==
    card = "leased" /\ swept => expired \/ raised \/ \E t \in Taps : Owns(t)

\* A draft that waits for the operator gets a card, whatever crash or
\* half-done revision lost the last one (_emit_state_cards).
PendingGetsCard ==
    (UnitState = "Needs you" /\ successes = 1 /\ staged.draft # 0)
        ~> (card # "none" \/ staged.draft = 0 \/ UnitState # "Needs you")

\* "the row re-drafts WITH the guidance next cadence"
\* (_suggest_revision_disposition): a unit whose revision is on record and whose
\* draft is archived, short of the revision limit (and the bound), is drafted
\* again, unless it is promoted or rejected after all.
SentBack(d) ==
    /\ \E t \in Taps : req[t].kind = "revise" /\ req[t].at = "archive"
    /\ drafts = d /\ d < MaxDrafts /\ ~skip

RevisionIsRedrafted ==
    \A d \in Drafts :
        SentBack(d) ~> \/ drafts > d \/ skip \/ ledger # "none" \/ notion
                      \/ [](staged.draft # 0)
=============================================================================
