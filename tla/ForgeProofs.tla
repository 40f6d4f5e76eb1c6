----------------------------- MODULE ForgeProofs -----------------------------
(***************************************************************************)
(* Proofs about ForgeReview, for any number of taps, drafts, revisions and *)
(* crashes.                                                                *)
(***************************************************************************)
EXTENDS ForgeReview, TLAPS, FiniteSetTheorems

USE ReviewAssumption

-----------------------------------------------------------------------------
(* Types                                                                   *)

\* What the disk, the worker, the services and the process hold
RestTyped ==
    /\ staged \in Package /\ (staged.draft = 0 => staged = NoDir)
    /\ canon \in Drafts /\ card \in {"none", "open", "leased"}
    /\ ledger \in {"none", "applied", "rejected"}
    /\ notes \in 0..RevisionMax
    /\ run \in {"none", "drafting", "staged"}
    /\ drafts \in Drafts /\ successes \in 0..drafts
    /\ run = "drafting" => drafts < MaxDrafts
    /\ run = "staged" => successes < drafts
    /\ drive \in Drafts /\ tick \in {"idle", "scan"}
    /\ archived \subseteq Drafts /\ settled \subseteq Drafts
    /\ crashes \in 0..MaxCrashes

FlagsTyped ==
    /\ skip \in BOOLEAN /\ notion \in BOOLEAN
    /\ up \in BOOLEAN /\ swept \in BOOLEAN
    /\ expired \in BOOLEAN /\ raised \in BOOLEAN /\ displaced \in BOOLEAN

\* What the handlers and their threads hold
TapsTyped ==
    /\ req \in [Taps -> Request] /\ job \in [Taps -> Job]
    /\ loop \in Taps \cup {NoTap}
    /\ \A t \in Taps : (loop = t) <=> (req[t].at \in OnLoop)
    /\ \A t \in Taps : req[t].at = "idle" => req[t] = Idle

TypeInv == RestTyped /\ FlagsTyped /\ TapsTyped

LEMMA NoDirIsPackage == NoDir \in Package /\ NoDir.draft = 0
BY DEF NoDir, Package, Drafts

LEMMA InitTyped == Init => TypeInv
<1> SUFFICES ASSUME Init PROVE TypeInv
  OBVIOUS
<1>1. RestTyped
  BY NoDirIsPackage DEF Init, RestTyped, Drafts
<1>2. FlagsTyped
  BY Zenon DEF Init, FlagsTyped
<1>3. TapsTyped
  BY DEF Init, TapsTyped, Idle, NoJob, Request, Job, Kinds, Places, Drafts, OnLoop
<1> QED BY <1>1, <1>2, <1>3 DEF TypeInv

\* A lease that is cleared, or is kept by an exception
LEMMA CardMoves ==
    ASSUME NEW t \in Taps, ClearLease \/ Raise(t) \/ Refuse(t)
    PROVE  card' = card \/ (card = "leased" /\ card' = "open")
BY DEF ClearLease, Raise, Refuse, Unleased, lease

LEMMA LeaseFlags ==
    ASSUME NEW t \in Taps, FlagsTyped, ClearLease \/ Raise(t) \/ Refuse(t)
    PROVE  expired' \in BOOLEAN /\ raised' \in BOOLEAN
BY Zenon DEF FlagsTyped, ClearLease, Raise, Refuse, lease

LEMMA FlagsStep == FlagsTyped /\ [Next]_vars => FlagsTyped'
<1> SUFFICES ASSUME FlagsTyped, [Next]_vars PROVE FlagsTyped'
  OBVIOUS
<1> USE DEF FlagsTyped, lease, disk, worker, services, process, history
<1>1. CASE UNCHANGED vars \/ Dispatch \/ Stage \/ Receipt \/ ScanCards \/ EmitCard
  BY <1>1, Zenon DEF vars, Dispatch, Stage, Receipt, ScanCards, EmitCard
<1>2. CASE Crash \/ Start \/ Sweep
  BY <1>2, Zenon DEF Crash, Start, Sweep, ClearLease
<1>3. ASSUME NEW t \in Taps,
             Promote(t) \/ SuggestRevision(t) \/ Reject(t) \/ Publish(t) \/ View(t)
      PROVE  FlagsTyped'
  BY <1>3, Zenon DEF Promote, SuggestRevision, Reject, Publish, View, Lease
<1>4. ASSUME NEW t \in Taps, Canonicalize(t) \/ Check(t) \/ AfterDrive(t) \/ AfterNotion(t)
      PROVE  FlagsTyped'
  BY <1>4, LeaseFlags, Zenon DEF Canonicalize, Check, AfterDrive, AfterNotion
<1>5. ASSUME NEW t \in Taps, Note(t) \/ Announced(t) \/ Mark(t)
      PROVE  FlagsTyped'
  BY <1>5, LeaseFlags, Zenon DEF Note, Announced, Mark
<1>6. ASSUME NEW t \in Taps, Archive(t) \/ Remove(t) \/ Record(t)
      PROVE  FlagsTyped'
  BY <1>6, LeaseFlags, Zenon DEF Archive, Remove, Record
<1>7. ASSUME NEW t \in Taps, Drive(t) \/ NotionUpdate(t) \/ Timeout(t)
      PROVE  FlagsTyped'
  BY <1>7, Zenon DEF Drive, NotionUpdate, Timeout
<1> QED BY <1>1, <1>2, <1>3, <1>4, <1>5, <1>6, <1>7 DEF Next, Handler

LEMMA RestStep == TypeInv /\ [Next]_vars => RestTyped'
<1> SUFFICES ASSUME TypeInv, [Next]_vars PROVE RestTyped'
  OBVIOUS
<1> USE NoDirIsPackage DEF TypeInv, RestTyped, lease, disk, worker, services, process, history
<1>0. CASE UNCHANGED vars
  BY <1>0 DEF vars
<1>1. CASE Dispatch \/ ScanCards \/ EmitCard
  BY <1>1 DEF Dispatch, ScanCards, EmitCard
<1>2. CASE Stage
  BY <1>2 DEF Stage, Drafts, Package
<1>14. CASE Receipt
  BY <1>14 DEF Receipt, Drafts
<1>3. CASE Crash \/ Start
  BY <1>3 DEF Crash, Start
<1>4. CASE Sweep
  <2>1. archived' \subseteq Drafts /\ staged' \in {staged, NoDir}
    BY <1>4 DEF Sweep, ArchiveStaged, Package
  <2>2. card' \in {"none", "open", "leased"}
    BY <1>4 DEF Sweep, ClearLease, Unleased
  <2> QED BY <1>4, <2>1, <2>2 DEF Sweep
<1>5. ASSUME NEW t \in Taps,
             Promote(t) \/ SuggestRevision(t) \/ Reject(t) \/ Publish(t) \/ View(t)
      PROVE  RestTyped'
  BY <1>5 DEF Promote, SuggestRevision, Reject, Publish, View, Lease
<1>6. ASSUME NEW t \in Taps, Canonicalize(t)
      PROVE  RestTyped'
  <2>1. staged' \in Package /\ (staged'.draft = 0 => staged' = NoDir) /\ canon' \in Drafts
    BY <1>6 DEF Canonicalize, Package, NoDir
  <2>2. card' \in {"none", "open", "leased"}
    BY <1>6, CardMoves DEF Canonicalize
  <2> QED BY <1>6, <2>1, <2>2 DEF Canonicalize
<1>7. ASSUME NEW t \in Taps, Check(t) \/ AfterDrive(t) \/ AfterNotion(t)
      PROVE  RestTyped'
  BY <1>7, CardMoves DEF Check, AfterDrive, AfterNotion
<1>8. ASSUME NEW t \in Taps, Note(t) \/ Announced(t)
      PROVE  RestTyped'
  BY <1>8, CardMoves DEF Note, Announced
<1>9. ASSUME NEW t \in Taps, Mark(t)
      PROVE  RestTyped'
  <2>1. staged' \in Package /\ (staged'.draft = 0 => staged' = NoDir)
    BY <1>9 DEF Mark, Package, NoDir
  <2> QED BY <1>9, <2>1, CardMoves DEF Mark
<1>10. ASSUME NEW t \in Taps, Archive(t)
      PROVE  RestTyped'
  <2>1. archived' \subseteq Drafts /\ staged' \in {staged, NoDir}
    BY <1>10 DEF Archive, ArchiveStaged, Package
  <2>2. card' \in {"none", "open", "leased"}
    BY <1>10, CardMoves DEF Archive
  <2> QED BY <1>10, <2>1, <2>2 DEF Archive
<1>11. ASSUME NEW t \in Taps, Remove(t)
      PROVE  RestTyped'
  BY <1>11, CardMoves DEF Remove
<1>12. ASSUME NEW t \in Taps, Record(t)
      PROVE  RestTyped'
  BY <1>12, CardMoves DEF Record, Disposition, TapsTyped, Request
<1>13. ASSUME NEW t \in Taps, Drive(t) \/ NotionUpdate(t) \/ Timeout(t)
      PROVE  RestTyped'
  <2>1. staged.draft \in Drafts
    BY DEF Package
  <2>2. drive' \in Drafts
        /\ UNCHANGED <<staged, canon, card, ledger, notes, skip, worker, tick, archived, settled, crashes>>
    BY <1>13, <2>1 DEF Drive, NotionUpdate, Timeout
  <2> QED BY <2>2
<1> QED BY <1>0, <1>1, <1>2, <1>3, <1>4, <1>5, <1>6, <1>7, <1>8, <1>9, <1>10, <1>11, <1>12,
           <1>13, <1>14 DEF Next, Handler

JobPlaces == {"none", "drive", "notion", "ok", "failed"}

LEMMA JobMoves ==
    ASSUME NEW j \in Job, NEW place \in JobPlaces
    PROVE  [j EXCEPT !.at = place] \in Job
BY DEF Job, JobPlaces

LEMMA NoJobIsJob == NoJob \in Job
BY DEF NoJob, Job, Drafts

Waits == {"check", "drive", "notion", "announce"}

\* A handler whose turn it is goes on with the loop, waits without it, or ends.
Steps(t) ==
    \/ \E place \in OnLoop : GoTo(t, place)
    \/ \E place \in Waits : Await(t, place)
    \/ Finish(t)

LEMMA StepsTyped ==
    ASSUME TapsTyped, NEW t \in Taps, loop \in {t, NoTap}, Steps(t), job' \in [Taps -> Job]
    PROVE  TapsTyped'
<1>1. ASSUME NEW new \in Request, new.at = "idle" => new = Idle,
             req' = [req EXCEPT ![t] = new],
             loop' = IF new.at \in OnLoop THEN t ELSE NoTap
      PROVE  TapsTyped'
  BY <1>1 DEF TapsTyped, Request
<1>2. ASSUME NEW place \in OnLoop \cup Waits,
             req' = [req EXCEPT ![t].at = place],
             loop' = IF place \in OnLoop THEN t ELSE NoTap
      PROVE  TapsTyped'
  <2> DEFINE new == [req[t] EXCEPT !.at = place]
  <2>1. req[t] \in Request /\ place \in Places \ {"idle"}
    BY DEF TapsTyped, OnLoop, Waits, Places
  <2>2. new \in Request /\ new.at = place
    BY <2>1 DEF Request
  <2> QED BY <1>1, <1>2, <2>1, <2>2
<1>3. Idle \in Request /\ Idle.at = "idle" /\ "idle" \notin OnLoop
  BY DEF Idle, Request, Kinds, Places, Drafts, OnLoop
<1>4. OnLoop \cap Waits = {}
  BY DEF OnLoop, Waits
<1> QED BY <1>1, <1>2, <1>3, <1>4 DEF Steps, GoTo, Await, Finish

LEMMA TapsStep == TypeInv /\ [Next]_vars => TapsTyped'
<1> SUFFICES ASSUME TypeInv, [Next]_vars PROVE TapsTyped'
  OBVIOUS
<1> USE DEF TypeInv, lease, disk, worker, services, process, history
<1>t. TapsTyped
  OBVIOUS
<1>j. \A t \in Taps : job[t] \in Job
  BY DEF TapsTyped
<1>1. CASE UNCHANGED <<req, loop, job>>
  BY <1>1 DEF TapsTyped
<1>2. CASE Crash
  BY <1>2, NoJobIsJob DEF Crash, TapsTyped, Idle, Request, Kinds, Places, OnLoop, Drafts
<1>3. ASSUME NEW t \in Taps,
             Promote(t) \/ SuggestRevision(t) \/ Reject(t) \/ Publish(t) \/ View(t)
      PROVE  TapsTyped'
  <2>1. PICK kind \in Kinds, place \in OnLoop \cup Waits :
             Begin(t, kind, place) /\ loop' = IF place \in OnLoop THEN t ELSE NoTap
    BY <1>3 DEF Promote, SuggestRevision, Reject, Publish, View, Lease, Kinds, OnLoop, Waits, Begin, LoopFree
  <2>2. UNCHANGED job /\ loop = NoTap
    BY <1>3, <2>1 DEF Promote, SuggestRevision, Reject, Publish, View, Begin, LoopFree
  <2>3. staged.draft \in Drafts /\ place \in Places \ {"idle"}
    BY DEF RestTyped, Package, OnLoop, Waits, Places
  <2>4. req' = [req EXCEPT ![t] = [kind |-> kind, at |-> place, draft |-> staged.draft]]
    BY <2>1 DEF Begin
  <2>5. req' \in [Taps -> Request]
    BY <2>3, <2>4 DEF TapsTyped, Request
  <2> QED BY <2>1, <2>2, <2>3, <2>4, <2>5 DEF TapsTyped
<1>4. ASSUME NEW t \in Taps, Canonicalize(t) \/ Note(t) \/ Announced(t) \/ Mark(t)
                               \/ Archive(t) \/ Remove(t) \/ Record(t)
      PROVE  TapsTyped'
  <2>1. Steps(t)
    BY <1>4 DEF Canonicalize, Refuse, Raise, Note, Announced, Mark, Archive, Remove, Record,
                Steps, OnLoop, Waits
  <2>2. loop \in {t, NoTap} /\ UNCHANGED job
    BY <1>4 DEF Canonicalize, Note, Announced, Mark, Archive, Remove, Record,
                LoopFree, TapsTyped, OnLoop
  <2> QED BY <2>1, <2>2, StepsTyped DEF TapsTyped
<1>5. ASSUME NEW t \in Taps, Check(t)
      PROVE  TapsTyped'
  <2>1. loop = NoTap
    BY <1>5 DEF Check, LoopFree
  <2>2. CASE Refuse(t) /\ UNCHANGED job
    BY <2>1, <2>2, StepsTyped DEF Refuse, Steps, TapsTyped
  <2>3. ASSUME NEW d \in Drafts, NEW path \in {"canonical", "staged"}, NEW leased \in BOOLEAN,
               req' = [req EXCEPT ![t] = [kind |-> req[t].kind, at |-> "drive", draft |-> d]],
               job' = [job EXCEPT ![t] = [at |-> "drive", draft |-> d, path |-> path, leased |-> leased]],
               UNCHANGED loop
        PROVE  TapsTyped'
    <3>1. req[t] \in Request
      BY DEF TapsTyped
    <3>3. [kind |-> req[t].kind, at |-> "drive", draft |-> d] \in Request
      BY <3>1 DEF Request, Places
    <3>4. [at |-> "drive", draft |-> d, path |-> path, leased |-> leased] \in Job
      BY DEF Job
    <3>5. req' \in [Taps -> Request] /\ job' \in [Taps -> Job]
      BY <2>3, <3>3, <3>4 DEF TapsTyped
    <3>6. req'[t].at = "drive" /\ \A u \in Taps \ {t} : req'[u] = req[u]
      BY <2>3 DEF TapsTyped
    <3> QED BY <2>1, <2>3, <3>5, <3>6 DEF TapsTyped, OnLoop
  <2>4. canon \in Drafts /\ staged.draft \in Drafts
    BY DEF Package, RestTyped
  <2> QED BY <1>5, <2>2, <2>3, <2>4 DEF Check
<1>6. ASSUME NEW t \in Taps, AfterDrive(t) \/ AfterNotion(t) \/ Timeout(t)
      PROVE  TapsTyped'
  <2>1. Steps(t) /\ loop = NoTap
    BY <1>6 DEF AfterDrive, AfterNotion, Timeout, Refuse, LoopFree, Steps, OnLoop, Waits
  <2>2. \/ UNCHANGED job
        \/ job' = [job EXCEPT ![t] = NoJob]
        \/ job' = [job EXCEPT ![t] = [job[t] EXCEPT !.at = "notion"]]
    BY <1>6 DEF AfterDrive, AfterNotion, Timeout
  <2>3. job' \in [Taps -> Job]
    <3>1. [job[t] EXCEPT !.at = "notion"] \in Job
      BY <1>j, JobMoves DEF JobPlaces
    <3> QED BY <2>2, <3>1, NoJobIsJob DEF TapsTyped
  <2> QED BY <2>1, <2>3, StepsTyped
<1>7. ASSUME NEW t \in Taps, Drive(t) \/ NotionUpdate(t)
      PROVE  TapsTyped'
  <2>1. UNCHANGED <<req, loop>>
    BY <1>7 DEF Drive, NotionUpdate
  <2>2. \/ job' = [job EXCEPT ![t] = NoJob]
        \/ \E place \in JobPlaces : job' = [job EXCEPT ![t] = [job[t] EXCEPT !.at = place]]
    BY <1>7 DEF Drive, NotionUpdate, JobEnds, JobPlaces
  <2>3. job' \in [Taps -> Job]
    <3>1. CASE job' = [job EXCEPT ![t] = NoJob]
      BY <3>1, NoJobIsJob DEF TapsTyped
    <3>2. ASSUME NEW place \in JobPlaces,
                 job' = [job EXCEPT ![t] = [job[t] EXCEPT !.at = place]]
          PROVE  job' \in [Taps -> Job]
      BY <1>j, <3>2, JobMoves DEF TapsTyped
    <3> QED BY <2>2, <3>1, <3>2
  <2> QED BY <2>1, <2>3 DEF TapsTyped
<1>8. ASSUME Dispatch \/ Stage \/ Receipt \/ ScanCards \/ EmitCard \/ Start \/ Sweep \/ UNCHANGED vars
      PROVE  UNCHANGED <<req, loop, job>>
  BY <1>8 DEF Dispatch, Stage, Receipt, ScanCards, EmitCard, Start, Sweep, vars
<1> QED BY <1>1, <1>2, <1>3, <1>4, <1>5, <1>6, <1>7, <1>8 DEF Next, Handler
-----------------------------------------------------------------------------
(* Handlers, threads and deliveries                                        *)

\* The places a handler of a kind comes to
Stations(kind) ==
    CASE kind = "promote" -> {"canonicalize", "check", "drive", "notion",
                              "archive", "remove", "record"}
      [] kind = "publish" -> {"check", "drive", "notion"}
      [] kind = "revise"  -> {"note", "announce", "mark", "archive", "remove", "record"}
      [] kind = "reject"  -> {"archive", "remove", "record"}
      [] kind = "view"    -> {"remove", "record"}
      [] OTHER            -> {"idle"}

\* A thread does what its handler waits for, or its handler is gone.
Threaded(t) ==
    /\ job[t].at = "none" => job[t] = NoJob
    /\ req[t].at \in {"drive", "notion"} => job[t].at # "none"
    /\ job[t].at = "drive" => req[t].at \in {"drive", "idle"}
    /\ job[t].at = "notion" => req[t].at \in {"notion", "idle"}
    /\ job[t].at \in {"ok", "failed"} => req[t].at \in {"drive", "notion"}
    /\ req[t].at \in {"drive", "notion"} => (job[t].leased <=> req[t].kind = "promote")

\* What a thread has done is in the services.
Done(t) ==
    /\ job[t].at \in {"notion", "ok"} => drive # 0
    /\ job[t].at = "ok" /\ req[t].at = "notion" => notion
    /\ req[t].kind = "promote" /\ req[t].at \in {"archive", "remove", "record"}
         => drive # 0 /\ notion

InPlace(t) == req[t].at \in Stations(req[t].kind) /\ Threaded(t) /\ Done(t)

AllInPlace == \A t \in Taps : InPlace(t)

\* The steps of one tap leave the others in place: the services only gain.
Moves(t) ==
    /\ \A u \in Taps \ {t} : req'[u] = req[u] /\ job'[u] = job[u]
    /\ drive # 0 => drive' # 0
    /\ notion => notion'

LEMMA OthersInPlace ==
    ASSUME AllInPlace, NEW t \in Taps, Moves(t), InPlace(t)'
    PROVE  AllInPlace'
BY DEF AllInPlace, Moves, InPlace, Threaded, Done

LEMMA AllAtOnce ==
    ASSUME AllInPlace, UNCHANGED <<req, job, drive, notion>>
    PROVE  AllInPlace'
BY DEF AllInPlace, InPlace, Threaded, Done

LEMMA InPlaceStep == TypeInv /\ AllInPlace /\ [Next]_vars => AllInPlace'
<1> SUFFICES ASSUME TypeInv, AllInPlace, [Next]_vars PROVE AllInPlace'
  OBVIOUS
<1> USE DEF TypeInv, lease, disk, worker, services, process, history
<1>1. CASE UNCHANGED <<req, job, drive, notion>>
  BY <1>1, AllAtOnce
<1>2. CASE Crash
  BY <1>2 DEF Crash, AllInPlace, InPlace, Stations, Threaded, Done, Idle, NoJob
<1>3. ASSUME NEW t \in Taps,
             Promote(t) \/ SuggestRevision(t) \/ Reject(t) \/ Publish(t) \/ View(t)
      PROVE  AllInPlace'
  <2>1. PICK kind \in Kinds, place \in Places :
             /\ Begin(t, kind, place)
             /\ place \in Stations(kind) /\ place \notin {"idle", "drive", "notion"}
             /\ kind = "promote" => place = "canonicalize"
    BY <1>3 DEF Promote, SuggestRevision, Reject, Publish, View, Lease, Kinds, Places, Stations
  <2>2. UNCHANGED <<job, drive, notion>>
    BY <1>3 DEF Promote, SuggestRevision, Reject, Publish, View
  <2>3. req' = [req EXCEPT ![t] = [kind |-> kind, at |-> place, draft |-> staged.draft]]
           /\ job[t] = NoJob
    BY <2>1 DEF Begin
  <2>4. Moves(t) /\ InPlace(t)'
    BY <2>1, <2>2, <2>3 DEF Moves, InPlace, Threaded, Done, TapsTyped, NoJob
  <2> QED BY <2>4, OthersInPlace
<1>4. ASSUME NEW t \in Taps, Canonicalize(t) \/ Note(t) \/ Announced(t) \/ Mark(t)
                               \/ Archive(t) \/ Remove(t) \/ Record(t)
      PROVE  AllInPlace'
  <2>1. InPlace(t)
    BY DEF AllInPlace
  <2>2. UNCHANGED <<job, drive, notion>>
    BY <1>4 DEF Canonicalize, Note, Announced, Mark, Archive, Remove, Record
  <2>3. \/ req' = [req EXCEPT ![t] = Idle]
        \/ \E place \in Stations(req[t].kind) :
              /\ req' = [req EXCEPT ![t].at = place]
              /\ place \notin {"idle", "drive", "notion"}
              /\ req[t].kind = "promote" /\ place \in {"archive", "remove", "record"}
                   => drive # 0 /\ notion
    BY <1>4, <2>1 DEF Canonicalize, Refuse, Raise, Note, Announced, Mark, Archive, Remove, Record,
                GoTo, Await, Finish, InPlace, Stations, Done, TapsTyped, Request, Kinds
  <2>4. req[t].at \notin {"drive", "notion"} /\ job[t].at \in JobPlaces
    BY <1>4 DEF Canonicalize, Note, Announced, Mark, Archive, Remove, Record, TapsTyped, Job, JobPlaces
  <2>5. Moves(t) /\ InPlace(t)'
    BY <2>1, <2>2, <2>3, <2>4 DEF Moves, InPlace, Threaded, Done, TapsTyped, NoJob, Idle, Stations, Request, JobPlaces
  <2> QED BY <2>5, OthersInPlace
<1>5. ASSUME NEW t \in Taps, Check(t)
      PROVE  AllInPlace'
  <2>1. InPlace(t) /\ UNCHANGED <<drive, notion>> /\ req[t].at = "check" /\ req[t].kind \in {"promote", "publish"}
    BY <1>5 DEF Check, AllInPlace, InPlace, Stations, TapsTyped, Request, Kinds
  <2>2. job[t] = NoJob
    BY <2>1 DEF InPlace, Threaded, TapsTyped, Job
  <2>3. CASE Refuse(t) /\ UNCHANGED job
    BY <2>1, <2>2, <2>3, OthersInPlace DEF Refuse, Finish, Moves, InPlace, Threaded, Done, TapsTyped, Idle, NoJob, Stations
  <2>4. ASSUME NEW d \in Drafts, NEW path,
               req' = [req EXCEPT ![t] = [kind |-> req[t].kind, at |-> "drive", draft |-> d]],
               job' = [job EXCEPT ![t] = [at |-> "drive", draft |-> d, path |-> path,
                                          leased |-> req[t].kind = "promote"]]
        PROVE  AllInPlace'
    <3>1. Moves(t)
      BY <2>1, <2>4 DEF Moves, TapsTyped
    <3>2. InPlace(t)'
      BY <2>1, <2>4 DEF InPlace, Threaded, Done, TapsTyped, NoJob, Stations
    <3> QED BY <3>1, <3>2, OthersInPlace
  <2>5. canon \in Drafts /\ staged.draft \in Drafts
    BY DEF RestTyped, Package
  <2> QED BY <1>5, <2>3, <2>4, <2>5 DEF Check
<1>6. ASSUME NEW t \in Taps, AfterDrive(t) \/ AfterNotion(t) \/ Timeout(t)
      PROVE  AllInPlace'
  <2>1. InPlace(t) /\ UNCHANGED <<drive, notion>> /\ req[t].at \in {"drive", "notion"}
    BY <1>6 DEF AfterDrive, AfterNotion, Timeout, AllInPlace
  <2>2. req[t].kind \in {"promote", "publish"} /\ job[t].at \in JobPlaces
    BY <2>1 DEF InPlace, Stations, TapsTyped, Request, Kinds, Job, JobPlaces
  <2>3. CASE req' = [req EXCEPT ![t] = Idle] /\ job' = [job EXCEPT ![t] = NoJob]
    BY <2>1, <2>3, OthersInPlace DEF Moves, InPlace, Threaded, Done, TapsTyped, Idle, NoJob, Stations
  <2>4. CASE Timeout(t) /\ UNCHANGED job
    <3>1. req' = [req EXCEPT ![t] = Idle] /\ job[t].at \notin {"ok", "failed"}
      BY <2>1, <2>4 DEF Timeout, Finish, TapsTyped, Job, NoJob
    <3> QED BY <2>1, <2>4, <3>1, OthersInPlace DEF Moves, InPlace, Threaded, Done, TapsTyped, Idle, Stations
  <2>5. CASE AfterDrive(t) /\ req' = [req EXCEPT ![t].at = "notion"]
                           /\ job' = [job EXCEPT ![t].at = "notion"] /\ job[t].at = "ok"
    <3>1. req'[t] = [req[t] EXCEPT !.at = "notion"] /\ job'[t] = [job[t] EXCEPT !.at = "notion"]
      BY <2>5 DEF TapsTyped
    <3>2. /\ req'[t].at = "notion" /\ req'[t].kind = req[t].kind
          /\ job'[t].at = "notion" /\ job'[t].leased = job[t].leased
      BY <3>1 DEF TapsTyped, Request, Job
    <3>3. InPlace(t)'
      BY <2>1, <2>2, <2>5, <3>2 DEF InPlace, Threaded, Done, Stations
    <3> QED BY <2>1, <2>5, <3>3, OthersInPlace DEF Moves, TapsTyped
  <2>6. CASE AfterNotion(t) /\ req' = [req EXCEPT ![t].at = "archive"]
                            /\ job' = [job EXCEPT ![t] = NoJob] /\ Answered(t) /\ req[t].kind = "promote"
    <3>1. /\ req'[t].at = "archive" /\ req'[t].kind = "promote" /\ job'[t] = NoJob
      BY <2>6 DEF TapsTyped, Request
    <3>2. drive # 0 /\ notion
      BY <2>1, <2>6 DEF InPlace, Done, Answered, AfterNotion
    <3>3. InPlace(t)'
      BY <2>1, <3>1, <3>2 DEF InPlace, Threaded, Done, Stations, NoJob
    <3> QED BY <2>1, <2>6, <3>3, OthersInPlace DEF Moves, TapsTyped
  <2> QED BY <1>6, <2>3, <2>4, <2>5, <2>6 DEF AfterDrive, AfterNotion, Timeout, Refuse, Finish, GoTo, Await
<1>7. ASSUME NEW t \in Taps, Drive(t) \/ NotionUpdate(t)
      PROVE  AllInPlace'
  <2>1. InPlace(t) /\ UNCHANGED req /\ job[t].at \in {"drive", "notion"}
    BY <1>7 DEF Drive, NotionUpdate, AllInPlace
  <2>2. Moves(t)
    <3>1. \A u \in Taps \ {t} : job'[u] = job[u]
      BY <1>7 DEF Drive, NotionUpdate, JobEnds, TapsTyped
    <3> QED BY <1>7, <2>1, <3>1 DEF Drive, NotionUpdate, Moves
  <2>3. CASE req[t] = Idle
    <3>1. job'[t] = NoJob
      BY <1>7, <2>3 DEF Drive, NotionUpdate, JobEnds, TapsTyped
    <3>2. InPlace(t)'
      BY <2>1, <2>3, <3>1 DEF InPlace, Threaded, Done, NoJob, Idle, Stations
    <3> QED BY <2>2, <3>2, OthersInPlace
  <2>4. CASE req[t] # Idle
    <3>1. PICK place \in {"ok", "failed"} :
               /\ job' = [job EXCEPT ![t] = [job[t] EXCEPT !.at = place]]
               /\ place = "ok" /\ job[t].at = "drive" => drive' # 0
               /\ place = "ok" /\ job[t].at = "notion" => notion' /\ drive' = drive
      <4>1. CASE Drive(t)
        BY <2>4, <4>1 DEF Drive, JobEnds, RestTyped, NoDir
      <4>2. CASE NotionUpdate(t)
        BY <2>4, <4>2 DEF NotionUpdate, JobEnds
      <4> QED BY <1>7, <4>1, <4>2
    <3>2. job'[t] = [job[t] EXCEPT !.at = place]
      BY <3>1 DEF TapsTyped
    <3>3. job'[t].at = place /\ job'[t].leased = job[t].leased
      BY <3>2 DEF TapsTyped, Job
    <3>4. req[t].at # "idle"
      BY <2>4 DEF TapsTyped
    <3>5. InPlace(t)'
      BY <2>1, <3>1, <3>3, <3>4 DEF InPlace, Threaded, Done
    <3> QED BY <2>2, <3>5, OthersInPlace
  <2> QED BY <2>3, <2>4
<1>8. ASSUME Dispatch \/ Stage \/ Receipt \/ ScanCards \/ EmitCard \/ Start \/ Sweep \/ UNCHANGED vars
      PROVE  UNCHANGED <<req, job, drive, notion>>
  BY <1>8 DEF Dispatch, Stage, Receipt, ScanCards, EmitCard, Start, Sweep, vars
<1> QED BY <1>1, <1>2, <1>3, <1>4, <1>5, <1>6, <1>7, <1>8 DEF Next, Handler

LEMMA ServicesGain ==
    ASSUME TypeInv, [Next]_vars
    PROVE  (drive # 0 => drive' # 0) /\ (notion => notion')
<1> USE DEF lease, disk, worker, services, process, history
<1>1. ASSUME NEW t \in Taps, Drive(t) \/ NotionUpdate(t)
      PROVE  (drive # 0 => drive' # 0) /\ (notion => notion')
  BY <1>1 DEF Drive, NotionUpdate
<1>2. ASSUME NEW t \in Taps,
             \/ Promote(t) \/ SuggestRevision(t) \/ Reject(t) \/ Publish(t) \/ View(t)
             \/ Handler(t) \/ Timeout(t)
      PROVE  UNCHANGED services
  BY <1>2 DEF Promote, SuggestRevision, Reject, Publish, View, Handler, Canonicalize, Check,
              AfterDrive, AfterNotion, Note, Announced, Mark, Archive, Remove, Record, Timeout
<1>3. ASSUME Dispatch \/ Stage \/ Receipt \/ ScanCards \/ EmitCard \/ Crash \/ Start \/ Sweep
             \/ UNCHANGED vars
      PROVE  UNCHANGED services
  BY <1>3 DEF Dispatch, Stage, Receipt, ScanCards, EmitCard, Crash, Start, Sweep, vars
<1> QED BY <1>1, <1>2, <1>3 DEF Next

\* Only a promotion that is through writes "applied".
LEMMA LedgerMoves ==
    ASSUME [Next]_vars
    PROVE  \/ UNCHANGED ledger
           \/ \E t \in Taps : Record(t) /\ ledger' = Disposition(req[t].kind)
<1> USE DEF lease, disk, worker, services, process, history
<1>1. ASSUME NEW t \in Taps, Record(t)
      PROVE  UNCHANGED ledger \/ ledger' = Disposition(req[t].kind)
  BY <1>1 DEF Record
<1>2. ASSUME NEW t \in Taps,
             \/ Promote(t) \/ SuggestRevision(t) \/ Reject(t) \/ Publish(t) \/ View(t)
             \/ Canonicalize(t) \/ Check(t) \/ AfterDrive(t) \/ AfterNotion(t) \/ Note(t)
             \/ Announced(t) \/ Mark(t) \/ Archive(t) \/ Remove(t)
             \/ Drive(t) \/ NotionUpdate(t) \/ Timeout(t)
      PROVE  UNCHANGED ledger
  BY <1>2 DEF Promote, SuggestRevision, Reject, Publish, View, Canonicalize, Check,
              AfterDrive, AfterNotion, Note, Announced, Mark, Archive, Remove, Timeout,
              Drive, NotionUpdate
<1>3. ASSUME Dispatch \/ Stage \/ Receipt \/ ScanCards \/ EmitCard \/ Crash \/ Start \/ Sweep
             \/ UNCHANGED vars
      PROVE  UNCHANGED ledger
  BY <1>3 DEF Dispatch, Stage, Receipt, ScanCards, EmitCard, Crash, Start, Sweep, vars
<1> QED BY <1>1, <1>2, <1>3 DEF Next, Handler

LEMMA DeliveryStep ==
    TypeInv /\ AllInPlace /\ AppliedIsDelivered /\ [Next]_vars => AppliedIsDelivered'
<1> SUFFICES ASSUME TypeInv, AllInPlace, AppliedIsDelivered, [Next]_vars
             PROVE  AppliedIsDelivered'
  OBVIOUS
<1>1. (drive # 0 => drive' # 0) /\ (notion => notion')
  BY ServicesGain
<1>2. CASE UNCHANGED ledger
  BY <1>1, <1>2 DEF AppliedIsDelivered
<1>3. ASSUME NEW t \in Taps, Record(t), ledger' = Disposition(req[t].kind)
      PROVE  AppliedIsDelivered'
  <2>1. req[t].kind = "promote" => drive # 0 /\ notion
    BY <1>3 DEF AllInPlace, InPlace, Done, Record
  <2> QED BY <1>1, <1>3, <2>1 DEF AppliedIsDelivered, Disposition
<1> QED BY <1>2, <1>3, LedgerMoves

-----------------------------------------------------------------------------
(* Drafts: what is on record was archived first                            *)

Numbered ==
    /\ staged.draft <= drafts /\ canon <= drafts
    /\ \A d \in settled : d <= drafts
    /\ \A t \in Taps : req[t].draft <= drafts

\* A disposition that has archived its draft finds no draft, or a newer one.
Archived(t) ==
    req[t].kind \in {"promote", "reject"} /\ req[t].at \in {"remove", "record"}
        => staged.draft = 0 \/ staged.draft > req[t].draft

DraftInv == Numbered /\ SettledIsArchived /\ \A t \in Taps : Archived(t)

LEMMA DraftStep == TypeInv /\ AllInPlace /\ DraftInv /\ [Next]_vars => DraftInv'
<1> SUFFICES ASSUME TypeInv, AllInPlace, DraftInv, [Next]_vars PROVE DraftInv'
  OBVIOUS
<1> USE DEF TypeInv, RestTyped, lease, disk, worker, services, process, history
<1>t. /\ drafts \in Nat /\ staged.draft \in Nat /\ canon \in Nat /\ settled \subseteq Nat
      /\ req \in [Taps -> Request] /\ \A t \in Taps : req[t].draft \in Nat
  BY DEF TapsTyped, Drafts, Package, Request
<1>1. ASSUME staged'.draft \in {0, staged.draft}, UNCHANGED <<canon, settled, drafts, req>>
      PROVE  DraftInv'
  BY <1>t, <1>1 DEF DraftInv, Numbered, SettledIsArchived, Archived
<1>2. ASSUME Dispatch \/ Receipt \/ ScanCards \/ EmitCard \/ Start \/ Sweep \/ UNCHANGED vars
      PROVE  staged'.draft \in {0, staged.draft} /\ UNCHANGED <<canon, settled, drafts, req>>
  BY <1>2 DEF Dispatch, Receipt, ScanCards, EmitCard, Start, Sweep, ArchiveStaged, NoDir, vars
<1>3. ASSUME NEW t \in Taps, Drive(t) \/ NotionUpdate(t)
      PROVE  staged'.draft \in {0, staged.draft} /\ UNCHANGED <<canon, settled, drafts, req>>
  BY <1>3 DEF Drive, NotionUpdate
<1>4. CASE Stage
  <2>1. staged'.draft = drafts + 1 /\ drafts' = drafts + 1 /\ UNCHANGED <<canon, settled, req>>
    BY <1>4 DEF Stage
  <2> QED BY <1>t, <2>1 DEF DraftInv, Numbered, SettledIsArchived, Archived
<1>5. CASE Crash
  BY <1>t, <1>5 DEF Crash, DraftInv, Numbered, SettledIsArchived, Archived, Idle
<1>6. ASSUME NEW t \in Taps, NEW new \in Request, req' = [req EXCEPT ![t] = new],
             new.draft <= drafts, Archived(t)',
             staged'.draft \in {0, staged.draft}, canon' \in {canon, staged.draft},
             settled' = settled, drafts' = drafts
      PROVE  DraftInv'
  BY <1>t, <1>6 DEF DraftInv, Numbered, SettledIsArchived, Archived
<1>7. ASSUME NEW t \in Taps,
             Promote(t) \/ SuggestRevision(t) \/ Reject(t) \/ Publish(t) \/ View(t)
      PROVE  DraftInv'
  <2>1. PICK kind \in Kinds, place \in Places :
             /\ Begin(t, kind, place)
             /\ kind \in {"promote", "reject"} => place \notin {"remove", "record"}
    BY <1>7 DEF Promote, SuggestRevision, Reject, Publish, View, Lease, Kinds, Places
  <2>2. UNCHANGED <<staged, canon, settled, drafts>>
    BY <1>7 DEF Promote, SuggestRevision, Reject, Publish, View
  <2>3. [kind |-> kind, at |-> place, draft |-> staged.draft] \in Request
    BY DEF Request, Package
  <2>4. Archived(t)'
    BY <1>t, <2>1 DEF Begin, Archived
  <2> QED BY <1>6, <2>1, <2>2, <2>3, <2>4 DEF Begin, DraftInv, Numbered
<1>8. ASSUME NEW t \in Taps, Check(t)
      PROVE  DraftInv'
  <2>1. UNCHANGED <<staged, canon, settled, drafts>>
    BY <1>8 DEF Check
  <2>2. CASE Refuse(t)
    BY <1>t, <2>1, <2>2 DEF Refuse, Finish, Idle, DraftInv, Numbered, SettledIsArchived, Archived
  <2>3. ASSUME NEW d \in {canon, staged.draft},
               req' = [req EXCEPT ![t] = [kind |-> req[t].kind, at |-> "drive", draft |-> d]]
        PROVE  DraftInv'
    BY <1>t, <2>1, <2>3 DEF DraftInv, Numbered, SettledIsArchived, Archived
  <2> QED BY <1>8, <2>2, <2>3 DEF Check
<1>9. ASSUME NEW t \in Taps, Finish(t), staged'.draft \in {0, staged.draft},
             canon' \in {canon, staged.draft}, settled' = settled, drafts' = drafts
      PROVE  DraftInv'
  BY <1>t, <1>9 DEF Finish, Idle, DraftInv, Numbered, SettledIsArchived, Archived
<1>10. ASSUME NEW t \in Taps, NEW place \in Places, req' = [req EXCEPT ![t].at = place],
              \/ place \notin {"remove", "record"} \/ staged'.draft = 0
              \/ req[t].kind \notin {"promote", "reject"}
              \/ req[t].at \in {"remove", "record"},
              staged'.draft \in {0, staged.draft}, canon' \in {canon, staged.draft},
              settled' = settled, drafts' = drafts
       PROVE  DraftInv'
  BY <1>t, <1>10 DEF Request, DraftInv, Numbered, SettledIsArchived, Archived
<1>11. ASSUME NEW t \in Taps, Canonicalize(t) \/ AfterDrive(t) \/ AfterNotion(t) \/ Timeout(t)
                               \/ Mark(t) \/ Archive(t) \/ Remove(t)
       PROVE  DraftInv'
  <2>1. /\ staged'.draft \in {0, staged.draft} /\ canon' \in {canon, staged.draft}
        /\ settled' = settled /\ drafts' = drafts
    BY <1>11 DEF Canonicalize, AfterDrive, AfterNotion, Timeout, Mark, Archive, Remove,
                 ArchiveStaged, NoDir, Package
  <2>2. \/ Finish(t)
        \/ \E place \in Places :
              /\ req' = [req EXCEPT ![t].at = place]
              /\ \/ place \notin {"remove", "record"} \/ staged'.draft = 0
                 \/ req[t].kind \notin {"promote", "reject"}
                 \/ req[t].at \in {"remove", "record"}
    BY <1>11 DEF Canonicalize, AfterDrive, AfterNotion, Timeout, Mark, Archive, Remove,
                 Refuse, Raise, GoTo, Await, ArchiveStaged, NoDir, Places
  <2> QED BY <1>9, <1>10, <2>1, <2>2
<1>12. ASSUME NEW t \in Taps, Note(t) \/ Announced(t)
       PROVE  DraftInv'
  <2>1. UNCHANGED <<staged, canon, settled, drafts>>
    BY <1>12 DEF Note, Announced
  <2>2. req[t].kind = "revise"
    BY <1>12 DEF Note, Announced, AllInPlace, InPlace, Stations
  <2>3. Finish(t) \/ \E place \in Places : req' = [req EXCEPT ![t].at = place]
    BY <1>12 DEF Note, Announced, Raise, GoTo, Await, Places
  <2> QED BY <1>9, <1>10, <2>1, <2>2, <2>3
<1>13. ASSUME NEW t \in Taps, Record(t)
       PROVE  DraftInv'
  <2>1. UNCHANGED <<staged, canon, drafts>> /\ settled' \in {settled, settled \cup {req[t].draft}}
    BY <1>13 DEF Record
  <2>2. settled' # settled => req[t].kind \in {"promote", "reject"} /\ req[t].at = "record"
    BY <1>13 DEF Record, Disposition
  <2>3. SettledIsArchived'
    BY <1>t, <2>1, <2>2 DEF SettledIsArchived, DraftInv, Archived
  <2>4. Finish(t) \/ req' = [req EXCEPT ![t].at = "mark"]
    BY <1>13 DEF Record, Raise, GoTo
  <2> QED BY <1>t, <2>1, <2>3, <2>4 DEF Finish, Idle, Request, DraftInv, Numbered, Archived
<1> QED BY <1>1, <1>2, <1>3, <1>4, <1>5, <1>7, <1>8, <1>11, <1>12, <1>13 DEF Next, Handler

-----------------------------------------------------------------------------
(* Leases                                                                  *)

\* A disposition that has removed the card leaves no lease.
Released(t) ==
    req[t].at \in {"record", "mark"} \/ (req[t].kind = "revise" /\ req[t].at = "archive")
        => card # "leased"

LeaseInv == LeaseHasOwner /\ \A t \in Taps : Released(t)

\* A step of one tap changes nothing of the others.
Alone(t) == \A u \in Taps \ {t} : req'[u] = req[u] /\ job'[u] = job[u]

LEMMA StepsAlone ==
    ASSUME TypeInv, NEW t \in Taps,
           \/ Promote(t) \/ SuggestRevision(t) \/ Reject(t) \/ Publish(t) \/ View(t)
           \/ Handler(t) \/ Drive(t) \/ NotionUpdate(t) \/ Timeout(t)
    PROVE  Alone(t)
<1> USE DEF TypeInv, TapsTyped, lease, disk, worker, services, process, history, Alone
<1>1. CASE Promote(t) \/ SuggestRevision(t) \/ Reject(t) \/ Publish(t) \/ View(t)
  BY <1>1 DEF Promote, SuggestRevision, Reject, Publish, View, Lease, Begin
<1>2. CASE Canonicalize(t) \/ Note(t) \/ Announced(t) \/ Mark(t) \/ Archive(t) \/ Remove(t)
           \/ Record(t)
  BY <1>2 DEF Canonicalize, Note, Announced, Mark, Archive, Remove, Record, Refuse,
              Raise, Finish, GoTo, Await
<1>3. CASE Check(t) \/ AfterDrive(t) \/ AfterNotion(t) \/ Timeout(t)
  BY <1>3 DEF Check, AfterDrive, AfterNotion, Timeout, Refuse, Finish, GoTo, Await
<1>4. CASE Drive(t) \/ NotionUpdate(t)
  BY <1>4 DEF Drive, NotionUpdate, JobEnds
<1> QED BY <1>1, <1>2, <1>3, <1>4 DEF Handler

LEMMA LeaseStep == TypeInv /\ AllInPlace /\ LeaseInv /\ [Next]_vars => LeaseInv'
<1> SUFFICES ASSUME TypeInv, AllInPlace, LeaseInv, [Next]_vars PROVE LeaseInv'
  OBVIOUS
<1> USE DEF lease, disk, worker, services, process, history
\* No step but a lease makes the card leased.
<1>1. ASSUME UNCHANGED req, \/ card' # "leased"
                             \/ (card' = card /\ raised')
                             \/ UNCHANGED <<lease, swept>>
      PROVE  LeaseInv'
  BY <1>1 DEF LeaseInv, LeaseHasOwner, Released, Owns
<1>2. ASSUME Dispatch \/ Stage \/ Receipt \/ ScanCards \/ EmitCard \/ Start \/ Sweep \/ UNCHANGED vars
      PROVE  LeaseInv'
  <2>1. UNCHANGED req
    BY <1>2 DEF Dispatch, Stage, Receipt, ScanCards, EmitCard, Start, Sweep, vars
  <2>2. CASE Sweep
    BY <1>1, <2>1, <2>2 DEF Sweep, ClearLease, Unleased
  <2>3. CASE EmitCard
    BY <1>1, <2>1, <2>3 DEF EmitCard
  <2>4. ASSUME Dispatch \/ Stage \/ Receipt \/ ScanCards \/ Start \/ UNCHANGED vars
        PROVE  UNCHANGED <<lease, swept>>
    BY <2>4 DEF Dispatch, Stage, Receipt, ScanCards, Start, vars
  <2> QED BY <1>1, <1>2, <2>1, <2>2, <2>3, <2>4
<1>3. CASE Crash
  BY <1>3 DEF Crash, LeaseInv, LeaseHasOwner, Released, Idle
<1>4. ASSUME NEW t \in Taps, Promote(t) \/ SuggestRevision(t)
      PROVE  LeaseInv'
  <2>1. loop = NoTap /\ \A u \in Taps : req[u].at \notin OnLoop
    BY <1>4 DEF Promote, SuggestRevision, Lease, Begin, LoopFree, TypeInv, TapsTyped
  <2>2. \/ req'[t].kind = "promote" /\ req'[t].at = "canonicalize"
        \/ req'[t].kind = "revise" /\ req'[t].at = "note"
    BY <1>4 DEF Promote, SuggestRevision, Lease, Begin, TypeInv, TapsTyped
  <2>3. Alone(t)
    BY <1>4, StepsAlone
  <2> QED BY <2>1, <2>2, <2>3 DEF LeaseInv, LeaseHasOwner, Released, Owns, Alone, OnLoop
<1>5. ASSUME NEW t \in Taps, Alone(t), Released(t)', Owns(t) => Owns(t)' \/ card' # "leased" \/ expired' \/ raised',
             card' # "leased" \/ card' = card, swept' = swept,
             expired \/ raised => expired' \/ raised' \/ card' # "leased"
      PROVE  LeaseInv'
  BY <1>5 DEF LeaseInv, LeaseHasOwner, Released, Owns, Alone
<1>6. ASSUME NEW t \in Taps, Reject(t) \/ Publish(t) \/ View(t)
      PROVE  LeaseInv'
  <2>1. /\ ~Owns(t) /\ Released(t)' /\ UNCHANGED <<card, swept, expired, raised>>
    BY <1>6 DEF Reject, Publish, View, Begin, Owns, Idle, Released, TypeInv, TapsTyped
  <2> QED BY <1>5, <1>6, <2>1, StepsAlone
<1>7. ASSUME NEW t \in Taps, Drive(t) \/ NotionUpdate(t)
      PROVE  LeaseInv'
  BY <1>1, <1>7 DEF Drive, NotionUpdate
<1>8. ASSUME NEW t \in Taps, Canonicalize(t) \/ Check(t) \/ AfterDrive(t) \/ AfterNotion(t) \/ Timeout(t)
      PROVE  LeaseInv'
  <2>1. req[t].kind \in {"promote", "publish"}
    BY <1>8 DEF Canonicalize, Check, AfterDrive, AfterNotion, Timeout, AllInPlace, InPlace, Stations,
                TypeInv, TapsTyped, Request, Kinds
  <2>2. CASE Refuse(t) /\ swept' = swept
    BY <1>5, <1>8, <2>1, <2>2, StepsAlone DEF Refuse, ClearLease, Finish, Idle, Unleased, Owns, Released, TypeInv, TapsTyped, Handler
  <2>3. CASE Timeout(t)
    BY <1>5, <2>3, StepsAlone DEF Timeout, Finish, Idle, Owns, Released, TypeInv, TapsTyped
  <2>4. ASSUME UNCHANGED <<card, swept, expired, raised>>, req'[t].kind = req[t].kind,
               req'[t].at \in {"check", "drive", "notion", "archive"}
        PROVE  LeaseInv'
    BY <1>5, <1>8, <2>1, <2>4, StepsAlone DEF Owns, Released, Handler
  <2> QED BY <1>8, <2>2, <2>3, <2>4 DEF Canonicalize, Check, AfterDrive, AfterNotion, Await, GoTo,
                                        TypeInv, TapsTyped, Request
\* A handler that ends leaves the card unleased, a lease that was not its own,
\* or an exception.
<1>e. ASSUME NEW t \in Taps, Alone(t), swept' = swept, Finish(t),
             Raise(t) \/ ClearLease \/ (UNCHANGED lease /\ (Owns(t) => card # "leased"))
      PROVE  LeaseInv'
  <2>1. ~Owns(t)' /\ Released(t)'
    BY <1>e DEF Finish, Idle, Owns, Released, TypeInv, TapsTyped
  <2>2. Owns(t) /\ card = "leased" => req[t].kind \in {"promote", "revise"}
    BY DEF Owns
  <2>3. CASE ClearLease
    BY <1>5, <1>e, <2>1, <2>3 DEF ClearLease, Unleased
  <2>4. CASE UNCHANGED <<card, expired>> /\ (raised => raised') /\ (Owns(t) /\ card = "leased" => raised')
    BY <1>5, <1>e, <2>1, <2>4
  <2>5. CASE Raise(t) /\ req[t].kind # "revise"
    <3>1. UNCHANGED <<card, expired>> /\ raised' = (raised \/ (card = "leased" /\ req[t].kind = "promote"))
      BY <2>5 DEF Raise
    <3> QED BY <2>2, <2>4, <2>5, <3>1
  <2>6. CASE Raise(t) /\ req[t].kind = "revise"
    BY <2>3, <2>6 DEF Raise
  <2>7. CASE UNCHANGED lease /\ (Owns(t) => card # "leased")
    BY <2>4, <2>7
  <2> QED BY <1>e, <2>3, <2>5, <2>6, <2>7
<1>9. ASSUME NEW t \in Taps, Note(t) \/ Announced(t) \/ Mark(t)
      PROVE  LeaseInv'
  <2>1. req[t].kind = "revise" /\ Alone(t) /\ swept' = swept
    BY <1>9, StepsAlone DEF Note, Announced, Mark, Handler, AllInPlace, InPlace, Stations, TypeInv, TapsTyped,
                Request, Kinds
  <2>2. CASE Raise(t)
    BY <1>e, <2>1, <2>2 DEF Raise
  <2>3. CASE Mark(t) /\ GoTo(t, "archive") /\ UNCHANGED lease
    <3>1. req[t].at = "mark" /\ req'[t].kind = "revise" /\ req'[t].at = "archive"
      BY <2>1, <2>3 DEF Mark, GoTo, TypeInv, TapsTyped, Request
    <3>2. card # "leased"
      BY <3>1 DEF LeaseInv, Released
    <3> QED BY <1>5, <2>1, <2>3, <3>1, <3>2 DEF Owns, Released
  <2>4. CASE (Note(t) \/ Announced(t)) /\ UNCHANGED lease /\ (Await(t, "announce") \/ GoTo(t, "remove"))
    <3>1. req'[t].kind = "revise" /\ req'[t].at \in {"announce", "remove"}
      BY <2>1, <2>4 DEF GoTo, Await, TypeInv, TapsTyped, Request
    <3> QED BY <1>5, <2>1, <2>4, <3>1 DEF Owns, Released
  <2> QED BY <1>9, <2>2, <2>3, <2>4 DEF Note, Announced, Mark
<1>10. ASSUME NEW t \in Taps, Archive(t)
       PROVE  LeaseInv'
  <2>1. Alone(t) /\ swept' = swept
    BY <1>10, StepsAlone DEF Archive, Handler
  <2>2. CASE Finish(t) /\ (Raise(t) \/ ClearLease)
    BY <1>e, <2>1, <2>2
  <2>3. CASE req[t].kind # "revise" /\ GoTo(t, "remove") /\ UNCHANGED lease
    BY <1>5, <2>1, <2>3, <1>10 DEF Archive, GoTo, Owns, Released, TypeInv, TapsTyped, Request
  <2> QED BY <1>10, <2>2, <2>3 DEF Archive, Raise
<1>11. ASSUME NEW t \in Taps, Remove(t)
       PROVE  LeaseInv'
  <2>1. Alone(t) /\ swept' = swept
    BY <1>11, StepsAlone DEF Remove, Handler
  <2>2. CASE card' = "none"
    BY <1>5, <2>1, <2>2 DEF Released
  <2>3. CASE Raise(t) \/ (card = "none" /\ Finish(t) /\ UNCHANGED lease)
    BY <1>e, <2>1, <2>3 DEF Raise
  <2> QED BY <1>11, <2>2, <2>3 DEF Remove
<1>12. ASSUME NEW t \in Taps, Record(t)
       PROVE  LeaseInv'
  <2>1. card # "leased" /\ card' = card
    BY <1>12 DEF Record, Raise, ClearLease, Unleased, LeaseInv, Released
  <2> QED BY <1>5, <1>12, <2>1, StepsAlone DEF Record, Released, Handler
<1> QED BY <1>2, <1>3, <1>4, <1>6, <1>7, <1>8, <1>9, <1>10, <1>11, <1>12 DEF Next, Handler

-----------------------------------------------------------------------------
(* The first draft's era: until something is on record, nothing is drafted *)
(* after the first receipt, and a disposition under way found no draft.    *)

Closing(t) ==
    /\ req[t].kind \notin {"none", "publish"} => successes > 0
    /\ ledger = "none" /\ req[t].kind \in {"promote", "reject", "view"}
         /\ req[t].at \in {"remove", "record"} => staged.draft = 0

EraInv ==
    /\ ledger = "none" /\ successes > 0 => run = "none"
    /\ card # "none" => successes > 0
    /\ \A t \in Taps : Closing(t)

LEMMA EraStep == TypeInv /\ AllInPlace /\ EraInv /\ [Next]_vars => EraInv'
<1> SUFFICES ASSUME TypeInv, AllInPlace, EraInv, [Next]_vars PROVE EraInv'
  OBVIOUS
<1> USE DEF lease, disk, worker, services, process, history
<1>t. successes \in Nat /\ req \in [Taps -> Request]
  BY DEF TypeInv, RestTyped, TapsTyped, Drafts
<1>1. ASSUME UNCHANGED <<req, ledger, successes>>, run' \in {run, "none"}, card' = "none" \/ card # "none",
             staged.draft = 0 => staged'.draft = 0
      PROVE  EraInv'
  BY <1>1 DEF EraInv, Closing
<1>2. ASSUME ScanCards \/ Start \/ Sweep \/ UNCHANGED vars
      PROVE  EraInv'
  BY <1>1, <1>2 DEF ScanCards, Start, Sweep, ClearLease, Unleased, ArchiveStaged, NoDir, vars
<1>3. CASE Dispatch
  BY <1>3 DEF Dispatch, Eligible, UnitState, EraInv, Closing
<1>4. CASE Stage
  BY <1>4 DEF Stage, EraInv, Closing
<1>5. CASE Receipt
  BY <1>t, <1>5 DEF Receipt, EraInv, Closing
<1>6. CASE EmitCard
  <2>1. UNCHANGED <<req, ledger, successes, run, staged>> /\ (card' = card \/ NeedsCard)
    BY <1>6 DEF EmitCard
  <2>2. NeedsCard => successes = 1
    BY Zenon DEF NeedsCard
  <2> QED BY <2>1, <2>2 DEF EraInv, Closing
<1>7. CASE Crash
  BY <1>7 DEF Crash, EraInv, Closing, Idle
<1>8. ASSUME NEW t \in Taps, Alone(t), Closing(t)', UNCHANGED <<run, successes>>,
             ledger' = "none" => ledger = "none", card' = "none" \/ card # "none",
             staged.draft = 0 => staged'.draft = 0
      PROVE  EraInv'
  BY <1>8 DEF EraInv, Closing, Alone
<1>9. ASSUME NEW t \in Taps, Promote(t) \/ SuggestRevision(t) \/ Reject(t) \/ Publish(t) \/ View(t)
      PROVE  EraInv'
  <2>1. UNCHANGED <<staged, ledger, run, successes>> /\ (card' = "none" \/ card # "none")
    BY <1>9 DEF Promote, SuggestRevision, Reject, Publish, View, Lease
  <2>2. Closing(t)'
    BY <1>t, <1>9 DEF Promote, SuggestRevision, Reject, Publish, View, Lease, Begin, SettledElsewhere, EraInv, Closing
  <2> QED BY <1>8, <1>9, <2>1, <2>2, StepsAlone
<1>10. ASSUME NEW t \in Taps, Drive(t) \/ NotionUpdate(t)
       PROVE  EraInv'
  BY <1>1, <1>10 DEF Drive, NotionUpdate
<1>11. ASSUME NEW t \in Taps, Canonicalize(t) \/ Check(t) \/ AfterDrive(t) \/ AfterNotion(t) \/ Timeout(t)
                               \/ Mark(t) \/ Note(t) \/ Announced(t)
       PROVE  EraInv'
  <2>1. /\ UNCHANGED <<ledger, run, successes>> /\ (card' = "none" \/ card # "none")
        /\ staged.draft = 0 => staged'.draft = 0
    BY <1>11, CardMoves DEF Canonicalize, Check, AfterDrive, AfterNotion, Timeout, Mark, Note, Announced,
                 TypeInv, RestTyped, NoDir, Package
  <2>2. \/ req'[t] = Idle
        \/ /\ req'[t].kind = req[t].kind
           /\ req'[t].at \notin {"remove", "record"} \/ req[t].kind = "revise"
    BY <1>t, <1>11 DEF Canonicalize, Check, AfterDrive, AfterNotion, Timeout, Mark, Note, Announced, Refuse, Raise, Finish, GoTo, Await,
                       Request, AllInPlace, InPlace, Stations
  <2>3. Closing(t)'
    BY <2>1, <2>2 DEF Closing, Idle, EraInv
  <2> QED BY <1>8, <1>11, <2>1, <2>3, StepsAlone DEF Handler
<1>12. ASSUME NEW t \in Taps, Archive(t) \/ Remove(t)
       PROVE  EraInv'
  <2>1. /\ UNCHANGED <<ledger, run, successes>> /\ (card' = "none" \/ card # "none")
        /\ staged.draft = 0 => staged'.draft = 0
    BY <1>12, CardMoves DEF Archive, Remove, ArchiveStaged, NoDir, TypeInv, RestTyped, Package
  <2>2. req'[t] = Idle \/ (req'[t].kind = req[t].kind /\ (Archive(t) => staged'.draft = 0))
    <3>1. CASE Archive(t)
      BY <1>t, <3>1 DEF Archive, ArchiveStaged, NoDir, Raise, Finish, GoTo, Request
    <3>2. CASE Remove(t) /\ ~Archive(t)
      BY <1>t, <3>2 DEF Remove, Raise, Finish, GoTo, Request
    <3> QED BY <1>12, <3>1, <3>2
  <2>3. Remove(t) => req[t].at = "remove"
    BY DEF Remove
  <2>4. Closing(t)'
    BY <1>12, <2>1, <2>2, <2>3 DEF Closing, Idle, EraInv
  <2> QED BY <1>8, <1>12, <2>1, <2>4, StepsAlone DEF Handler
<1>13. ASSUME NEW t \in Taps, Record(t)
       PROVE  EraInv'
  <2>1. UNCHANGED <<staged, run, successes>> /\ (card' = "none" \/ card # "none")
          /\ (ledger' = "none" => ledger = "none")
    BY <1>13, CardMoves DEF Record, Disposition
  <2>2. req'[t] = Idle \/ (req'[t].kind = "revise" /\ req[t].kind = "revise")
    BY <1>t, <1>13 DEF Record, Raise, Finish, GoTo, Request
  <2>3. Closing(t)'
    BY <2>1, <2>2 DEF Closing, Idle, EraInv
  <2> QED BY <1>8, <1>13, <2>1, <2>3, StepsAlone DEF Handler
<1> QED BY <1>2, <1>3, <1>4, <1>5, <1>6, <1>7, <1>9, <1>10, <1>11, <1>12, <1>13 DEF Next, Handler

-----------------------------------------------------------------------------
(* One promotion publishes                                                 *)

AtMostOne(S) == \A t, u \in S : t = u

\* The promotions with a thread, under way or answered
Threads == {t \in Taps : job[t].leased}

\* Who took the card and has not given it up
Holding == {t \in Taps : Owns(t)} \cup Threads

\* A holder has the card leased; once something is on record the card may be
\* gone, and no other comes up.
One ==
    /\ AtMostOne(Holding)
    /\ Holding # {} => card = "leased" \/ (ledger # "none" /\ card # "open")

\* The only draft is archived, and no other is drafted unless a rejection is
\* recorded: promotions of cards put up since then find nothing to publish.
Gone ==
    /\ staged.draft = 0 /\ run = "none" /\ successes > 0
    /\ ledger = "none" \/ notion
    /\ AtMostOne(Threads)

Lone == ~displaced => One \/ Gone

LoneInv == TypeInv /\ AllInPlace /\ LeaseInv /\ EraInv /\ Lone

LEMMA OneKept ==
    ASSUME One, Holding' \subseteq Holding,
           \/ card' = card /\ ledger' = ledger
           \/ card' = "none" /\ ledger' # "none"
           \/ Holding' = {}
    PROVE  One'
BY DEF One, AtMostOne

LEMMA GoneKept ==
    ASSUME Gone, Threads' \subseteq Threads, staged'.draft = 0, run' = "none", successes' = successes,
           ledger' = ledger \/ notion', notion => notion'
    PROVE  Gone'
BY DEF Gone, AtMostOne

\* A thread of a promotion is under way, or its handler waits for it.
LEMMA HoldersInHand ==
    ASSUME TypeInv, AllInPlace, ~InHand
    PROVE  Holding = {}
<1> SUFFICES ASSUME NEW t \in Taps, job[t].leased PROVE InHand
  BY DEF Holding, Threads, InHand
<1>1. InPlace(t) /\ job[t] \in Job /\ req[t] \in Request
  BY DEF AllInPlace, TypeInv, TapsTyped
<1>2. job[t].at # "none"
  BY <1>1 DEF InPlace, Threaded, NoJob
<1>3. CASE job[t].at \in {"drive", "notion"}
  BY <1>3 DEF InHand, Publishing
<1>4. CASE job[t].at \in {"ok", "failed"}
  BY <1>1, <1>4 DEF InPlace, Threaded, Owns, InHand
<1> QED BY <1>1, <1>2, <1>3, <1>4 DEF Job

\* A handler that is not publishing has no thread.
LEMMA NoThread ==
    ASSUME TypeInv, AllInPlace, NEW t \in Taps, req[t].at \notin {"idle", "drive", "notion"}
    PROVE  job[t] = NoJob /\ t \notin Threads
<1>1. InPlace(t) /\ job[t] \in Job
  BY DEF AllInPlace, TypeInv, TapsTyped
<1>2. job[t] = NoJob
  BY <1>1 DEF InPlace, Threaded, Job
<1> QED BY <1>2 DEF Threads, NoJob

LEMMA Others ==
    ASSUME NEW t \in Taps, Alone(t)
    PROVE  /\ (job'[t].leased => job[t].leased) => Threads' \subseteq Threads
           /\ Holding' \subseteq Holding \cup {t}
           /\ (Owns(t)' \/ job'[t].leased => t \in Holding) => Holding' \subseteq Holding
           /\ AtMostOne(Holding) /\ t \in Holding /\ ~Owns(t)' /\ ~job'[t].leased => Holding' = {}
BY DEF Alone, Threads, Holding, Owns, AtMostOne

LEMMA LoneStep == LoneInv /\ [Next]_vars => Lone'
<1> SUFFICES ASSUME LoneInv, [Next]_vars, ~displaced' PROVE One' \/ Gone'
  BY DEF Lone
<1> USE DEF lease, disk, worker, services, process, history
<1>a. TypeInv /\ AllInPlace /\ LeaseInv /\ EraInv /\ Lone
  BY DEF LoneInv
<1>t. /\ successes \in Nat /\ drafts \in Nat /\ req \in [Taps -> Request] /\ job \in [Taps -> Job]
      /\ \A t \in Taps : req[t] \in Request /\ job[t] \in Job
  BY <1>a DEF TypeInv, RestTyped, TapsTyped, Drafts
<1>1. CASE Crash
  <2>1. Holding' = {}
    BY <1>1 DEF Crash, Holding, Threads, Owns, Idle, NoJob
  <2> QED BY <2>1 DEF One, AtMostOne
<1>b. ASSUME displaced PROVE displaced' \/ Crash
  <2>1. ASSUME NEW t \in Taps,
               Promote(t) \/ SuggestRevision(t) \/ Reject(t) \/ Publish(t) \/ View(t)
               \/ Handler(t) \/ Drive(t) \/ NotionUpdate(t) \/ Timeout(t)
        PROVE  displaced'
    <3>1. CASE Promote(t) \/ SuggestRevision(t) \/ Reject(t) \/ Publish(t) \/ View(t)
               \/ Drive(t) \/ NotionUpdate(t) \/ Timeout(t)
      BY <1>b, <3>1 DEF Promote, SuggestRevision, Reject, Publish, View, Drive, NotionUpdate, Timeout
    <3>2. CASE Handler(t)
      BY <1>b, <3>2 DEF Handler, Canonicalize, Check, AfterDrive, AfterNotion, Note, Announced, Mark,
                        Archive, Remove, Record
    <3> QED BY <2>1, <3>1, <3>2
  <2>2. ASSUME Dispatch \/ Stage \/ Receipt \/ ScanCards \/ EmitCard \/ Start \/ Sweep \/ UNCHANGED vars
        PROVE  displaced'
    BY <1>b, <2>2 DEF Dispatch, Stage, Receipt, ScanCards, EmitCard, Start, Sweep, vars
  <2> QED BY <2>1, <2>2 DEF Next
<1>2. CASE displaced
  BY <1>1, <1>2, <1>b
<1>m. ASSUME ~displaced PROVE One \/ Gone
  BY <1>a, <1>m DEF Lone
\* The worker, the ticker and the restart
<1>3. ASSUME UNCHANGED <<req, job>>
      PROVE  Holding' = Holding /\ Threads' = Threads
  BY <1>3 DEF Holding, Threads, Owns
<1>4. ASSUME ~displaced, Dispatch \/ Stage \/ Receipt
      PROVE  One' \/ Gone'
  <2>1. ~Gone
    BY <1>4, <1>t DEF Dispatch, Stage, Receipt, Eligible, UnitState, Gone
  <2>2. UNCHANGED <<req, job, card, ledger>>
    BY <1>4 DEF Dispatch, Stage, Receipt
  <2> QED BY <1>4, <1>m, <1>3, <2>1, <2>2, OneKept
<1>5. ASSUME ~displaced, ScanCards \/ Start \/ UNCHANGED vars
      PROVE  One' \/ Gone'
  <2>1. UNCHANGED <<req, job, card, ledger, staged, run, successes, notion>>
    BY <1>5 DEF ScanCards, Start, vars
  <2>2. Gone => Gone'
    BY <2>1, <1>3, GoneKept DEF Gone
  <2> QED BY <1>5, <1>m, <1>3, <2>1, <2>2, OneKept
<1>6. ASSUME ~displaced, EmitCard
      PROVE  One' \/ Gone'
  <2>1. UNCHANGED <<req, job, ledger, staged, run, successes, notion>>
    BY <1>6 DEF EmitCard
  <2>2. Gone => Gone'
    BY <2>1, <1>3, GoneKept DEF Gone
  <2>3. card' = card \/ (card = "none" /\ ledger = "none")
    <3>1. NeedsCard => ledger = "none"
      <4>1. ledger # "none" => UnitState \in {"Working", "Done"}
        BY DEF UnitState
      <4> QED BY <4>1 DEF NeedsCard
    <3> QED BY <1>6, <3>1 DEF EmitCard
  <2>4. ASSUME One PROVE One'
    BY <1>3, <2>1, <2>3, <2>4, OneKept DEF One
  <2> QED BY <1>6, <1>m, <2>2, <2>4
<1>7. ASSUME ~displaced, Sweep
      PROVE  One' \/ Gone'
  <2>1. UNCHANGED <<req, job, ledger, successes, notion>> /\ run' \in {run, "none"}
          /\ (staged.draft = 0 => staged'.draft = 0)
    BY <1>7 DEF Sweep, ArchiveStaged, NoDir
  <2>2. Gone => Gone'
    BY <2>1, <1>3, GoneKept DEF Gone
  <2>3. card' = card \/ ~InHand
    BY <1>7 DEF Sweep, ClearLease, Unleased
  <2>4. ASSUME One PROVE One'
    BY <1>a, <1>3, <2>1, <2>3, <2>4, OneKept, HoldersInHand
  <2> QED BY <1>7, <1>m, <2>2, <2>4
\* The taps
<1>8. ASSUME ~displaced, NEW t \in Taps, Reject(t) \/ Publish(t) \/ View(t) \/ Promote(t) \/ SuggestRevision(t)
      PROVE  One' \/ Gone'
  <2>1. UNCHANGED <<job, ledger, staged, run, successes, notion>> /\ Alone(t)
    BY <1>8, <1>a, StepsAlone DEF Promote, SuggestRevision, Reject, Publish, View
  <2>2. Gone => Gone'
    BY <2>1, GoneKept DEF Gone, Threads
  <2>3. CASE Reject(t) \/ Publish(t) \/ View(t)
    <3>1. card' = card /\ ~Owns(t)'
      BY <2>3, <1>t DEF Reject, Publish, View, Begin, Owns
    <3> QED BY <1>8, <1>m, <2>1, <2>2, <3>1, Others, OneKept DEF Holding, Threads
  <2>4. CASE Promote(t) \/ SuggestRevision(t)
    <3>1. card = "open" /\ card' = "leased"
      BY <2>4 DEF Promote, SuggestRevision, Lease
    <3>2. ASSUME One PROVE One'
      <4>1. Holding = {}
        BY <3>1, <3>2 DEF One
      <4>2. Holding' \subseteq {t}
        BY <2>1, <4>1, Others
      <4> QED BY <3>1, <4>2 DEF One, AtMostOne
    <3> QED BY <1>8, <1>m, <2>2, <3>2
  <2> QED BY <1>8, <2>3, <2>4
\* A step that takes nothing and gives nothing up
<1>q. ASSUME ~displaced, NEW t \in Taps, Alone(t),
             UNCHANGED <<card, ledger, run, successes>>, notion => notion',
             staged.draft = 0 => staged'.draft = 0,
             Owns(t)' => Owns(t), job'[t].leased => job[t].leased \/ (~Gone /\ Owns(t))
      PROVE  One' \/ Gone'
  <2>1. Gone => Gone'
    BY <1>q, Others, GoneKept DEF Gone
  <2>2. Holding' \subseteq Holding
    BY <1>q, Others DEF Holding, Threads
  <2> QED BY <1>m, <1>q, <2>1, <2>2, OneKept
\* A handler that ends and clears the lease it may hold
<1>r. ASSUME ~displaced, NEW t \in Taps, Alone(t), Refuse(t), ~job'[t].leased,
             UNCHANGED <<ledger, run, successes, notion, staged>>,
             req[t].kind \in {"promote", "publish"}, req[t].at # "idle"
      PROVE  One' \/ Gone'
  <2>1. ~Owns(t)'
    BY <1>r, <1>t DEF Refuse, Finish, Idle, Owns
  <2>2. CASE req[t].kind = "publish"
    <3>1. card' = card
      BY <1>r, <2>2 DEF Refuse, lease
    <3> QED BY <1>q, <1>r, <2>1, <3>1
  <2>3. CASE req[t].kind = "promote"
    <3>1. t \in Holding
      BY <1>r, <2>3 DEF Holding, Owns
    <3>2. One => Holding' = {}
      BY <1>r, <2>1, <3>1, Others DEF One
    <3>3. One => One'
      BY <3>2, OneKept
    <3>4. Gone => Gone'
      BY <1>r, Others, GoneKept DEF Gone
    <3> QED BY <1>m, <1>r, <3>3, <3>4
  <2> QED BY <1>r, <2>2, <2>3
<1>9. ASSUME ~displaced, NEW t \in Taps, Canonicalize(t) \/ Check(t) \/ AfterDrive(t) \/ AfterNotion(t)
      PROVE  One' \/ Gone'
  <2>1. req[t].kind \in {"promote", "publish"} /\ req[t].at \in {"canonicalize", "check", "drive", "notion"}
          /\ InPlace(t) /\ (Canonicalize(t) => req[t].kind = "promote")
    BY <1>9, <1>a, <1>t DEF Canonicalize, Check, AfterDrive, AfterNotion, AllInPlace, InPlace, Stations,
                Request, Kinds
  <2>2. UNCHANGED <<ledger, run, successes, notion>> /\ staged'.draft = staged.draft /\ Alone(t)
    BY <1>9, <1>a, StepsAlone DEF Canonicalize, Check, AfterDrive, AfterNotion, Handler, TypeInv, RestTyped, Package
  <2>3. ASSUME Refuse(t), ~job'[t].leased, UNCHANGED staged
        PROVE  One' \/ Gone'
    BY <1>9, <1>r, <2>1, <2>2, <2>3
  <2>4. ~NoJob.leased
    BY DEF NoJob
  <2>5. CASE Canonicalize(t)
    <3>1. ~job'[t].leased
      BY <1>a, <2>1, <2>4, <2>5, NoThread DEF Canonicalize
    <3>2. CASE Refuse(t) /\ UNCHANGED staged
      BY <2>3, <3>1, <3>2
    <3>3. CASE Await(t, "check") /\ UNCHANGED card
      BY <1>9, <1>q, <2>1, <2>2, <2>5, <3>1, <3>3 DEF Owns
    <3> QED BY <2>5, <3>2, <3>3 DEF Canonicalize
  <2>6. CASE Check(t)
    <3>1. CASE Refuse(t) /\ UNCHANGED job
      BY <1>a, <2>1, <2>3, <2>4, <2>6, <3>1, NoThread DEF Check
    <3>2. ASSUME staged.draft # 0, UNCHANGED card, NEW d, NEW path,
                 req' = [req EXCEPT ![t] = [kind |-> req[t].kind, at |-> "drive", draft |-> d]],
                 job' = [job EXCEPT ![t] = [at |-> "drive", draft |-> d, path |-> path,
                                            leased |-> req[t].kind = "promote"]]
          PROVE  One' \/ Gone'
      <4>1. ~Gone
        BY <3>2 DEF Gone
      <4>2. /\ job'[t].leased => Owns(t)
            /\ Owns(t)' => Owns(t)
        BY <1>t, <2>1, <3>2 DEF Owns
      <4> QED BY <1>9, <1>q, <2>2, <3>2, <4>1, <4>2
    <3> QED BY <2>6, <3>1, <3>2 DEF Check
  <2>7. CASE AfterDrive(t)
    <3>1. CASE job' = [job EXCEPT ![t] = NoJob] /\ Refuse(t)
      <4>1. ~job'[t].leased
        BY <1>t, <2>4, <3>1
      <4> QED BY <2>3, <2>7, <3>1, <4>1 DEF AfterDrive
    <3>2. CASE job' = [job EXCEPT ![t].at = "notion"] /\ Await(t, "notion") /\ UNCHANGED card
      <4>1. job'[t].leased = job[t].leased
        BY <1>t, <3>2 DEF Job
      <4>2. Owns(t)' => Owns(t)
        BY <1>t, <2>1, <3>2 DEF Await, Owns, Request
      <4> QED BY <1>9, <1>q, <2>2, <3>2, <4>1, <4>2
    <3> QED BY <2>7, <3>1, <3>2 DEF AfterDrive
  <2>8. CASE AfterNotion(t)
    <3>1. ~job'[t].leased
      BY <1>t, <2>4, <2>8 DEF AfterNotion
    <3>2. CASE Refuse(t)
      BY <2>3, <2>8, <3>1, <3>2 DEF AfterNotion
    <3>3. CASE GoTo(t, "archive") /\ UNCHANGED card
      <4>1. Owns(t)' => Owns(t)
        BY <1>t, <2>1, <3>3 DEF GoTo, Owns, Request
      <4> QED BY <1>9, <1>q, <2>2, <3>1, <3>3, <4>1
    <3> QED BY <2>8, <3>2, <3>3 DEF AfterNotion
  <2> QED BY <1>9, <2>5, <2>6, <2>7, <2>8
<1>10. ASSUME ~displaced, NEW t \in Taps, Drive(t) \/ NotionUpdate(t) \/ Timeout(t)
       PROVE  One' \/ Gone'
  <2>1. UNCHANGED <<card, ledger, run, successes, staged>>
    BY <1>10 DEF Drive, NotionUpdate, Timeout
  <2>5. (notion => notion') /\ Alone(t)
    BY <1>10, <1>a, StepsAlone, ServicesGain
  <2>2. Owns(t)' => Owns(t)
    BY <1>10, <1>t DEF Drive, NotionUpdate, Timeout, Finish, Idle, Owns
  <2>3. job'[t] \in {job[t], NoJob} \/ \E place \in JobPlaces : job'[t] = [job[t] EXCEPT !.at = place]
    BY <1>10, <1>t DEF Drive, NotionUpdate, Timeout, JobEnds, JobPlaces
  <2>4. job'[t].leased => job[t].leased
    <3>1. ASSUME NEW place, job'[t] = [job[t] EXCEPT !.at = place]
          PROVE  job'[t].leased = job[t].leased
      BY <1>t, <3>1 DEF Job
    <3>2. CASE job'[t] \in {job[t], NoJob}
      BY <3>2 DEF NoJob
    <3> QED BY <2>3, <3>1, <3>2
  <2> QED BY <1>10, <1>q, <2>1, <2>2, <2>4, <2>5
<1>11. ASSUME ~displaced, NEW t \in Taps, Note(t) \/ Announced(t) \/ Mark(t) \/ Archive(t)
       PROVE  One' \/ Gone'
  <2>1. /\ UNCHANGED <<ledger, run, successes, notion, job>> /\ Alone(t)
        /\ staged.draft = 0 => staged'.draft = 0
    BY <1>11, <1>a, StepsAlone DEF Note, Announced, Mark, Archive, ArchiveStaged, NoDir, Handler,
                TypeInv, RestTyped, Package
  <2>2. InPlace(t) /\ Released(t)
    BY <1>a DEF AllInPlace, LeaseInv
  <2>4. Owns(t)' => Owns(t)
    BY <1>11, <1>t, <2>2 DEF Note, Announced, Mark, Archive, Raise, GoTo, Await, Finish, Idle, Owns, InPlace,
                Stations, Request
  <2>5. CASE card' = card
    BY <1>11, <1>q, <2>1, <2>4, <2>5
  \* A revision that raises with the lease is over, and was the holder.
  <2>6. CASE card' # card
    <3>1. Note(t) /\ Raise(t) /\ req[t].kind = "revise" /\ Owns(t)
      BY <1>11, <2>2, <2>6 DEF Note, Announced, Mark, Archive, Released, Raise, ClearLease, Unleased, InPlace, Stations,
                Owns, lease, Request, Kinds
    <3>2. t \in Holding /\ ~Owns(t)' /\ ~job'[t].leased
      BY <1>a, <1>t, <2>1, <3>1, NoThread DEF Note, Raise, Finish, Idle, Owns, Holding, NoJob
    <3>3. One => One'
      BY <2>1, <3>2, Others, OneKept DEF One
    <3>4. Gone => Gone'
      BY <2>1, GoneKept DEF Gone, Threads
    <3> QED BY <1>11, <1>m, <3>3, <3>4
  <2> QED BY <2>5, <2>6
<1>12. ASSUME ~displaced, NEW t \in Taps, Remove(t)
       PROVE  One' \/ Gone'
  <2>1. /\ UNCHANGED <<ledger, run, successes, notion, job, staged>> /\ Alone(t)
        /\ req[t].at = "remove" /\ t \notin Threads /\ t \notin Threads'
    BY <1>12, <1>a, StepsAlone, NoThread DEF Remove, Handler, Threads
  <2>2. InPlace(t) /\ Closing(t)
    BY <1>a DEF AllInPlace, EraInv
  <2>3. /\ Owns(t)' => Owns(t)
        /\ req[t].kind = "revise" => ~Owns(t)'
    BY <1>12, <1>t DEF Remove, Raise, GoTo, Finish, Idle, Owns, Request
  <2>4. Gone => Gone'
    BY <2>1, GoneKept DEF Gone, Threads
  <2>5. Threads' = Threads /\ Holding' \subseteq Holding
    BY <2>1, <2>3, Others DEF Holding, Threads
  <2>6. CASE One /\ (card' = card \/ (card' = "none" /\ ledger # "none"))
    BY <2>1, <2>5, <2>6, OneKept
  <2>7. CASE One /\ req[t].kind = "revise"
    <3>1. t \in Holding
      BY <2>1, <2>7 DEF Holding, Owns
    <3>2. ~job'[t].leased
      BY <2>1 DEF Threads
    <3>3. Holding' = {}
      BY <2>1, <2>3, <2>7, <3>1, <3>2, Others DEF One
    <3> QED BY <3>3, OneKept, <2>7
  <2>9. card' \in {card, "none"} \/ req[t].kind = "revise"
    BY <1>12 DEF Remove, Raise
  <2>8. CASE One /\ card' = "none" /\ ledger = "none" /\ req[t].kind # "revise"
    <3>1. req[t].kind \in {"promote", "reject", "view"}
      BY <1>t, <2>1, <2>2, <2>8 DEF InPlace, Stations, Request, Kinds
    <3>2. staged.draft = 0 /\ successes > 0 /\ run = "none"
      BY <1>a, <2>1, <2>2, <2>8, <3>1 DEF Closing, EraInv
    <3>3. AtMostOne(Threads)
      BY <2>8 DEF One, AtMostOne, Holding
    <3> QED BY <2>1, <2>5, <2>8, <3>2, <3>3 DEF Gone, AtMostOne
  <2> QED BY <1>12, <1>m, <2>4, <2>6, <2>7, <2>8, <2>9
<1>13. ASSUME ~displaced, NEW t \in Taps, Record(t)
       PROVE  One' \/ Gone'
  <2>1. /\ UNCHANGED <<run, successes, notion, job, staged>> /\ Alone(t)
        /\ req[t].at = "record" /\ t \notin Threads
    BY <1>13, <1>a, StepsAlone, NoThread DEF Record, Handler
  <2>c. card' = card
    BY <1>13, <1>a DEF Record, Raise, ClearLease, Unleased, LeaseInv, Released
  <2>2. InPlace(t)
    BY <1>a DEF AllInPlace
  <2>3. ~Owns(t)' /\ ~job'[t].leased
    BY <1>13, <1>t, <2>1 DEF Record, Raise, GoTo, Finish, Idle, Owns, Request, Threads
  <2>4. CASE req[t].kind = "promote"
    <3>1. t \in Holding
      BY <2>1, <2>4 DEF Holding, Owns
    <3>2. One => One'
      BY <2>1, <2>3, <3>1, Others, OneKept DEF One
    <3>3. notion
      BY <2>1, <2>2, <2>4 DEF InPlace, Done
    <3>4. Gone => Gone'
      BY <2>1, <2>3, <3>3, GoneKept DEF Gone, Threads
    <3> QED BY <1>13, <1>m, <3>2, <3>4
  <2>5. CASE req[t].kind = "reject"
    <3>1. ~InHand
      BY <1>13, <2>5 DEF Record
    <3>2. Holding = {}
      BY <1>a, <3>1, HoldersInHand
    <3>3. Holding' = {}
      BY <2>1, <2>3, <3>2, Others DEF Holding, Threads
    <3> QED BY <3>3 DEF One, AtMostOne
  <2>6. CASE req[t].kind \notin {"promote", "reject"}
    <3>1. UNCHANGED ledger
      BY <1>13, <2>6 DEF Record, Disposition
    <3> QED BY <1>13, <1>q, <2>1, <2>c, <2>3, <3>1
  <2> QED BY <2>4, <2>5, <2>6
<1> QED BY <1>1, <1>2, <1>4, <1>5, <1>6, <1>7, <1>8, <1>9, <1>10, <1>11, <1>12, <1>13 DEF Next, Handler

-----------------------------------------------------------------------------
(* The theorems                                                            *)

ForgeInv == LoneInv /\ AppliedIsDelivered /\ DraftInv

LEMMA ForgeInit == Init => ForgeInv
<1> SUFFICES ASSUME Init PROVE ForgeInv
  OBVIOUS
<1>1. TypeInv
  BY InitTyped
<1>2. AllInPlace
  BY DEF Init, AllInPlace, InPlace, Stations, Threaded, Done, Idle, NoJob
<1>3. LeaseInv /\ EraInv
  BY DEF Init, LeaseInv, LeaseHasOwner, Released, EraInv, Closing, Idle
<1>4. Holding = {}
  BY DEF Init, Holding, Threads, Owns, Idle, NoJob
<1>5. Lone
  BY <1>4 DEF Lone, One, AtMostOne
<1>6. DraftInv
  BY DEF Init, DraftInv, Numbered, SettledIsArchived, Archived, Idle, NoDir
<1>7. AppliedIsDelivered
  BY DEF Init, AppliedIsDelivered
<1> QED BY <1>1, <1>2, <1>3, <1>5, <1>6, <1>7 DEF ForgeInv, LoneInv

LEMMA ForgeStep == ForgeInv /\ [Next]_vars => ForgeInv'
<1> SUFFICES ASSUME ForgeInv, [Next]_vars PROVE ForgeInv'
  OBVIOUS
<1>1. LoneInv /\ TypeInv /\ AllInPlace /\ LeaseInv /\ EraInv /\ AppliedIsDelivered /\ DraftInv
  BY DEF ForgeInv, LoneInv
<1>2. TypeInv'
  BY <1>1, RestStep, FlagsStep, TapsStep DEF TypeInv
<1> QED BY <1>1, <1>2, InPlaceStep, LeaseStep, EraStep, LoneStep, DeliveryStep, DraftStep
        DEF ForgeInv, LoneInv

LEMMA Reviewed == Spec => []ForgeInv
BY ForgeInit, ForgeStep, PTL DEF Spec

\* Every variable has its type, and a handler between two awaits has the event
\* loop, whatever the portal's requests, the worker, the ticker and crashes do.
THEOREM TypeCorrect == Spec => []TypeOK
<1>1. ForgeInv => TypeOK
  <2> SUFFICES ASSUME ForgeInv PROVE TypeOK
    OBVIOUS
  <2>1. RestTyped /\ FlagsTyped /\ TapsTyped
    BY DEF ForgeInv, LoneInv, TypeInv
  <2> QED BY <2>1, Zenon DEF RestTyped, FlagsTyped, TapsTyped, TypeOK
<1> QED BY <1>1, Reviewed, PTL

\* A unit is on record as applied only when its documents are in Drive and its
\* row is on Drafted: handlers record a promotion after both threads succeeded,
\* and nothing takes a delivery back (_promote_disposition).
THEOREM Delivered == Spec => []AppliedIsDelivered
<1>1. ForgeInv => AppliedIsDelivered
  BY DEF ForgeInv
<1> QED BY <1>1, Reviewed, PTL

\* A draft that was promoted or rejected is not staged again, with any number of
\* handlers that archive, remove and record across redrafts and crashes
\* (_apply_routing, finalize_proposal_state).
THEOREM ArchivedFirst == Spec => []SettledIsArchived
<1>1. ForgeInv => SettledIsArchived
  BY DEF ForgeInv, DraftInv
<1> QED BY <1>1, Reviewed, PTL

\* A leased card has a handler that will clear it or remove the card, unless its
\* publish has timed out, or an exception ended its handler, or the startup sweep,
\* before the lease was cleared (set_lease, clear_lease, _promote_disposition,
\* and the lease sweep of start_gateway).
THEOREM LeasesEnd == Spec => []LeaseHasOwner
<1>1. ForgeInv => LeaseHasOwner
  BY DEF ForgeInv, LoneInv, LeaseInv
<1> QED BY <1>1, Reviewed, PTL

\* However many requests there are, two promotions publish at the same time only
\* when a rejection or a startup sweep came in between (_promote_disposition).
THEOREM OneAtATime == Spec => []OnePublish
<1>1. ASSUME AtMostOne(Publishing)
      PROVE  Cardinality(Publishing) <= 1
  <2>1. CASE Publishing = {}
    BY <2>1, FS_EmptySet
  <2>2. CASE Publishing # {}
    <3>1. PICK t \in Publishing : Publishing = {t}
      BY <1>1, <2>2 DEF AtMostOne
    <3> QED BY <3>1, FS_Singleton
  <2> QED BY <2>1, <2>2
<1>2. ASSUME ForgeInv, ~displaced
      PROVE  AtMostOne(Publishing)
  <2>1. AtMostOne(Threads)
    BY <1>2 DEF ForgeInv, LoneInv, Lone, One, Gone, Holding, AtMostOne
  <2> QED BY <2>1 DEF Publishing, Threads, AtMostOne
<1>3. ForgeInv => OnePublish
  BY <1>1, <1>2 DEF OnePublish
<1> QED BY <1>3, Reviewed, PTL
=============================================================================
