----------------------------- MODULE RedPending -----------------------------
(***************************************************************************)
(* The approval pipeline of RED actions: the durable payload store         *)
(* (grove/red_pending_store.py, one SQLite row per effect), the cards that *)
(* bridge it to the portal (rows of grove/eval/proposal_queue.py), the     *)
(* turn threads that propose (grove/dispatcher.py, grove/continuation.py), *)
(* and the approvers that claim, check, execute and consume a row: the     *)
(* portal's handlers (grove/api/actions.py), which share the gateway's     *)
(* event loop, and any number of `flywheel confirm-red` processes          *)
(* (hermes_cli/main.py), which share only the database with it.            *)
(*                                                                         *)
(* One step is one SQLite transaction, one rewrite of the card file, or    *)
(* one read or write of the target file: everything between two of them    *)
(* can interleave with another thread or process, and a crash can fall     *)
(* between any two.                                                        *)
(***************************************************************************)
EXTENDS Naturals, FiniteSets

CONSTANTS
    Proposals,   \* effects, named by their content-addressed proposal_id
    Anchored,    \* effects with a write target: sealing records its hash
    Governed,    \* effects on governed config: sealing names a writer
    Legacy,      \* rows stored before sealing existed
    Portal,      \* the gateway's event loop, as an approver
    Clis,        \* operator command-line processes
    Threads,     \* turn threads of the gateway
    Edits,       \* bodies someone else may give the target file
    Original, Foreign,   \* two bodies that no proposal writes
    NoAnchor,    \* target_sha256 IS NULL
    Nothing,     \* no proposal
    MaxPuts,     \* bound: times each effect is proposed
    MaxCrashes   \* bound: processes that die

Approvers == {Portal} \cup Clis

\* A file write leaves the target with the body of its proposal.
Bodies == Proposals \cup {Original, Foreign}

ASSUME ConstantsAssumption ==
    /\ Governed \subseteq Anchored
    /\ Anchored \subseteq Proposals
    /\ Legacy \subseteq Governed
    /\ Portal \notin Clis
    /\ Edits \subseteq Bodies
    /\ NoAnchor \notin Bodies
    /\ Nothing \notin Proposals
    /\ MaxPuts \in [Proposals -> Nat]
    /\ MaxCrashes \in Nat

VARIABLES
    stored,      \* proposal_ids with a row in red_pending
    claimed,     \* those whose claimed_at is not NULL
    anchor,      \* target_sha256 of each row
    sealed,      \* rows with a writer_name
    cards,       \* governance_env_pending rows of the proposal queue
    file,        \* body of the file the anchored effects write
    req,         \* what each approver is doing, with the row it claimed
    armed,       \* confirm nonces issued and not expired
    appending,   \* a thread's proposal between put and append
    up,          \* the gateway process is alive
    reaper,      \* where the startup reaper is
    sweep,       \* cards the reaper has still to look at
    doomed,      \* the card it found without payload
    \* history, read by no guard
    puts,        \* times each effect was stored
    landed,      \* times its execution reported success
    displaced,   \* approvers whose claim somebody else removed
    lapses,      \* times an executed row came back, or ran unclaimed
    raced,       \* approvers whose target somebody wrote after their check
    rejected,    \* dismissed on the portal since they were last stored
    crashes

rows    == <<stored, claimed, anchor, sealed>>
gateway == <<appending, up, reaper, sweep, doomed>>
history == <<puts, landed, displaced, lapses, raced, rejected, crashes>>
vars == <<rows, cards, file, req, armed, gateway, history>>

Idle == [at |-> "idle", work |-> Nothing, anchor |-> NoAnchor,
         sealed |-> FALSE]

Init ==
    /\ stored = Legacy /\ claimed = {} /\ sealed = {}
    /\ anchor = [p \in Proposals |-> NoAnchor]
    /\ cards = Legacy
    /\ file = Original
    /\ req = [a \in Approvers |-> Idle]
    /\ armed = {}
    /\ appending = [t \in Threads |-> Nothing]
    /\ up = TRUE /\ reaper = "due" /\ sweep = {} /\ doomed = Nothing
    /\ puts = [p \in Proposals |-> IF p \in Legacy THEN 1 ELSE 0]
    /\ landed = [p \in Proposals |-> 0]
    /\ displaced = {}
    /\ lapses = [p \in Proposals |-> 0]
    /\ raced = {}
    /\ rejected = {}
    /\ crashes = 0

-----------------------------------------------------------------------------
(* Approvers between their claim and the transaction that ends it.         *)

Claimant(a) == req[a].at \in
    {"cas", "withdraw", "abort", "dispatch", "pop", "release"}

On(p) == {a \in Approvers : Claimant(a) /\ req[a].work = p}

\* ... whose claim still stands: nobody reset, released or deleted the row.
Holders(p) == On(p) \ displaced

\* The effect has landed and the row that authorised it is still there.
Spent(a) == req[a].at = "pop" /\ a \notin displaced

Count(f, S) == [p \in Proposals |-> IF p \in S THEN f[p] + 1 ELSE f[p]]

\* The effects executed by approvers A whose rows now outlive the execution.
Reopened(A) == {req[a].work : a \in {b \in A : Spent(b)}}

\* A step of A that changes the file overtakes everyone else between check and
\* write; A itself leaves that window.
Overtake(A) ==
    raced' = (IF file' = file THEN raced
              ELSE raced \cup {b \in Approvers : req[b].at = "dispatch"}) \ A

LoopFree == /\ up /\ req[Portal].at = "idle"
            /\ reaper \in {"due", "done", "failed"}

Goto(a, place) == req' = [req EXCEPT ![a].at = place]
Finish(a)      == req' = [req EXCEPT ![a] = Idle]
Clean(p)       == req' = [req EXCEPT ![Portal].at = "dropCard",
                                     ![Portal].work = p]

-----------------------------------------------------------------------------
(* Proposing.  put commits the row, then append adds the card if there is  *)
(* none.  INSERT OR REPLACE writes claimed_at NULL whoever holds the row.  *)

Put(t, p, hash, writer) ==
    /\ up
    /\ appending[t] = Nothing
    /\ puts[p] < MaxPuts[p]
    /\ stored' = stored \cup {p}
    /\ claimed' = claimed \ {p}
    /\ anchor' = [anchor EXCEPT ![p] = hash]
    /\ sealed' = IF writer THEN sealed \cup {p} ELSE sealed \ {p}
    /\ appending' = [appending EXCEPT ![t] = p]
    /\ puts' = Count(puts, {p})
    /\ displaced' = displaced \cup On(p)
    /\ rejected' = rejected \ {p}
    /\ UNCHANGED <<cards, file, req, armed, up, reaper, sweep, doomed, landed,
                   lapses, raced, crashes>>

\* A RED halt on a reachable surface: sealed against the file as it is now.
StorePending(t, p) ==
    Put(t, p, IF p \in Anchored THEN file ELSE NoAnchor, p \in Governed)

\* A Yellow halt of a continuation turn is stored without a seal.
StoreContinuation(t, p) ==
    /\ p \notin Governed
    /\ Put(t, p, NoAnchor, FALSE)

\* A failing append is swallowed: the row then has no card.
AppendCard(t) ==
    /\ appending[t] # Nothing
    /\ cards' \in {cards, cards \cup {appending[t]}}
    /\ appending' = [appending EXCEPT ![t] = Nothing]
    /\ UNCHANGED <<rows, file, req, armed, up, reaper, sweep, doomed, history>>

-----------------------------------------------------------------------------
(* Approving.                                                              *)

\* Step 1 on the portal: a confirm nonce if there is a payload, otherwise
\* the "expired" answer, which removes the card.
Approve(p) ==
    /\ LoopFree
    /\ p \in cards
    /\ \/ p \in stored /\ armed' = armed \cup {p} /\ UNCHANGED req
       \/ p \notin stored /\ Clean(p) /\ UNCHANGED armed
    /\ UNCHANGED <<rows, cards, file, gateway, history>>

\* The nonce's time bucket passes.
Expire(p) ==
    /\ p \in armed
    /\ armed' = armed \ {p}
    /\ UNCHANGED <<rows, cards, file, req, gateway, history>>

MayConfirm(a, p) == IF a = Portal THEN LoopFree /\ p \in armed
                                  ELSE req[a].at = "idle"

\* Mutants of Claim: an upsert that also claims a missing row, and an UPDATE
\* without "claimed_at IS NULL".
ClaimUpserts(a, p) ==
    /\ MayConfirm(a, p)
    /\ p \notin claimed
    /\ claimed' = claimed \cup {p}
    /\ req' = [req EXCEPT ![a] = [at |-> "cas", work |-> p,
                                  anchor |-> anchor[p],
                                  sealed |-> p \in sealed]]
    /\ UNCHANGED <<stored, anchor, sealed, cards, file, armed, gateway,
                   history>>

ClaimUnguarded(a, p) ==
    /\ MayConfirm(a, p)
    /\ p \in stored
    /\ claimed' = claimed \cup {p}
    /\ req' = [req EXCEPT ![a] = [at |-> "cas", work |-> p,
                                  anchor |-> anchor[p],
                                  sealed |-> p \in sealed]]
    /\ UNCHANGED <<stored, anchor, sealed, cards, file, armed, gateway,
                   history>>

\* UPDATE ... WHERE claimed_at IS NULL RETURNING *: one caller gets the row.
\* (A row in flight is refused, and nothing changes.)
Claim(a, p) ==
    /\ MayConfirm(a, p)
    /\ p \in stored \ claimed
    /\ claimed' = claimed \cup {p}
    /\ req' = [req EXCEPT ![a] = [at |-> "cas", work |-> p,
                                  anchor |-> anchor[p],
                                  sealed |-> p \in sealed]]
    /\ UNCHANGED <<stored, anchor, sealed, cards, file, armed, gateway,
                   history>>

\* "not_found" makes the portal remove the card.
ClaimAbsent(p) ==
    /\ MayConfirm(Portal, p)
    /\ p \notin stored
    /\ Clean(p)
    /\ UNCHANGED <<rows, cards, file, armed, gateway, history>>

\* Mutant of Drifted: no compare-and-swap.
NeverDrifted(a) == FALSE

Drifted(a) == req[a].anchor # NoAnchor /\ file # req[a].anchor

LegacyShape(a) == req[a].work \in Governed /\ ~req[a].sealed

\* The checks between claim and dispatch, on the file and the claimed row.
\* The signature of a file effect follows its links, which may have changed
\* since the row was stored ("abort").
Check(a) ==
    /\ req[a].at = "cas"
    /\ \/ Drifted(a) /\ Goto(a, "withdraw")
       \/ ~Drifted(a) /\ req[a].work \in Anchored /\ Goto(a, "abort")
       \/ ~Drifted(a) /\ LegacyShape(a) /\ Goto(a, "withdraw")
       \/ ~Drifted(a) /\ ~LegacyShape(a) /\ Goto(a, "dispatch")
    /\ UNCHANGED <<rows, cards, file, armed, gateway, history>>

DeleteRow(p, by) ==
    /\ stored' = stored \ {p}
    /\ claimed' = claimed \ {p}
    /\ anchor' = [anchor EXCEPT ![p] = NoAnchor]
    /\ sealed' = sealed \ {p}
    /\ displaced' = (displaced \cup On(p)) \ {by}

\* The portal's handler goes on to remove the card; the command line does not.
Settle(a) ==
    /\ IF a = Portal THEN Clean(req[a].work) ELSE Finish(a)
    /\ DeleteRow(req[a].work, a)
    /\ UNCHANGED <<cards, file, armed, gateway, puts, landed, lapses, raced,
                   rejected, crashes>>

\* DELETE after target drift or for a legacy shape.
Withdraw(a) == req[a].at = "withdraw" /\ Settle(a)

\* DELETE after an integrity failure, which leaves the card to the reaper.
Abort(a) ==
    /\ req[a].at = "abort"
    /\ Finish(a)
    /\ DeleteRow(req[a].work, a)
    /\ UNCHANGED <<cards, file, armed, gateway, puts, landed, lapses, raced,
                   rejected, crashes>>

\* The writer or the tool succeeds: the effect has landed.
Execute(a) ==
    /\ req[a].at = "dispatch"
    /\ Goto(a, "pop")
    /\ file' = IF req[a].work \in Anchored THEN req[a].work ELSE file
    /\ landed' = Count(landed, {req[a].work})
    /\ lapses' = IF a \in displaced THEN Count(lapses, {req[a].work})
                                   ELSE lapses
    /\ Overtake({a})
    /\ UNCHANGED <<rows, cards, armed, gateway, puts, displaced, rejected,
                   crashes>>

\* No writer, no tool, an exception or a failure result.  A writer of several
\* changes may have made some of them before it failed.
ExecuteFails(a) ==
    /\ req[a].at = "dispatch"
    /\ Goto(a, "release")
    /\ file' \in IF req[a].work \in Anchored THEN {file, Foreign} ELSE {file}
    /\ Overtake({a})
    /\ UNCHANGED <<rows, cards, armed, gateway, puts, landed, displaced, lapses,
                   rejected, crashes>>

\* Mutant of Pop: the success path only clears the claim.
PopKeepsRow(a) ==
    /\ req[a].at = "pop"
    /\ Finish(a)
    /\ claimed' = claimed \ {req[a].work}
    /\ UNCHANGED <<stored, anchor, sealed, cards, file, armed, gateway,
                   history>>

\* pop ON SUCCESS ONLY.
Pop(a) == req[a].at = "pop" /\ Settle(a)

\* claimed_at NULL, WHERE proposal_id alone: whoever claimed it.
Release(a) ==
    /\ req[a].at = "release"
    /\ Finish(a)
    /\ claimed' = claimed \ {req[a].work}
    /\ displaced' = (displaced \cup On(req[a].work)) \ {a}
    /\ lapses' = Count(lapses, Reopened(On(req[a].work)))
    /\ UNCHANGED <<stored, anchor, sealed, cards, file, armed, gateway, puts,
                   landed, raced, rejected, crashes>>

\* proposal_queue.remove, best effort.
DropCard ==
    /\ req[Portal].at = "dropCard"
    /\ cards' \in {cards, cards \ {req[Portal].work}}
    /\ Finish(Portal)
    /\ UNCHANGED <<rows, file, armed, gateway, history>>

\* Reject or dismiss on the portal: pop whatever is there, in flight or not.
Dismiss(p) ==
    /\ LoopFree
    /\ p \in cards
    /\ Clean(p)
    /\ DeleteRow(p, Portal)
    /\ rejected' = rejected \cup {p}
    /\ UNCHANGED <<cards, file, armed, gateway, puts, landed, lapses, raced,
                   crashes>>

\* `flywheel reject` removes the queue row of any type, and only that.
CliReject(c, p) ==
    /\ req[c].at = "idle"
    /\ p \in cards
    /\ cards' = cards \ {p}
    /\ UNCHANGED <<rows, file, req, armed, gateway, history>>

-----------------------------------------------------------------------------
(* Crashes and the startup reaper.                                         *)

Die(a) ==
    /\ Finish(a)
    /\ displaced' = displaced \ {a}
    /\ lapses' = Count(lapses, Reopened({a}))
    /\ raced' = raced \ {a}
    /\ crashes < MaxCrashes
    /\ crashes' = crashes + 1
    /\ UNCHANGED <<rows, cards, file, armed, puts, landed, rejected>>

\* The gateway dies with its event loop and its threads.
Crash ==
    /\ up
    /\ Die(Portal)
    /\ up' = FALSE
    /\ appending' = [t \in Threads |-> Nothing]
    /\ reaper' = "due" /\ sweep' = {} /\ doomed' = Nothing

CrashCli(c) == Claimant(c) /\ Die(c) /\ UNCHANGED gateway

\* The adapters are connected before the sweeps run: requests and turns may
\* come first.
Start ==
    /\ ~up
    /\ up' = TRUE
    /\ UNCHANGED <<rows, cards, file, req, armed, appending, reaper, sweep,
                   doomed, history>>

\* Mutant of ReleaseStale: the startup sweep does not release claims.
KeepStale ==
    /\ LoopFree /\ reaper = "due"
    /\ reaper' = "read"
    /\ UNCHANGED <<rows, cards, file, req, armed, appending, up, sweep, doomed,
                   history>>

\* release_stale_claims clears every claim.  Then the queue is read once.
ReleaseStale ==
    /\ LoopFree /\ reaper = "due"
    /\ reaper' = "read"
    /\ claimed' = {}
    /\ displaced' = displaced \cup {a \in Approvers : Claimant(a)}
    /\ lapses' = Count(lapses, Reopened(Approvers))
    /\ UNCHANGED <<stored, anchor, sealed, cards, file, req, armed, appending,
                   up, sweep, doomed, puts, landed, raced, rejected, crashes>>

ReadCards ==
    /\ reaper = "read"
    /\ reaper' = "check"
    /\ sweep' = cards
    /\ UNCHANGED <<rows, cards, file, req, armed, appending, up, doomed,
                   history>>

\* store.has(bare), one card after the other.
ReapCheck(p) ==
    /\ reaper = "check"
    /\ p \in sweep
    /\ sweep' = sweep \ {p}
    /\ \/ p \in stored /\ UNCHANGED <<reaper, doomed>>
       \/ p \notin stored /\ reaper' = "finalize" /\ doomed' = p
    /\ UNCHANGED <<rows, cards, file, req, armed, appending, up, history>>

\* Mutant of ReapFinalize: the disposition is recorded, the card stays.
FinalizeKeepsCard ==
    /\ reaper = "finalize"
    /\ reaper' = "check"
    /\ doomed' = Nothing
    /\ UNCHANGED <<rows, cards, file, req, armed, appending, up, sweep,
                   history>>

\* finalize_proposal_state(..., "reaped") dequeues the card.
ReapFinalize ==
    /\ reaper = "finalize"
    /\ reaper' = "check"
    /\ cards' = cards \ {doomed}
    /\ doomed' = Nothing
    /\ UNCHANGED <<rows, file, req, armed, appending, up, sweep, history>>

\* Everything the reaper calls may raise, in the ledger write after the card
\* is dequeued too.  The startup task logs it and goes on without a reaper.
ReapFails ==
    /\ \/ LoopFree /\ reaper = "due"
       \/ reaper \in {"read", "check", "finalize"}
    /\ reaper' = "failed"
    /\ cards' \in {cards, cards \ {doomed}}
    /\ sweep' = {} /\ doomed' = Nothing
    /\ UNCHANGED <<rows, file, req, armed, appending, up, history>>

ReapDone ==
    /\ reaper = "check" /\ sweep = {}
    /\ reaper' = "done"
    /\ UNCHANGED <<rows, cards, file, req, armed, appending, up, sweep, doomed,
                   history>>

\* Somebody else writes the target file.
Edit(body) ==
    /\ file' = body
    /\ Overtake({})
    /\ UNCHANGED <<rows, cards, req, armed, gateway, puts, landed, displaced,
                   lapses, rejected, crashes>>

-----------------------------------------------------------------------------
Propose(t, p) == StorePending(t, p) \/ StoreContinuation(t, p)

\* The rest of an approval once its claim is taken.
Advance(a) == \/ Check(a) \/ Withdraw(a) \/ Abort(a) \/ Execute(a)
              \/ ExecuteFails(a) \/ Pop(a) \/ Release(a)

Operate(p) == Approve(p) \/ Dismiss(p) \/ ClaimAbsent(p)
              \/ (\E c \in Clis : CliReject(c, p))

Reap == ReleaseStale \/ ReadCards \/ ReapFinalize \/ ReapFails \/ ReapDone
        \/ \E p \in Proposals : ReapCheck(p)

Next ==
    \/ \E t \in Threads, p \in Proposals : Propose(t, p)
    \/ \E t \in Threads : AppendCard(t)
    \/ \E p \in Proposals : Operate(p) \/ Expire(p)
    \/ \E a \in Approvers, p \in Proposals : Claim(a, p)
    \/ \E a \in Approvers : Advance(a)
    \/ \E c \in Clis : CrashCli(c)
    \/ \E body \in Edits : Edit(body)
    \/ DropCard \/ Crash \/ Start \/ Reap

Spec == Init /\ [][Next]_vars

\* A handler that runs on the loop goes on until it answers; the service
\* manager restarts a dead gateway; and the loop runs its tasks in turn, so
\* that the startup task gets it between two requests.
Fairness ==
    /\ WF_vars(Advance(Portal) \/ DropCard)
    /\ WF_vars(Start)
    /\ SF_vars(Reap)

FairSpec == Spec /\ Fairness


-----------------------------------------------------------------------------
(* Properties.                                                             *)

Requests == [at : {"idle", "cas", "withdraw", "abort", "dispatch", "pop",
                   "release", "dropCard"},
             work : Proposals \cup {Nothing},
             anchor : Bodies \cup {NoAnchor},
             sealed : BOOLEAN]

\* Every variable has its type; a claim is a column of a stored row; an
\* approver that is not idle is working on a proposal, and only the portal
\* cleans cards.
TypeOK ==
    /\ stored \subseteq Proposals /\ claimed \subseteq stored
    /\ sealed \subseteq Proposals
    /\ anchor \in [Proposals -> Bodies \cup {NoAnchor}]
    /\ cards \subseteq Proposals
    /\ file \in Bodies
    /\ req \in [Approvers -> Requests]
    /\ \A a \in Approvers : /\ req[a].at # "idle" => req[a].work \in Proposals
                            /\ req[a].at = "dropCard" => a = Portal
    /\ armed \subseteq Proposals
    /\ appending \in [Threads -> Proposals \cup {Nothing}]
    /\ up \in BOOLEAN
    /\ reaper \in {"due", "read", "check", "finalize", "done", "failed"}
    /\ sweep \subseteq Proposals
    /\ doomed \in Proposals \cup {Nothing}
    /\ puts \in [Proposals -> Nat] /\ landed \in [Proposals -> Nat]
    /\ lapses \in [Proposals -> Nat]
    /\ displaced \subseteq Approvers
    /\ raced \subseteq Approvers
    /\ rejected \subseteq Proposals
    /\ crashes \in Nat

\* approve_red_proposal: as long as nobody else touches its row, an approver
\* has the row to itself: the row is there, marked IN_FLIGHT, and no other
\* approver with a standing claim works on it.  Everything that can take the
\* row from under it (a second put, a dismissal, the startup release, the
\* release or pop of an approver that was itself displaced) displaces it.
ClaimHeld ==
    \A p \in Proposals : \A a \in Holders(p) :
        p \in claimed /\ Holders(p) = {a}

\* The state machine above RedPendingStore.claim: one stored row authorises
\* one successful execution.  An effect lands more often than it was stored
\* only by a lapse: an approver went on after it was displaced, or the row of
\* an effect that had landed went back to PENDING before it was deleted.
OncePerPut == \A p \in Proposals : landed[p] <= puts[p] + lapses[p]

\* In a gateway without command-line approvers the only lapse there is is a
\* crash between the write and the pop: no order of turns, re-proposals,
\* dismissals, confirmations and sweeps executes an effect twice for one put.
OncePerPutOrCrash ==
    \A p \in Proposals : landed[p] <= puts[p] + crashes

\* The CAS anchor of a sealed claim ("Drift: the claim is WITHDRAWN; nothing
\* executes"): when a sealed write succeeds, the target holds the body it had
\* when the proposal was stored.  Every other write of the file since then, by
\* an edit, another approval or half of one, is caught by the check, however
\* the row was claimed, released and stored again; only a write that falls
\* between the check of this approver and its own gets past it.
NoLostUpdate ==
    [][\A a \in Approvers :
          req[a].at = "dispatch" /\ req'[a].at = "pop"
              => req[a].anchor \in {NoAnchor, file} \/ a \in raced]_vars

\* approve_red_proposal's in_flight answer, "no second execution was
\* started": no two approvers execute one effect at the same time.
SingleExecution ==
    \A a, b \in Approvers :
        /\ req[a].at = "dispatch" /\ req[b].at = "dispatch"
        /\ req[a].work = req[b].work
        => a = b

\* The portal's answer to a dismissal, "Rejected - nothing was executed": the
\* effect does not land afterwards unless it is proposed again.
RejectedStaysUnexecuted ==
    [][\A p \in rejected : landed'[p] = landed[p]]_vars

\* A claim does not last: its approver ends it, or the reaper of the next
\* gateway does, and the row can be approved or dismissed again.  Only a claim
\* whose approver died stays, while the reaper that should release it failed.
ClaimsSettle ==
    \A p \in Proposals :
        p \in claimed ~> p \notin claimed \/ (reaper = "failed" /\ On(p) = {})

Orphan(p) == p \in cards /\ p \notin stored

\* reap_orphaned_red_pending, "an orphan is transient, one restart deep": a
\* card that has no payload when the gateway dies is removed, or has its
\* payload again, unless the reaper of the next start fails.
OrphansReaped ==
    \A p \in Proposals : ~up /\ Orphan(p) ~> ~Orphan(p) \/ reaper = "failed"

=============================================================================
