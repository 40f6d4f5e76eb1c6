--------------------------- MODULE ProposalQueue ---------------------------
(***************************************************************************)
(* The proposal queue file ~/.grove/proposals.jsonl                        *)
(* (grove/eval/proposal_queue.py) as its callers change it.                *)
(*                                                                         *)
(* Appends add one line at the end.  Every other mutation reads the whole  *)
(* file, copies the lines it cannot parse to a sidecar, writes the result  *)
(* to <queue>.tmp and replaces the file with it.  All of it runs under a   *)
(* threading.Lock, which orders the threads and tasks of one process; a    *)
(* `flywheel` command is another process, with a lock of its own.          *)
(*                                                                         *)
(* A line is known by the proposal whose text it holds.  Several lines of  *)
(* one proposal (two processes may append the same id) are one row here.   *)
(***************************************************************************)
EXTENDS Naturals

CONSTANTS
    Ids,         \* proposals: the ids are content-addressed
    Taps,        \* operator taps and the other tasks of the gateway
    Startup,     \* the gateway's startup, which sweeps stranded leases
    Clis,        \* flywheel commands, each a process
    NoOne,       \* neither a proposal nor a client
    MaxPuts,     \* bound: appends of each proposal
    MaxCrashes   \* bound: crashes of the gateway

Gateway == Taps \cup {Startup}
Clients == Gateway \cup Clis

ASSUME QueueAssumption ==
    /\ NoOne \notin Ids \cup Clients
    /\ Gateway \cap Clis = {} /\ Startup \notin Taps
    /\ MaxPuts \in Nat /\ MaxCrashes \in Nat

VARIABLES
    \* the queue file
    rows,        \* proposals on lines that can be parsed
    held,        \* those with a lease
    damaged,     \* proposals with text on a line that cannot be parsed
    tail,        \* the proposal whose line has no newline yet
    \* the files beside it
    tmp,         \* <queue>.tmp: its rows and leases
    sidecar,     \* <queue>.quarantine: proposals with text in it
    \* the processes
    lock,        \* holder of the gateway's _lock
    call,        \* by client: the call it is in, and what it read
    grip,        \* by tap: the proposal whose lease it was given
    swept,       \* the startup sweep: "due", "done" or "failed"
    up,          \* the gateway process is alive
    \* history, read by no guard (puts and crashes carry the bounds)
    holders,     \* by proposal: taps told "acquired", lease not cleared since
    puts, pops,  \* by proposal: writes of it, and removals answered True
    owed,        \* proposals written since they were last removed
    crashes

file    == <<rows, held, damaged, tail>>
process == <<grip, swept, up>>
history == <<holders, puts, pops, owed, crashes>>
vars == <<file, tmp, sidecar, lock, call, process, history>>

NoTmp == [exists |-> FALSE, rows |-> {}, held |-> {}]
Idle  == [at |-> "idle", op |-> "none", on |-> NoOne,
          rows |-> {}, held |-> {}, damaged |-> {}]

\* A file that earlier runs of the program left: whole rows, some of them
\* leased when the gateway last ended, and lines of an older schema.
Init ==
    /\ rows \in SUBSET Ids /\ held \in SUBSET rows
    /\ damaged \in SUBSET Ids
    /\ tail = NoOne
    /\ tmp = NoTmp /\ sidecar = {}
    /\ lock = NoOne
    /\ call = [c \in Clients |-> Idle]
    /\ grip = [c \in Taps |-> NoOne]
    /\ swept = "due" /\ up = TRUE
    /\ holders = [p \in Ids |-> {}]
    /\ puts = [p \in Ids |-> IF p \in rows THEN 1 ELSE 0]
    /\ pops = [p \in Ids |-> 0]
    /\ owed = rows \cup damaged
    /\ crashes = 0

-----------------------------------------------------------------------------
(* Calls.                                                                  *)

Goto(c, place) == call' = [call EXCEPT ![c].at = place]
Leave(c) == /\ call' = [call EXCEPT ![c] = Idle]
            /\ lock' = IF lock = c THEN NoOne ELSE lock

\* What each client calls: the gateway's tasks append, remove and take
\* leases, and a tap clears the lease it was given, unless it keeps it (a
\* publish that timed out); commands only append and remove; startup sweeps.
MayCall(c, op, p) ==
    \/ c \in Clients \ {Startup} /\ op \in {"append", "remove"} /\ p \in Ids
    \/ c \in Taps /\ op = "lease" /\ p \in Ids /\ grip[c] = NoOne
    \/ c \in Taps /\ op = "clear" /\ p \in Ids /\ grip[c] = p
    \/ c = Startup /\ op = "sweep" /\ p = NoOne /\ swept = "due"

\* Mutant of Locked: no lock.
NeverLocked(c) == TRUE

Locked(c) == c \in Gateway => lock = NoOne

\* Mutant of Applies: set_lease does not look at the lease it finds.
AppliesIfLeased(op, p) ==
    \/ op = "append" /\ p \notin rows
    \/ op \in {"remove", "lease"} /\ p \in rows
    \/ op = "clear" /\ p \in held
    \/ op = "sweep" /\ held # {}

\* What _read_records must show for the call to change the file.
Applies(op, p) ==
    \/ op = "append" /\ p \notin rows
    \/ op = "remove" /\ p \in rows
    \/ op = "lease" /\ p \in rows \ held
    \/ op = "clear" /\ p \in held
    \/ op = "sweep" /\ held # {}

\* A call gets the lock, reads the file, and either returns at once
\* (duplicate, already held, not found, nothing to sweep) or goes on.
Begin(c, op, p) ==
    /\ c \in Gateway => up
    /\ call[c].at = "idle"
    /\ MayCall(c, op, p)
    /\ Locked(c)
    /\ \/ /\ Applies(op, p)
          /\ op = "append" => puts[p] < MaxPuts
          /\ lock' = IF c \in Gateway THEN c ELSE lock
          /\ call' = [call EXCEPT ![c] =
                        [at |-> IF op = "append" THEN op ELSE "quarantine",
                         op |-> op, on |-> p,
                         rows |-> rows, held |-> held, damaged |-> damaged]]
          /\ UNCHANGED swept
       \/ /\ ~Applies(op, p)
          /\ swept' = IF op = "sweep" THEN "done" ELSE swept
          /\ UNCHANGED <<lock, call>>
    /\ grip' = IF op \in {"clear", "remove"}
               THEN [t \in Taps |-> IF t = c /\ grip[t] = p THEN NoOne
                                   ELSE grip[t]]
               ELSE grip
    /\ UNCHANGED <<file, tmp, sidecar, up, history>>

-----------------------------------------------------------------------------
(* append: one write at the end of the file, whatever its last line is.    *)

Written(p) ==
    /\ puts' = [puts EXCEPT ![p] = @ + 1]
    /\ owed' = owed \cup {p}

AppendLine(c) ==
    /\ call[c].at = "append"
    /\ IF tail = NoOne
       THEN /\ rows' = rows \cup {call[c].on}
            /\ UNCHANGED <<held, damaged>>
       ELSE /\ rows' = rows \ {tail} /\ held' = held \ {tail}
            /\ damaged' = damaged \cup {tail, call[c].on}
    /\ tail' = NoOne
    /\ Written(call[c].on)
    /\ Leave(c)
    /\ UNCHANGED <<tmp, sidecar, process, holders, pops, crashes>>

\* Only part of the line reaches the file: all of it but the newline, or
\* less.  What follows is an exception or the end of the process.
TearLine(c) ==
    /\ call[c].at = "append"
    /\ IF tail = NoOne
       THEN /\ tail' = call[c].on
            /\ \/ rows' = rows \cup {call[c].on} /\ UNCHANGED damaged
               \/ damaged' = damaged \cup {call[c].on} /\ UNCHANGED rows
            /\ UNCHANGED held
       ELSE /\ rows' = rows \ {tail} /\ held' = held \ {tail}
            /\ damaged' = damaged \cup {tail, call[c].on}
            /\ UNCHANGED tail
    /\ Written(call[c].on)
    /\ Goto(c, "raise")
    /\ UNCHANGED <<tmp, sidecar, lock, process, holders, pops, crashes>>

-----------------------------------------------------------------------------
(* The rewriting mutations.                                                *)

\* Mutant of Quarantine: the sidecar is not written.
QuarantineNothing(c) ==
    /\ call[c].at = "quarantine"
    /\ Goto(c, "tmp")
    /\ UNCHANGED <<file, tmp, sidecar, lock, process, history>>

\* The unparseable lines this call read are appended to the sidecar.
Quarantine(c) ==
    /\ call[c].at = "quarantine"
    /\ sidecar' = sidecar \cup call[c].damaged
    /\ Goto(c, "tmp")
    /\ UNCHANGED <<file, tmp, lock, process, history>>

RowsAfter(k) == IF k.op = "remove" THEN k.rows \ {k.on} ELSE k.rows

\* Mutants of HeldAfter: the sweep leaves the leases as they are, and a
\* removed row leaves its lease behind.
HeldAfterNoSweep(k) == IF k.op = "lease" THEN k.held \cup {k.on}
                       ELSE k.held \ {k.on}

HeldAfterRemove(k) ==
    CASE k.op = "lease" -> k.held \cup {k.on}
      [] k.op = "sweep" -> {}
      [] k.op = "clear" -> k.held \ {k.on}
      [] OTHER -> k.held

HeldAfter(k) ==
    CASE k.op = "lease" -> k.held \cup {k.on}
      [] k.op = "sweep" -> {}
      [] OTHER -> k.held \ {k.on}

\* The new contents go to <queue>.tmp, whatever is there.  If no row is left,
\* the file is deleted instead, in the next step.
WriteTmp(c) ==
    /\ call[c].at = "tmp"
    /\ tmp' = IF RowsAfter(call[c]) = {} THEN tmp
              ELSE [exists |-> TRUE, rows |-> RowsAfter(call[c]),
                                     held |-> HeldAfter(call[c])]
    /\ Goto(c, "replace")
    /\ UNCHANGED <<file, sidecar, lock, process, history>>

Install(newRows, newHeld) ==
    /\ rows' = newRows /\ held' = newHeld /\ damaged' = {} /\ tail' = NoOne

\* What the caller is told.
Answer(c) ==
    LET k == call[c] IN
    /\ holders' = CASE k.op = "lease" -> [holders EXCEPT ![k.on] = @ \cup {c}]
                    [] k.op = "sweep" -> [p \in Ids |-> {}]
                    [] OTHER -> [holders EXCEPT ![k.on] = {}]
    /\ IF k.op = "remove" THEN /\ pops' = [pops EXCEPT ![k.on] = @ + 1]
                               /\ owed' = owed \ {k.on}
                          ELSE UNCHANGED <<pops, owed>>
    /\ grip' = IF k.op = "lease" THEN [grip EXCEPT ![c] = k.on] ELSE grip
    /\ swept' = IF k.op = "sweep" THEN "done" ELSE swept
    /\ Leave(c)

\* os.replace, or unlink.  The caller has its answer.
Replace(c) ==
    /\ call[c].at = "replace"
    /\ \/ /\ RowsAfter(call[c]) = {}
          /\ Install({}, {})
          /\ UNCHANGED tmp
       \/ /\ RowsAfter(call[c]) # {}
          /\ tmp.exists
          /\ Install(tmp.rows, tmp.held)
          /\ tmp' = NoTmp
    /\ Answer(c)
    /\ UNCHANGED <<sidecar, up, puts, crashes>>

\* A step of the rewrite raises: the sidecar or <queue>.tmp cannot be written,
\* or <queue>.tmp is gone.  The queue file is as it was.  Startup logs the
\* error of its sweep and goes on.
Raise(c) ==
    /\ \/ call[c].at = "quarantine" /\ call[c].damaged # {}
       \/ call[c].at \in {"tmp", "raise"}
       \/ call[c].at = "replace" /\ RowsAfter(call[c]) # {} /\ ~tmp.exists
    /\ Leave(c)
    /\ swept' = IF c = Startup THEN "failed" ELSE swept
    /\ UNCHANGED <<file, tmp, sidecar, grip, up, history>>

-----------------------------------------------------------------------------
(* The gateway ends at any point, and is started again.                    *)

Crash ==
    /\ up /\ crashes < MaxCrashes
    /\ up' = FALSE /\ crashes' = crashes + 1
    /\ call' = [c \in Clients |-> IF c \in Gateway THEN Idle ELSE call[c]]
    /\ lock' = NoOne
    /\ grip' = [c \in Taps |-> NoOne]
    /\ holders' = [p \in Ids |-> {}]
    /\ swept' = "due"
    /\ UNCHANGED <<file, tmp, sidecar, puts, pops, owed>>

Start ==
    /\ ~up
    /\ up' = TRUE
    /\ UNCHANGED <<file, tmp, sidecar, lock, call, grip, swept, history>>

Step(c) == \/ AppendLine(c) \/ TearLine(c) \/ Quarantine(c) \/ WriteTmp(c)
           \/ Replace(c) \/ Raise(c)

Next ==
    \/ \E c \in Clients, p \in Ids \cup {NoOne},
          op \in {"append", "remove", "lease", "clear", "sweep"} :
          Begin(c, op, p)
    \/ \E c \in Clients : Step(c)
    \/ Crash
    \/ Start

\* Startup calls the sweep and a call runs to its end; the service manager
\* restarts the gateway.  _lock is not fair, but its users are: they hold it
\* for one read and one write.
Fairness ==
    /\ WF_vars(Start)
    /\ SF_vars(Begin(Startup, "sweep", NoOne))
    /\ \A c \in Gateway : WF_vars(Step(c))

Spec == Init /\ [][Next]_vars

FairSpec == Spec /\ Fairness

-----------------------------------------------------------------------------
(* Properties.                                                             *)

\* Where a client can be.
Places == {"idle", "append", "raise", "quarantine", "tmp", "replace"}

Calls == [at : Places,
          op : {"none", "append", "remove", "lease", "clear", "sweep"},
          on : Ids \cup {NoOne}, rows : SUBSET Ids, held : SUBSET Ids,
          damaged : SUBSET Ids]

\* Every variable has its type, only rows have leases, and only a client in
\* its critical section holds the gateway's lock.
TypeOK ==
    /\ rows \subseteq Ids /\ held \subseteq rows /\ damaged \subseteq Ids
    /\ tail \in Ids \cup {NoOne}
    /\ tmp \in [exists : BOOLEAN, rows : SUBSET Ids, held : SUBSET Ids]
    /\ sidecar \subseteq Ids
    /\ call \in [Clients -> Calls]
    /\ \A c \in Gateway : (lock = c) <=> (call[c].at # "idle")
    /\ lock \in Gateway \cup {NoOne}
    /\ grip \in [Taps -> Ids \cup {NoOne}]
    /\ swept \in {"due", "done", "failed"} /\ up \in BOOLEAN
    /\ holders \in [Ids -> SUBSET Taps]
    /\ puts \in [Ids -> Nat] /\ pops \in [Ids -> Nat]
    /\ owed \subseteq Ids /\ crashes \in 0..MaxCrashes

\* "a damaged row is preserved on disk, never destroyed by an unrelated
\* rewrite" (_read_records, _quarantine_lines): the text of every proposal
\* that was written and not removed is in the queue or in its sidecar,
\* whatever was interrupted in between.
NothingDestroyed == owed \subseteq rows \cup damaged \cup sidecar

\* The double-tap guard of set_lease: of two taps that were both told
\* "acquired", the first has seen its lease cleared or its row removed.
DoubleTapGuard ==
    \A p \in Ids : \A c, d \in holders[p] : c = d

\* The rewriting calls of one process, interleaved with its appends, its
\* restarts and the loss of half-written lines, are a queue that changes in
\* atomic steps (proposal_queue's _lock).
Contract == INSTANCE QueueContract
AtomicQueue == Contract!Spec

\* A lease whose tap died with the gateway does not outlive the next start:
\* sweep_stuck_leases clears it, unless the sweep itself raises.
Stranded(p) == p \in held /\ holders[p] = {}

StrandedLeasesClear ==
    \A p \in Ids : (Stranded(p) /\ swept = "due")
                     ~> (~Stranded(p) \/ swept = "failed")
=============================================================================
