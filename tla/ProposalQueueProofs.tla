------------------------- MODULE ProposalQueueProofs -------------------------
(***************************************************************************)
(* Theorems of ProposalQueue, for any proposals, taps and bounds: the type *)
(* invariant beside any number of flywheel commands, the others for one    *)
(* process.                                                                *)
(***************************************************************************)
EXTENDS ProposalQueue, TLAPS

\* Calls that rewrite the file, and where they are while they do.
Rewrites  == {"remove", "lease", "clear", "sweep"}
Rewriting == {"quarantine", "tmp", "replace"}

\* A call does what its client may call; what it read of the file, and what
\* any call wrote to <queue>.tmp, is well formed, however old it is.
Sound ==
    /\ \A c \in Clients :
         /\ call[c].at \in {"append", "raise"} =>
              call[c].op = "append" /\ call[c].on \in Ids
         /\ call[c].at \in Rewriting =>
              /\ call[c].op \in Rewrites
              /\ call[c].op = "sweep" \/ call[c].on \in Ids
              /\ call[c].op = "lease" => c \in Taps /\ call[c].on \in call[c].rows
              /\ call[c].held \subseteq call[c].rows
    /\ tmp.held \subseteq tmp.rows

\* What a rewriting call works on is the file as it is, what it decided on
\* the read still stands, and what it has written out so far is up to date.
RewriteFresh(c) ==
    call[c].at \in Rewriting =>
        /\ call[c].op \in Rewrites
        /\ call[c].rows = rows /\ call[c].held = held
        /\ call[c].damaged = damaged
        /\ Applies(call[c].op, call[c].on)
        /\ call[c].op = "sweep" \/ call[c].on \in Ids
        /\ call[c].op = "lease" => c \in Taps
        /\ call[c].at # "quarantine" => damaged \subseteq sidecar
        /\ call[c].at = "replace" /\ RowsAfter(call[c]) # {} =>
             tmp = [exists |-> TRUE, rows |-> RowsAfter(call[c]),
                    held |-> HeldAfter(call[c])]

AppendFresh(c) ==
    call[c].at = "append" =>
        call[c].op = "append" /\ call[c].on \in Ids /\ call[c].on \notin rows

QueueInv ==
    /\ TypeOK
    /\ Sound
    /\ \A c \in Gateway : RewriteFresh(c) /\ AppendFresh(c)
    /\ tail \notin held
    /\ NothingDestroyed

-----------------------------------------------------------------------------

\* What a call computes from what it read is well formed.
LEMMA AfterTyped ==
    ASSUME TypeOK, Sound, NEW c \in Clients, call[c].at \in Rewriting
    PROVE  /\ RowsAfter(call[c]) \subseteq Ids
           /\ HeldAfter(call[c]) \subseteq RowsAfter(call[c])
<1> DEFINE k == call[c]
<1>1. /\ k.rows \subseteq Ids /\ k.held \subseteq k.rows /\ k.op \in Rewrites
      /\ k.op = "lease" => k.on \in k.rows
  BY DEF TypeOK, Sound, Calls
<1>2. CASE k.op = "lease"
  BY <1>1, <1>2 DEF RowsAfter, HeldAfter
<1>3. CASE k.op \in {"remove", "clear", "sweep"}
  BY <1>1, <1>3 DEF RowsAfter, HeldAfter
<1> QED
  BY <1>1, <1>2, <1>3 DEF Rewrites

\* A step of a call that goes on keeps what the call is and what it read.
LEMMA GoesOn ==
    ASSUME TypeOK, Sound, NEW c \in Clients, NEW place \in Places, Goto(c, place),
           \/ call[c].at = "append" /\ place = "raise"
           \/ call[c].at \in Rewriting /\ place \in Rewriting,
           lock' = lock, tmp'.held \subseteq tmp'.rows
    PROVE  /\ Sound' /\ call' \in [Clients -> Calls]
           /\ \A d \in Gateway : (lock' = d) <=> (call'[d].at # "idle")
<1>1. /\ call' = [call EXCEPT ![c].at = place]
      /\ call \in [Clients -> Calls] /\ Gateway \subseteq Clients
  BY DEF Goto, TypeOK, Clients
<1>2. call' \in [Clients -> Calls]
  BY <1>1 DEF Calls
<1>3. /\ \A d \in Clients \ {c} : call'[d] = call[d]
      /\ call'[c].at = place /\ call'[c].op = call[c].op
      /\ call'[c].on = call[c].on /\ call'[c].rows = call[c].rows
      /\ call'[c].held = call[c].held
  BY <1>1 DEF Calls
<1>4. Sound'
  BY <1>3 DEF Sound, Rewriting
<1>5. \A d \in Gateway : (lock' = d) <=> (call'[d].at # "idle")
  BY <1>1, <1>3 DEF TypeOK, Rewriting
<1> QED
  BY <1>2, <1>4, <1>5

\* A call that ends gives back the lock, if its client is of the gateway.
LEMMA Ends ==
    ASSUME TypeOK, Sound, NEW c \in Clients, Leave(c), call[c].at # "idle",
           tmp'.held \subseteq tmp'.rows
    PROVE  /\ Sound' /\ call' \in [Clients -> Calls]
           /\ \A d \in Gateway : (lock' = d) <=> (call'[d].at # "idle")
           /\ lock' \in Gateway \cup {NoOne}
<1>1. /\ Idle \in Calls /\ Idle.at = "idle" /\ Gateway \subseteq Clients
      /\ call \in [Clients -> Calls] /\ call' = [call EXCEPT ![c] = Idle]
  BY DEF Leave, TypeOK, Clients, Idle, Calls, Places
<1>2. call' \in [Clients -> Calls]
  BY <1>1
<1>3. \A d \in Clients : call'[d] = IF d = c THEN Idle ELSE call[d]
  BY <1>1
<1>4. Sound'
  BY <1>1, <1>3 DEF Sound, Rewriting
<1>5. lock' \in Gateway \cup {NoOne}
  BY DEF Leave, TypeOK
<1>6. \A d \in Gateway : (lock' = d) <=> (call'[d].at # "idle")
  <2> SUFFICES ASSUME NEW d \in Gateway
               PROVE  (lock' = d) <=> (call'[d].at # "idle")
    OBVIOUS
  <2>1. NoOne \notin Gateway /\ ((lock = d) <=> (call[d].at # "idle"))
    BY QueueAssumption DEF TypeOK, Clients
  <2>2. CASE d = c
    BY <1>1, <1>3, <2>1, <2>2 DEF Leave
  <2>3. CASE d # c
    <3>1. call'[d] = call[d]
      BY <1>1, <1>3, <2>3
    <3>2. lock = c => lock' = NoOne /\ lock # d
      BY <2>3 DEF Leave
    <3> QED
      BY <2>1, <3>1, <3>2 DEF Leave
  <2> QED
    BY <2>2, <2>3
<1> QED
  BY <1>2, <1>4, <1>5, <1>6

\* Type correctness of one step, one step of the proof per action.
LEMMA TypeStep ==
    ASSUME TypeOK, Sound, [Next]_vars
    PROVE  TypeOK' /\ Sound'
<1> USE QueueAssumption
<1>0. /\ Gateway \subseteq Clients /\ call \in [Clients -> Calls]
      /\ tmp.held \subseteq tmp.rows /\ Taps \subseteq Gateway
  BY DEF TypeOK, Sound, Clients, Gateway
<1>1. ASSUME NEW c \in Clients, NEW p \in Ids \cup {NoOne},
             NEW op \in {"append", "remove", "lease", "clear", "sweep"},
             Begin(c, op, p)
      PROVE  TypeOK' /\ Sound'
  <2>1. /\ grip' \in [Taps -> Ids \cup {NoOne}]
        /\ swept' \in {"due", "done", "failed"}
    BY <1>1 DEF Begin, TypeOK
  <2>2. CASE ~Applies(op, p)
    <3>1. UNCHANGED <<file, tmp, sidecar, lock, call, up, history>>
      BY <1>1, <2>2 DEF Begin
    <3> QED
      BY <2>1, <3>1 DEF TypeOK, Sound, file, history
  <2>3. CASE Applies(op, p)
    <3> DEFINE k == [at |-> IF op = "append" THEN op ELSE "quarantine",
                     op |-> op, on |-> p,
                     rows |-> rows, held |-> held, damaged |-> damaged]
    <3>1. /\ call' = [call EXCEPT ![c] = k] /\ MayCall(c, op, p)
          /\ lock' = (IF c \in Gateway THEN c ELSE lock)
          /\ call[c].at = "idle" /\ (c \in Gateway => lock = NoOne)
          /\ UNCHANGED <<file, tmp, sidecar, up, history>>
      BY <1>1, <2>3 DEF Begin, Locked
    <3>2. k \in Calls
      BY DEF TypeOK, Calls, Places
    <3> HIDE DEF k
    <3>3. call' \in [Clients -> Calls] /\ \A d \in Clients :
             call'[d] = IF d = c THEN k ELSE call[d]
      BY <1>0, <3>1, <3>2
    <3>4. /\ op = "sweep" \/ p \in Ids
          /\ op = "lease" => c \in Taps /\ p \in rows
      BY <2>3, <3>1 DEF MayCall, Applies
    <3>5. Sound'
      <4>1. /\ k.at \in {"append", "raise"} => k.op = "append" /\ k.on \in Ids
            /\ k.at \in Rewriting =>
                 /\ k.op \in Rewrites /\ (k.op = "sweep" \/ k.on \in Ids)
                 /\ k.op = "lease" => c \in Taps /\ k.on \in k.rows
                 /\ k.held \subseteq k.rows
        BY <3>4 DEF k, Rewriting, Rewrites, TypeOK
      <4> QED
        BY <3>1, <3>3, <4>1 DEF Sound
    <3>6. \A d \in Gateway : (lock' = d) <=> (call'[d].at # "idle")
      <4>1. k.at # "idle"
        BY DEF k
      <4> QED
        BY <1>0, <3>1, <3>3, <4>1 DEF TypeOK, Clients
    <3> QED
      BY <2>1, <3>1, <3>3, <3>5, <3>6 DEF TypeOK, file, history
  <2> QED
    BY <2>2, <2>3
<1>2. ASSUME NEW c \in Clients, AppendLine(c) PROVE TypeOK' /\ Sound'
  <2>1. call[c].at = "append" /\ call[c].on \in Ids /\ UNCHANGED tmp
    BY <1>2 DEF AppendLine, Sound
  <2>2. /\ Sound' /\ call' \in [Clients -> Calls]
        /\ \A d \in Gateway : (lock' = d) <=> (call'[d].at # "idle")
        /\ lock' \in Gateway \cup {NoOne}
    BY <1>0, <1>2, <2>1, Ends DEF AppendLine
  <2> QED
    BY <1>2, <2>1, <2>2 DEF AppendLine, Written, process, TypeOK
<1>3. ASSUME NEW c \in Clients, TearLine(c) PROVE TypeOK' /\ Sound'
  <2>1. call[c].at = "append" /\ call[c].on \in Ids /\ UNCHANGED <<tmp, lock>>
    BY <1>3 DEF TearLine, Sound
  <2>2. /\ Sound' /\ call' \in [Clients -> Calls]
        /\ \A d \in Gateway : (lock' = d) <=> (call'[d].at # "idle")
    <3>1. Goto(c, "raise") /\ "raise" \in Places /\ tmp'.held \subseteq tmp'.rows
      BY <1>0, <1>3, <2>1 DEF TearLine, Places
    <3> QED
      BY <2>1, <3>1, GoesOn
  <2> QED
    BY <1>3, <2>1, <2>2 DEF TearLine, Written, process, TypeOK
<1>4. ASSUME NEW c \in Clients, Quarantine(c) PROVE TypeOK' /\ Sound'
  <2>1. /\ Sound' /\ call' \in [Clients -> Calls]
        /\ \A d \in Gateway : (lock' = d) <=> (call'[d].at # "idle")
    BY <1>0, <1>4, GoesOn DEF Quarantine, Places, Rewriting
  <2>2. sidecar' \subseteq Ids
    BY <1>0, <1>4 DEF Quarantine, TypeOK, Calls
  <2> QED
    BY <1>4, <2>1, <2>2 DEF Quarantine, TypeOK, file, process, history
<1>5. ASSUME NEW c \in Clients, WriteTmp(c) PROVE TypeOK' /\ Sound'
  <2>1. /\ tmp' \in [exists : BOOLEAN, rows : SUBSET Ids, held : SUBSET Ids]
        /\ tmp'.held \subseteq tmp'.rows
    BY <1>0, <1>5, AfterTyped DEF WriteTmp, Rewriting, TypeOK
  <2>2. /\ Sound' /\ call' \in [Clients -> Calls]
        /\ \A d \in Gateway : (lock' = d) <=> (call'[d].at # "idle")
    BY <1>5, <2>1, GoesOn DEF WriteTmp, Places, Rewriting
  <2> QED
    BY <1>5, <2>1, <2>2 DEF WriteTmp, TypeOK, file, process, history
<1>6. ASSUME NEW c \in Clients, Replace(c) PROVE TypeOK' /\ Sound'
  <2>0. /\ call[c].at \in Rewriting /\ call[c].op \in Rewrites
        /\ call[c].op = "sweep" \/ call[c].on \in Ids
        /\ call[c].op = "lease" => c \in Taps
    BY <1>6 DEF Replace, Sound, Rewriting
  <2>1. /\ rows' \subseteq Ids /\ held' \subseteq rows' /\ damaged' = {}
        /\ tail' = NoOne
        /\ tmp' \in [exists : BOOLEAN, rows : SUBSET Ids, held : SUBSET Ids]
        /\ tmp'.held \subseteq tmp'.rows
    <3>1. CASE RowsAfter(call[c]) = {} /\ Install({}, {}) /\ UNCHANGED tmp
      BY <1>0, <3>1 DEF Install, TypeOK
    <3>2. CASE Install(tmp.rows, tmp.held) /\ tmp' = NoTmp
      BY <1>0, <3>2 DEF Install, NoTmp, TypeOK
    <3> QED
      BY <1>6, <3>1, <3>2 DEF Replace
  <2>2. /\ Sound' /\ call' \in [Clients -> Calls]
        /\ \A d \in Gateway : (lock' = d) <=> (call'[d].at # "idle")
        /\ lock' \in Gateway \cup {NoOne}
    BY <1>6, <2>0, <2>1, Ends DEF Replace, Answer, Rewriting
  <2>3. /\ holders' \in [Ids -> SUBSET Taps]
        /\ pops' \in [Ids -> Nat] /\ owed' \subseteq Ids
        /\ grip' \in [Taps -> Ids \cup {NoOne}]
        /\ swept' \in {"due", "done", "failed"}
    BY <1>6, <2>0 DEF Replace, Answer, Rewrites, TypeOK
  <2>4. UNCHANGED <<sidecar, up, puts, crashes>>
    BY <1>6 DEF Replace
  <2> QED
    BY <2>1, <2>2, <2>3, <2>4 DEF TypeOK
<1>7. ASSUME NEW c \in Clients, Raise(c) PROVE TypeOK' /\ Sound'
  <2>1. /\ Sound' /\ call' \in [Clients -> Calls]
        /\ \A d \in Gateway : (lock' = d) <=> (call'[d].at # "idle")
        /\ lock' \in Gateway \cup {NoOne}
    BY <1>0, <1>7, Ends DEF Raise
  <2> QED
    BY <1>7, <2>1 DEF Raise, TypeOK, file, history
<1>8. CASE Crash
  <2>1. \A d \in Clients : call'[d] = IF d \in Gateway THEN Idle ELSE call[d]
    BY <1>8 DEF Crash
  <2>2. Idle \in Calls /\ Idle.at = "idle"
    BY DEF Idle, Calls, Places
  <2>3. /\ call' \in [Clients -> Calls] /\ lock' = NoOne
        /\ \A d \in Gateway : (lock' = d) <=> (call'[d].at # "idle")
    BY <1>0, <1>8, <2>1, <2>2 DEF Crash, Clients
  <2>4. crashes' \in 0..MaxCrashes
    BY <1>8 DEF Crash, TypeOK
  <2>5. Sound'
    BY <1>8, <2>1, <2>2 DEF Crash, Sound, Rewriting
  <2> QED
    BY <1>8, <2>3, <2>4, <2>5 DEF Crash, TypeOK, file
<1>9. CASE Start
  BY <1>9 DEF Start, TypeOK, Sound, file, history
<1>10. CASE UNCHANGED vars
  BY <1>10 DEF vars, TypeOK, Sound, file, process, history
<1> QED
  BY <1>1, <1>2, <1>3, <1>4, <1>5, <1>6, <1>7, <1>8, <1>9, <1>10
     DEF Next, Step

LEMMA TypeInit == Init => TypeOK /\ Sound
  BY QueueAssumption
     DEF Init, TypeOK, Sound, Calls, Places, Idle, NoTmp, Clients, Gateway,
         Rewriting

\* append, remove, set_lease, clear_lease and the sweep keep the file, the
\* lock and the records of every call well formed, whatever a command of
\* another process replaces in between: no row that is gone has a lease, and
\* only a client in its critical section has the lock.
THEOREM TypeCorrect == Spec => []TypeOK
<1>1. TypeOK /\ Sound /\ [Next]_vars => (TypeOK /\ Sound)'
  BY TypeStep
<1> QED
  BY <1>1, TypeInit, PTL DEF Spec

-----------------------------------------------------------------------------
(* One process.                                                            *)

\* Only one client is inside the critical section.
LEMMA OneInside ==
    ASSUME TypeOK, NEW c \in Gateway, NEW d \in Gateway,
           call[c].at # "idle", call[d].at # "idle"
    PROVE  c = d
BY DEF TypeOK

LEMMA InitQueueInv == Clis = {} /\ Init => QueueInv
<1> SUFFICES ASSUME Clis = {}, Init PROVE QueueInv
  OBVIOUS
<1> USE QueueAssumption
<1>1. TypeOK /\ Sound
  BY TypeInit
<1>2. \A c \in Gateway : RewriteFresh(c) /\ AppendFresh(c)
  BY DEF Init, RewriteFresh, AppendFresh, Rewriting, Idle, Clients, Gateway
<1>3. tail \notin held
  BY DEF Init
<1>4. NothingDestroyed
  BY DEF Init, NothingDestroyed
<1> QED
  BY <1>1, <1>2, <1>3, <1>4 DEF QueueInv

\* What a rewrite leaves in the queue file is what the call computed from the
\* file it read, the case of a queue that becomes empty included.
LEMMA ReplaceEffect ==
    ASSUME Clis = {}, QueueInv, NEW c \in Clients, Replace(c)
    PROVE  /\ rows' = RowsAfter(call[c]) /\ held' = HeldAfter(call[c])
           /\ held' \subseteq rows' /\ rows' \subseteq rows
           /\ damaged' = {} /\ tail' = NoOne /\ damaged \subseteq sidecar
           /\ call[c].op \in Rewrites
           /\ call[c].op = "sweep" \/ call[c].on \in Ids
<1> DEFINE k == call[c]
<1>1. c \in Gateway
  BY DEF Clients
<1>2. k.at = "replace" /\ k.at \in Rewriting
  BY DEF Replace, Rewriting
<1>3. /\ k.op \in Rewrites /\ k.rows = rows /\ k.held = held
      /\ Applies(k.op, k.on) /\ (k.op = "sweep" \/ k.on \in Ids)
      /\ damaged \subseteq sidecar
      /\ RowsAfter(k) # {} => tmp = [exists |-> TRUE, rows |-> RowsAfter(k),
                                    held |-> HeldAfter(k)]
  BY <1>1, <1>2 DEF QueueInv, RewriteFresh
<1>4. held \subseteq rows
  BY DEF QueueInv, TypeOK
<1>5. /\ HeldAfter(k) \subseteq RowsAfter(k)
      /\ RowsAfter(k) \subseteq rows
  <2>1. CASE k.op = "lease"
    <3>1. k.on \in rows
      BY <1>3, <2>1 DEF Applies
    <3>2. HeldAfter(k) = held \cup {k.on} /\ RowsAfter(k) = rows
      BY <1>3, <2>1 DEF HeldAfter, RowsAfter
    <3> QED
      BY <1>4, <3>1, <3>2
  <2>2. CASE k.op = "sweep"
    BY <1>3, <1>4, <2>2 DEF HeldAfter, RowsAfter
  <2>3. CASE k.op \in {"remove", "clear"}
    BY <1>3, <1>4, <2>3 DEF HeldAfter, RowsAfter
  <2> QED
    BY <1>3, <2>1, <2>2, <2>3 DEF Rewrites
<1>6. rows' = RowsAfter(k) /\ held' = HeldAfter(k)
  <2>1. CASE RowsAfter(k) = {}
    BY <2>1, <1>5 DEF Replace, Install
  <2>2. CASE RowsAfter(k) # {}
    BY <2>2, <1>3 DEF Replace, Install
  <2> QED
    BY <2>1, <2>2
<1>7. damaged' = {} /\ tail' = NoOne
  BY DEF Replace, Install
<1> QED
  BY <1>3, <1>5, <1>6, <1>7

-----------------------------------------------------------------------------

\* What one client works on stays fresh: while it is inside, no other client
\* of the gateway is, and its own steps keep what it wrote up to date.
LEMMA FreshStep ==
    ASSUME Clis = {}, QueueInv, [Next]_vars
    PROVE  \A d \in Gateway : RewriteFresh(d)' /\ AppendFresh(d)'
<1> SUFFICES ASSUME NEW d \in Gateway
             PROVE  RewriteFresh(d)' /\ AppendFresh(d)'
  OBVIOUS
<1>0. /\ TypeOK /\ RewriteFresh(d) /\ AppendFresh(d) /\ d \in Clients
      /\ call \in [Clients -> Calls] /\ Clients = Gateway
  BY DEF QueueInv, TypeOK, Clients
<1>1. call'[d].at = "idle" => RewriteFresh(d)' /\ AppendFresh(d)'
  BY DEF RewriteFresh, AppendFresh, Rewriting
<1>2. UNCHANGED <<file, tmp, sidecar>> /\ call'[d] = call[d]
        => RewriteFresh(d)' /\ AppendFresh(d)'
  BY <1>0 DEF RewriteFresh, AppendFresh, Rewriting, file, Applies, RowsAfter,
              HeldAfter
<1>3. ASSUME NEW c \in Clients, call[c].at # "idle", c # d
      PROVE  call[d].at = "idle"
  BY <1>0, <1>3, OneInside
<1>4. ASSUME NEW c \in Clients, NEW p \in Ids \cup {NoOne},
             NEW op \in {"append", "remove", "lease", "clear", "sweep"},
             Begin(c, op, p)
      PROVE  RewriteFresh(d)' /\ AppendFresh(d)'
  <2>1. CASE ~Applies(op, p) \/ c # d
    BY <2>1, <1>0, <1>2, <1>4 DEF Begin
  <2>2. CASE Applies(op, p) /\ c = d
    <3>1. /\ UNCHANGED <<rows, held, damaged, tmp, sidecar>>
          /\ MayCall(c, op, p)
          /\ call'[d] = [at |-> IF op = "append" THEN op ELSE "quarantine",
                         op |-> op, on |-> p,
                         rows |-> rows, held |-> held, damaged |-> damaged]
      BY <1>0, <1>4, <2>2 DEF Begin, file
    <3>2. Applies(op, p)'
      BY <2>2, <3>1 DEF Applies
    <3>3. (op = "sweep" \/ p \in Ids) /\ (op = "lease" => c \in Taps)
      BY <3>1 DEF MayCall
    <3>4. CASE op = "append"
      BY <2>2, <3>1, <3>3, <3>4 DEF RewriteFresh, AppendFresh, Rewriting,
                                    Applies
    <3>5. CASE op # "append"
      BY <2>2, <3>1, <3>2, <3>3, <3>5 DEF RewriteFresh, AppendFresh,
                                          Rewriting, Rewrites
    <3> QED
      BY <3>4, <3>5
  <2> QED
    BY <2>1, <2>2
<1>5. ASSUME NEW c \in Clients,
             AppendLine(c) \/ TearLine(c) \/ Replace(c) \/ Raise(c)
      PROVE  RewriteFresh(d)' /\ AppendFresh(d)'
  <2>1. call[c].at # "idle"
    BY <1>5 DEF AppendLine, TearLine, Replace, Raise
  <2>2. call'[c].at \in {"idle", "raise"} /\ (c # d => call'[d] = call[d])
    BY <1>0, <1>5 DEF AppendLine, TearLine, Replace, Raise, Answer, Leave,
                      Goto, Idle, Calls
  <2>3. CASE c # d
    BY <1>1, <1>3, <2>1, <2>2, <2>3
  <2>4. CASE c = d
    BY <2>2, <2>4 DEF RewriteFresh, AppendFresh, Rewriting
  <2> QED
    BY <2>3, <2>4
<1>6. ASSUME NEW c \in Clients, Quarantine(c)
      PROVE  RewriteFresh(d)' /\ AppendFresh(d)'
  <2>1. CASE c # d
    BY <1>0, <1>1, <1>3, <1>6, <2>1 DEF Quarantine, Goto
  <2>2. CASE c = d
    <3>1. /\ UNCHANGED <<rows, held, damaged, tmp>>
          /\ sidecar' = sidecar \cup damaged
          /\ call[d].at = "quarantine" /\ call'[d].at = "tmp"
      BY <1>0, <1>6, <2>2 DEF Quarantine, Goto, file, RewriteFresh,
                              Rewriting, Calls
    <3>2. /\ call'[d].op = call[d].op /\ call'[d].on = call[d].on
          /\ call'[d].rows = call[d].rows /\ call'[d].held = call[d].held
          /\ call'[d].damaged = call[d].damaged
      BY <1>0, <1>6, <2>2 DEF Quarantine, Goto, Calls
    <3> QED
      BY <1>0, <3>1, <3>2 DEF RewriteFresh, AppendFresh, Rewriting, Applies
  <2> QED
    BY <2>1, <2>2
<1>7. ASSUME NEW c \in Clients, WriteTmp(c)
      PROVE  RewriteFresh(d)' /\ AppendFresh(d)'
  <2>1. CASE c # d
    BY <1>0, <1>1, <1>3, <1>7, <2>1 DEF WriteTmp, Goto
  <2>2. CASE c = d
    <3>1. /\ UNCHANGED <<rows, held, damaged, sidecar>>
          /\ call[d].at = "tmp" /\ call'[d].at = "replace"
          /\ RowsAfter(call[d]) # {} =>
               tmp' = [exists |-> TRUE, rows |-> RowsAfter(call[d]),
                       held |-> HeldAfter(call[d])]
      BY <1>0, <1>7, <2>2 DEF WriteTmp, Goto, file, Calls
    <3>2. /\ call'[d].op = call[d].op /\ call'[d].on = call[d].on
          /\ call'[d].rows = call[d].rows /\ call'[d].held = call[d].held
          /\ call'[d].damaged = call[d].damaged
      BY <1>0, <1>7, <2>2 DEF WriteTmp, Goto, Calls
    <3>3. RowsAfter(call'[d]) = RowsAfter(call[d])
          /\ HeldAfter(call'[d]) = HeldAfter(call[d])
      BY <3>2 DEF RowsAfter, HeldAfter
    <3> QED
      BY <1>0, <3>1, <3>2, <3>3 DEF RewriteFresh, AppendFresh, Rewriting,
                                    Applies
  <2> QED
    BY <2>1, <2>2
<1>8. CASE Crash
  BY <1>0, <1>1, <1>8 DEF Crash, Idle
<1>9. CASE Start
  BY <1>2, <1>9 DEF Start
<1>10. CASE UNCHANGED vars
  BY <1>2, <1>10 DEF vars
<1> QED
  BY <1>4, <1>5, <1>6, <1>7, <1>8, <1>9, <1>10 DEF Next, Step

\* A row on a line without newline has no lease: a lease comes with a rewrite,
\* which ends every line.  The text of a written proposal stays somewhere.
LEMMA FileStep ==
    ASSUME Clis = {}, QueueInv, [Next]_vars
    PROVE  tail' \notin held' /\ NothingDestroyed'
<1>0. /\ tail \notin held /\ owed \subseteq rows \cup damaged \cup sidecar
      /\ held \subseteq rows /\ NoOne \notin Ids /\ rows \subseteq Ids
      /\ Clients = Gateway
  BY QueueAssumption DEF QueueInv, NothingDestroyed, TypeOK, Clients
<1> USE DEF NothingDestroyed
<1>1. UNCHANGED <<file, owed>> /\ sidecar \subseteq sidecar'
        => tail' \notin held' /\ NothingDestroyed'
  BY <1>0 DEF file
<1>2. ASSUME NEW c \in Clients, AppendLine(c) \/ TearLine(c)
      PROVE  tail' \notin held' /\ NothingDestroyed'
  <2>1. call[c].on \notin rows /\ call[c].on \in Ids
    BY <1>0, <1>2 DEF AppendLine, TearLine, QueueInv, AppendFresh
  <2>2. CASE AppendLine(c)
    BY <1>0, <2>1, <2>2 DEF AppendLine, Written
  <2>3. CASE TearLine(c)
    BY <1>0, <2>1, <2>3 DEF TearLine, Written
  <2> QED
    BY <1>2, <2>2, <2>3
<1>3. ASSUME NEW c \in Clients, Replace(c)
      PROVE  tail' \notin held' /\ NothingDestroyed'
  <2>1. /\ rows' = RowsAfter(call[c]) /\ call[c].rows = rows
        /\ tail' = NoOne /\ held' \subseteq rows /\ damaged \subseteq sidecar
        /\ UNCHANGED sidecar
    BY <1>0, <1>3, ReplaceEffect DEF Replace, QueueInv, RewriteFresh,
                                     Rewriting
  <2>2. owed' = IF call[c].op = "remove" THEN owed \ {call[c].on} ELSE owed
    BY <1>3 DEF Replace, Answer
  <2> QED
    BY <1>0, <2>1, <2>2 DEF RowsAfter
<1>4. ASSUME NEW c \in Clients,
             Quarantine(c) \/ WriteTmp(c) \/ Raise(c)
      PROVE  tail' \notin held' /\ NothingDestroyed'
  BY <1>1, <1>4 DEF Quarantine, WriteTmp, Raise, history
<1>5. ASSUME NEW c \in Clients, NEW p \in Ids \cup {NoOne},
             NEW op \in {"append", "remove", "lease", "clear", "sweep"},
             Begin(c, op, p)
      PROVE  tail' \notin held' /\ NothingDestroyed'
  BY <1>1, <1>5 DEF Begin, history
<1>6. CASE Crash \/ Start \/ UNCHANGED vars
  BY <1>1, <1>6 DEF Crash, Start, vars, history
<1> QED
  BY <1>2, <1>3, <1>4, <1>5, <1>6 DEF Next, Step

LEMMA Inductive ==
    ASSUME Clis = {}
    PROVE  Spec => []QueueInv
<1>1. Init => QueueInv
  BY InitQueueInv
<1>2. QueueInv /\ [Next]_vars => QueueInv'
  <2> SUFFICES ASSUME QueueInv, [Next]_vars PROVE QueueInv'
    OBVIOUS
  <2> QED
    BY TypeStep, FreshStep, FileStep DEF QueueInv
<1> QED
  BY <1>1, <1>2, PTL DEF Spec

-----------------------------------------------------------------------------

\* Every step of a call maps to an atomic step of the contract: a completed
\* or interrupted write to the end of the file, the replacement of the file,
\* the end of the gateway.  The other steps change nothing it shows.
LEMMA StepSimulates ==
    ASSUME Clis = {}, QueueInv, [Next]_vars
    PROVE  [Contract!Next]_(Contract!cvars)
<1> USE DEF Contract!cvars
<1>0. /\ Clients = Gateway /\ tail \notin held /\ held \subseteq rows
      /\ holders \in [Ids -> SUBSET Taps]
  BY DEF QueueInv, TypeOK, Clients
<1>1. UNCHANGED <<file, history>> => UNCHANGED Contract!cvars
  BY DEF file, history
<1>2. ASSUME NEW c \in Clients, AppendLine(c)
      PROVE  Contract!Next
  <2>1. call[c].on \notin rows /\ call[c].on \in Ids
    BY <1>0, <1>2 DEF AppendLine, QueueInv, AppendFresh
  <2>2. Contract!Append(call[c].on)
    BY <1>0, <1>2, <2>1 DEF AppendLine, Written, Contract!Append
  <2> QED
    BY <2>1, <2>2 DEF Contract!Next
<1>3. ASSUME NEW c \in Clients, TearLine(c)
      PROVE  Contract!Next
  <2>1. call[c].on \notin rows /\ call[c].on \in Ids
    BY <1>0, <1>3 DEF TearLine, QueueInv, AppendFresh
  <2>2. Contract!AppendTorn(call[c].on)
    BY <1>0, <1>3, <2>1 DEF TearLine, Written, Contract!AppendTorn
  <2> QED
    BY <2>1, <2>2 DEF Contract!Next
<1>4. ASSUME NEW c \in Clients, Replace(c)
      PROVE  Contract!Next
  <2> DEFINE k == call[c]
  <2>1. /\ rows' = RowsAfter(k) /\ held' = HeldAfter(k) /\ tail' = NoOne
        /\ k.op \in Rewrites /\ (k.op = "sweep" \/ k.on \in Ids)
    BY <1>4, ReplaceEffect
  <2>2. /\ k.rows = rows /\ k.held = held /\ Applies(k.op, k.on)
        /\ (k.op = "lease" => c \in Taps)
    BY <1>0, <1>4 DEF Replace, QueueInv, RewriteFresh, Rewriting
  <2>3. UNCHANGED puts
    BY <1>4 DEF Replace
  <2>4. CASE k.op = "lease"
    <3>1. Contract!Lease(c, k.on)
      BY <1>4, <2>1, <2>2, <2>3, <2>4
         DEF Replace, Answer, Applies, RowsAfter, HeldAfter, Contract!Lease
    <3> QED
      BY <2>1, <2>2, <2>4, <3>1 DEF Contract!Next
  <2>5. CASE k.op = "clear"
    <3>1. Contract!ClearLease(k.on)
      BY <1>4, <2>1, <2>2, <2>3, <2>5
         DEF Replace, Answer, Applies, RowsAfter, HeldAfter,
             Contract!ClearLease
    <3> QED
      BY <2>1, <2>5, <3>1 DEF Contract!Next
  <2>6. CASE k.op = "remove"
    <3>1. Contract!Remove(k.on)
      BY <1>4, <2>1, <2>2, <2>3, <2>6
         DEF Replace, Answer, Applies, RowsAfter, HeldAfter, Contract!Remove
    <3> QED
      BY <2>1, <2>6, <3>1 DEF Contract!Next
  <2>7. CASE k.op = "sweep"
    <3>1. Contract!Sweep
      BY <1>4, <2>1, <2>2, <2>3, <2>7
         DEF Replace, Answer, RowsAfter, HeldAfter, Contract!Sweep
    <3> QED
      BY <3>1 DEF Contract!Next
  <2> QED
    BY <2>1, <2>4, <2>5, <2>6, <2>7 DEF Rewrites
<1>5. CASE Crash
  <2>1. Contract!Restart
    BY <1>5 DEF Crash, Contract!Restart, file
  <2> QED
    BY <2>1 DEF Contract!Next
<1>6. ASSUME NEW c \in Clients, NEW p \in Ids \cup {NoOne},
             NEW op \in {"append", "remove", "lease", "clear", "sweep"},
             Begin(c, op, p)
      PROVE  UNCHANGED Contract!cvars
  BY <1>1, <1>6 DEF Begin
<1>7. ASSUME NEW c \in Clients,
             Quarantine(c) \/ WriteTmp(c) \/ Raise(c)
      PROVE  UNCHANGED Contract!cvars
  BY <1>1, <1>7 DEF Quarantine, WriteTmp, Raise
<1>8. CASE Start \/ UNCHANGED vars
  BY <1>1, <1>8 DEF Start, vars
<1> QED
  BY <1>2, <1>3, <1>4, <1>5, <1>6, <1>7, <1>8 DEF Next, Step

\* Under the lock of one process, reads, sidecar writes, temporary files and
\* replacements implement a queue that changes in atomic steps, with crashes
\* anywhere.
THEOREM QueueIsAtomic ==
    ASSUME Clis = {}
    PROVE  Spec => AtomicQueue
<1>1. Init => Contract!Init
  BY DEF Init, Contract!Init
<1>2. QueueInv /\ [Next]_vars => [Contract!Next]_(Contract!cvars)
  BY StepSimulates
<1>3. Spec => []QueueInv
  BY Inductive
<1> QED
  BY <1>1, <1>2, <1>3, PTL DEF Spec, AtomicQueue, Contract!Spec

\* No line is destroyed by a rewrite, a crash, or an append onto a torn line.
THEOREM DamagedLinesKept ==
    ASSUME Clis = {}
    PROVE  Spec => []NothingDestroyed
<1>1. QueueInv => NothingDestroyed
  BY DEF QueueInv
<1> QED
  BY <1>1, Inductive, PTL

\* The double-tap guard of set_lease holds for the taps of one process; it is
\* the contract's LeaseExclusive, through the refinement.
THEOREM OneTapHolds ==
    ASSUME Clis = {}
    PROVE  Spec => []DoubleTapGuard
<1>1. Contract!Spec => []Contract!ContractInv
  BY QueueAssumption, Contract!ContractHolds
<1>2. Contract!ContractInv => DoubleTapGuard
  BY DEF Contract!ContractInv, Contract!LeaseExclusive, DoubleTapGuard
<1>3. Spec => Contract!Spec
  BY QueueIsAtomic DEF AtomicQueue
<1> QED
  BY <1>1, <1>2, <1>3, PTL
=============================================================================
