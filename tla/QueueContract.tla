--------------------------- MODULE QueueContract ---------------------------
(***************************************************************************)
(* What grove/eval/proposal_queue.py promises its callers: a set of        *)
(* pending proposals that changes in atomic steps, each row with a lease   *)
(* that one operator tap holds at a time.                                  *)
(*                                                                         *)
(* The one thing it cannot promise is a whole file after an interrupted    *)
(* append: the line may be cut off, and then the next append continues     *)
(* that line, so that neither row can be read.                             *)
(***************************************************************************)
EXTENDS Naturals, TLAPS

CONSTANTS
    Ids,         \* proposals: the ids are content-addressed
    Taps,        \* operator taps and the other tasks of the gateway
    NoOne        \* not a proposal

VARIABLES
    rows,        \* proposals that can be read
    held,        \* those with a lease
    tail,        \* the proposal whose line has no newline yet
    holders,     \* by proposal: taps told "acquired", lease not cleared since
    puts,        \* times each proposal was written
    pops         \* times a caller was told that it removed the row

cvars == <<rows, held, tail, holders, puts, pops>>

Init ==
    /\ rows \in SUBSET Ids
    /\ held \in SUBSET rows
    /\ tail = NoOne
    /\ holders = [p \in Ids |-> {}]
    /\ puts = [p \in Ids |-> IF p \in rows THEN 1 ELSE 0]
    /\ pops = [p \in Ids |-> 0]

Append(p) ==
    /\ p \notin rows
    /\ rows' = IF tail = NoOne THEN rows \cup {p} ELSE rows \ {tail}
    /\ tail' = NoOne
    /\ puts' = [puts EXCEPT ![p] = @ + 1]
    /\ UNCHANGED <<held, holders, pops>>

AppendTorn(p) ==
    /\ p \notin rows
    /\ IF tail = NoOne THEN tail' = p /\ rows' \in {rows, rows \cup {p}}
                       ELSE tail' = tail /\ rows' = rows \ {tail}
    /\ puts' = [puts EXCEPT ![p] = @ + 1]
    /\ UNCHANGED <<held, holders, pops>>

Lease(c, p) ==
    /\ p \in rows \ held
    /\ held' = held \cup {p}
    /\ holders' = [holders EXCEPT ![p] = @ \cup {c}]
    /\ tail' = NoOne
    /\ UNCHANGED <<rows, puts, pops>>

ClearLease(p) ==
    /\ p \in held
    /\ held' = held \ {p}
    /\ holders' = [holders EXCEPT ![p] = {}]
    /\ tail' = NoOne
    /\ UNCHANGED <<rows, puts, pops>>

Remove(p) ==
    /\ p \in rows
    /\ rows' = rows \ {p}
    /\ held' = held \ {p}
    /\ holders' = [holders EXCEPT ![p] = {}]
    /\ tail' = NoOne
    /\ pops' = [pops EXCEPT ![p] = @ + 1]
    /\ UNCHANGED puts

Sweep ==
    /\ held' = {}
    /\ holders' = [p \in Ids |-> {}]
    /\ tail' = NoOne
    /\ UNCHANGED <<rows, puts, pops>>

\* The gateway ends, and its taps with it: their leases are stranded.
Restart ==
    /\ holders' = [p \in Ids |-> {}]
    /\ UNCHANGED <<rows, held, tail, puts, pops>>

Next ==
    \/ \E p \in Ids : \/ Append(p) \/ AppendTorn(p)
                      \/ ClearLease(p) \/ Remove(p)
                      \/ \E c \in Taps : Lease(c, p)
    \/ Sweep
    \/ Restart

Spec == Init /\ [][Next]_cvars

-----------------------------------------------------------------------------

\* Every variable has its type; only whole lines have leases.
ContractTypeOK ==
    /\ rows \subseteq Ids /\ held \subseteq rows
    /\ tail \in Ids \cup {NoOne} /\ tail \notin held
    /\ holders \in [Ids -> SUBSET Taps]
    /\ puts \in [Ids -> Nat] /\ pops \in [Ids -> Nat]

\* The double-tap guard: of the taps that were told "acquired", at most one
\* has not seen its lease cleared, and the row still records that lease.
LeaseExclusive ==
    \A p \in Ids :
        /\ \A c, d \in holders[p] : c = d
        /\ holders[p] # {} => p \in held

\* Two callers are never both told that they removed the same write of a
\* proposal.
OneRemovalPerPut ==
    \A p \in Ids : pops[p] <= puts[p] /\ (p \in rows => pops[p] < puts[p])

ContractInv == ContractTypeOK /\ LeaseExclusive /\ OneRemovalPerPut

\* The three are inductive together, whatever the proposals and the taps:
\* what the atomic queue promises to the callers of set_lease and
\* finalize_proposal_state.
THEOREM ContractHolds ==
    ASSUME NoOne \notin Ids
    PROVE  Spec => []ContractInv
<1>1. Init => ContractInv
  BY DEF Init, ContractInv, ContractTypeOK, LeaseExclusive, OneRemovalPerPut
<1>2. ContractInv /\ [Next]_cvars => ContractInv'
  <2> SUFFICES ASSUME ContractInv, [Next]_cvars PROVE ContractInv'
    OBVIOUS
  <2> USE DEF ContractInv, ContractTypeOK, LeaseExclusive, OneRemovalPerPut
  <2>1. ASSUME NEW p \in Ids, Append(p) PROVE ContractInv'
    BY <2>1 DEF Append
  <2>2. ASSUME NEW p \in Ids, AppendTorn(p) PROVE ContractInv'
    BY <2>2 DEF AppendTorn
  <2>3. ASSUME NEW p \in Ids, NEW c \in Taps, Lease(c, p) PROVE ContractInv'
    BY <2>3 DEF Lease
  <2>4. ASSUME NEW p \in Ids, ClearLease(p) PROVE ContractInv'
    BY <2>4 DEF ClearLease
  <2>5. ASSUME NEW p \in Ids, Remove(p) PROVE ContractInv'
    BY <2>5 DEF Remove
  <2>6. CASE Sweep
    BY <2>6 DEF Sweep
  <2>7. CASE Restart
    BY <2>7 DEF Restart
  <2>8. CASE UNCHANGED cvars
    BY <2>8 DEF cvars
  <2> QED
    BY <2>1, <2>2, <2>3, <2>4, <2>5, <2>6, <2>7, <2>8 DEF Next
<1> QED
  BY <1>1, <1>2, PTL DEF Spec
=============================================================================
