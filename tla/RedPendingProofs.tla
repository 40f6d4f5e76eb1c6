-------------------------- MODULE RedPendingProofs --------------------------
(* Type correctness of RedPending, exclusive claims, and one execution per  *)
(* stored row, for any number of effects, threads, command lines, edits,    *)
(* proposals and crashes.                                                   *)
EXTENDS RedPending, TLAPS

USE ConstantsAssumption DEF ConstantsAssumption

-----------------------------------------------------------------------------
(* What the helpers of the model do to the types.                          *)

Working(f) ==
    /\ f \in [Approvers -> Requests]
    /\ \A a \in Approvers : /\ f[a].at # "idle" => f[a].work \in Proposals
                            /\ f[a].at = "dropCard" => a = Portal

LEMMA CountTyped ==
    ASSUME NEW f \in [Proposals -> Nat], NEW S
    PROVE  /\ Count(f, S) \in [Proposals -> Nat]
           /\ \A p \in Proposals :
                 Count(f, S)[p] = IF p \in S THEN f[p] + 1 ELSE f[p]
  BY DEF Count

LEMMA IdleTyped == Idle \in Requests /\ Idle.at = "idle"
  BY DEF Idle, Requests

LEMMA RequestTyped ==
    ASSUME NEW f, Working(f), NEW a \in Approvers, NEW r \in Requests,
           r.at # "idle" => r.work \in Proposals,
           r.at = "dropCard" => a = Portal
    PROVE  Working([f EXCEPT ![a] = r])
  BY DEF Working

LEMMA FinishTyped ==
    ASSUME Working(req), NEW a \in Approvers, Finish(a)
    PROVE  Working(req)'
  BY IdleTyped, RequestTyped DEF Finish, Working

LEMMA GotoTyped ==
    ASSUME Working(req), NEW a \in Approvers, req[a].work \in Proposals,
           NEW place \in {"withdraw", "abort", "dispatch", "pop", "release"},
           Goto(a, place)
    PROVE  Working(req)'
<1> DEFINE r == [req[a] EXCEPT !.at = place]
<1>1. r \in Requests /\ r.work \in Proposals /\ r.at # "dropCard"
  BY DEF Working, Requests
<1>2. req' = [req EXCEPT ![a] = r]
  BY DEF Goto, Working, Requests
<1>3. Working([req EXCEPT ![a] = r])
  BY <1>1, RequestTyped
<1> QED BY <1>2, <1>3 DEF Working

LEMMA CleanTyped ==
    ASSUME Working(req), NEW p \in Proposals, Clean(p)
    PROVE  Working(req)'
<1> DEFINE r == [req[Portal] EXCEPT !.at = "dropCard", !.work = p]
<1>1. Portal \in Approvers
  BY DEF Approvers
<1>2. r \in Requests /\ r.work \in Proposals
  BY <1>1 DEF Working, Requests
<1>3. req' = [req EXCEPT ![Portal] = r]
  BY <1>1 DEF Clean, Working, Requests
<1>4. Working([req EXCEPT ![Portal] = r])
  BY <1>1, <1>2, RequestTyped
<1> QED BY <1>3, <1>4 DEF Working

LEMMA DeleteTyped ==
    ASSUME TypeOK, NEW p \in Proposals, NEW by, DeleteRow(p, by)
    PROVE  /\ stored' \subseteq Proposals /\ claimed' \subseteq stored'
           /\ sealed' \subseteq Proposals
           /\ anchor' \in [Proposals -> Bodies \cup {NoAnchor}]
           /\ displaced' \subseteq Approvers
<1>1. On(p) \subseteq Approvers
  BY DEF On
<1>2. displaced' \subseteq Approvers
  BY <1>1 DEF TypeOK, DeleteRow
<1>3. anchor' \in [Proposals -> Bodies \cup {NoAnchor}]
  BY DEF TypeOK, DeleteRow
<1>4. stored' \subseteq Proposals /\ claimed' \subseteq stored'
  BY DEF TypeOK, DeleteRow
<1> QED BY <1>2, <1>3, <1>4 DEF TypeOK, DeleteRow

LEMMA TypeInit == Init => TypeOK
  BY IdleTyped DEF Init, TypeOK, Bodies, Approvers
-----------------------------------------------------------------------------
LEMMA TypeStep == TypeOK /\ [Next]_vars => TypeOK'
<1> SUFFICES ASSUME TypeOK, [Next]_vars PROVE TypeOK'
  OBVIOUS
<1> USE DEF TypeOK
<1>0. Working(req)
  BY DEF TypeOK, Working
<1>W. Working(req)' => /\ req' \in [Approvers -> Requests]
                       /\ \A a \in Approvers :
                             /\ req'[a].at # "idle" => req'[a].work \in Proposals
                             /\ req'[a].at = "dropCard" => a = Portal
  BY DEF Working
<1>1. ASSUME NEW t \in Threads, NEW p \in Proposals, Propose(t, p)
      PROVE  TypeOK'
  BY <1>1, CountTyped
     DEF Propose, StorePending, StoreContinuation, Put, Bodies, On, Claimant
<1>2. ASSUME NEW t \in Threads, AppendCard(t) PROVE TypeOK'
  BY <1>2 DEF AppendCard, rows, history
<1>3. ASSUME NEW p \in Proposals, Operate(p) PROVE TypeOK'
  <2>1. CASE Approve(p)
    <3>1. Working(req)'
      BY <2>1, <1>0, CleanTyped DEF Approve, Working
    <3> QED BY <2>1, <3>1, <1>W DEF Approve, rows, gateway, history
  <2>2. CASE Dismiss(p)
    <3>1. Working(req)'
      BY <2>2, <1>0, CleanTyped DEF Dismiss
    <3> QED BY <2>2, <3>1, <1>W, DeleteTyped DEF Dismiss, gateway
  <2>3. CASE ClaimAbsent(p)
    <3>1. Working(req)'
      BY <2>3, <1>0, CleanTyped DEF ClaimAbsent
    <3> QED BY <2>3, <3>1, <1>W DEF ClaimAbsent, rows, gateway, history
  <2>4. ASSUME NEW c \in Clis, CliReject(c, p) PROVE TypeOK'
    BY <2>4 DEF CliReject, rows, gateway, history
  <2> QED BY <1>3, <2>1, <2>2, <2>3, <2>4 DEF Operate
<1>4. ASSUME NEW p \in Proposals, Expire(p) PROVE TypeOK'
  BY <1>4 DEF Expire, rows, gateway, history
<1>5. ASSUME NEW a \in Approvers, NEW p \in Proposals, Claim(a, p)
      PROVE  TypeOK'
  <2> DEFINE r == [at |-> "cas", work |-> p, anchor |-> anchor[p],
                   sealed |-> p \in sealed]
  <2>1. r \in Requests
    BY DEF Requests
  <2>2. Working([req EXCEPT ![a] = r])
    BY <1>0, <2>1, RequestTyped
  <2>3. Working(req)'
    BY <1>5, <2>2 DEF Claim, Working
  <2> QED BY <1>5, <2>3, <1>W DEF Claim, gateway, history
<1>6. ASSUME NEW a \in Approvers, Advance(a) PROVE TypeOK'
  <2>1. CASE Check(a)
    <3>0. req[a].work \in Proposals
      BY <2>1 DEF Check
    <3>1. Working(req)'
      BY <2>1, <3>0, <1>0, GotoTyped DEF Check
    <3> QED BY <2>1, <3>1, <1>W DEF Check, rows, gateway, history
  <2>2. ASSUME req[a].work \in Proposals, Settle(a) PROVE TypeOK'
    <3>1. Working(req)'
      BY <2>2, <1>0, CleanTyped, FinishTyped DEF Settle
    <3> QED BY <2>2, <3>1, <1>W, DeleteTyped DEF Settle, gateway
  <2>3. CASE Abort(a)
    <3>1. Working(req)'
      BY <2>3, <1>0, FinishTyped DEF Abort
    <3> QED BY <2>3, <3>1, <1>W, DeleteTyped DEF Abort, gateway
  <2>4. CASE Execute(a)
    <3>0. req[a].work \in Proposals
      BY <2>4 DEF Execute
    <3>1. Working(req)'
      BY <2>4, <3>0, <1>0, GotoTyped DEF Execute
    <3> QED
      BY <2>4, <3>1, <1>W, CountTyped
         DEF Execute, Overtake, rows, gateway, Bodies
  <2>5. CASE ExecuteFails(a)
    <3>0. req[a].work \in Proposals
      BY <2>5 DEF ExecuteFails
    <3>1. Working(req)'
      BY <2>5, <3>0, <1>0, GotoTyped DEF ExecuteFails
    <3> QED
      BY <2>5, <3>1, <1>W DEF ExecuteFails, Overtake, rows, gateway, Bodies
  <2>6. CASE Release(a)
    <3>1. Working(req)'
      BY <2>6, <1>0, FinishTyped DEF Release
    <3> QED BY <2>6, <3>1, <1>W, CountTyped DEF Release, gateway, On
  <2>7. req[a].at # "idle" => req[a].work \in Proposals
    OBVIOUS
  <2>8. Withdraw(a) \/ Pop(a) => TypeOK'
    BY <2>2, <2>7 DEF Withdraw, Pop
  <2> QED
    BY <1>6, <2>1, <2>3, <2>4, <2>5, <2>6, <2>8 DEF Advance
<1>7. CASE DropCard
  <2>1. Working(req)'
    BY <1>7, <1>0, FinishTyped DEF DropCard, Approvers
  <2> QED BY <1>7, <2>1, <1>W DEF DropCard, rows, gateway, history
<1>8. ASSUME NEW a \in Approvers, Die(a),
             \/ UNCHANGED gateway
             \/ /\ up' = FALSE /\ appending' = [t \in Threads |-> Nothing]
                /\ reaper' = "due" /\ sweep' = {} /\ doomed' = Nothing
      PROVE  TypeOK'
  <2>1. Working(req)'
    BY <1>8, <1>0, FinishTyped DEF Die
  <2>2. UNCHANGED <<rows, cards, file, armed, puts, landed, rejected>>
    BY <1>8 DEF Die
  <2>3. lapses' \in [Proposals -> Nat] /\ displaced' \subseteq Approvers
        /\ crashes' \in Nat /\ raced' \subseteq Approvers
    BY <1>8, CountTyped DEF Die
  <2>4. CASE UNCHANGED gateway
    BY <2>1, <2>2, <2>3, <2>4, <1>W DEF rows, gateway
  <2>5. CASE /\ up' = FALSE /\ appending' = [t \in Threads |-> Nothing]
             /\ reaper' = "due" /\ sweep' = {} /\ doomed' = Nothing
    BY <2>1, <2>2, <2>3, <2>5, <1>W DEF rows
  <2> QED BY <1>8, <2>4, <2>5
<1>9. CASE Start
  BY <1>9 DEF Start, rows, history
<1>10. CASE Reap
  <2>1. CASE ReleaseStale
    BY <2>1, CountTyped DEF ReleaseStale
  <2>2. CASE ReadCards
    BY <2>2 DEF ReadCards, rows, history
  <2>3. CASE ReapFinalize \/ ReapFails
    BY <2>3 DEF ReapFinalize, ReapFails, rows, history
  <2>4. CASE ReapDone
    BY <2>4 DEF ReapDone, rows, history
  <2>5. ASSUME NEW p \in Proposals, ReapCheck(p) PROVE TypeOK'
    BY <2>5 DEF ReapCheck, rows, history
  <2> QED BY <1>10, <2>1, <2>2, <2>3, <2>4, <2>5 DEF Reap
<1>11. ASSUME NEW body \in Edits, Edit(body) PROVE TypeOK'
  BY <1>11 DEF Edit, Overtake, rows, gateway
<1>12. CASE UNCHANGED vars
  BY <1>12 DEF vars, rows, gateway, history
<1>13. CASE Crash
  BY <1>13, <1>8 DEF Crash, Approvers
<1>14. ASSUME NEW c \in Clis, CrashCli(c) PROVE TypeOK'
  BY <1>14, <1>8 DEF CrashCli, Approvers
<1> QED
  BY <1>1, <1>2, <1>3, <1>4, <1>5, <1>6, <1>7, <1>9, <1>10, <1>11, <1>12,
     <1>13, <1>14 DEF Next

\* Every variable of the pipeline keeps its type, whatever the constants.
THEOREM TypeCorrect == Spec => []TypeOK
  BY TypeInit, TypeStep, PTL DEF Spec

-----------------------------------------------------------------------------
(* Exclusive claims and the budget of executions.  OncePerPut alone is not  *)
(* inductive: that the next execution is still paid for depends on the row. *)

Held(a, p) == Claimant(a) /\ req[a].work = p /\ a \notin displaced

\* The row of p authorises one more execution.
Authorises(p) ==
    /\ p \in stored
    /\ \A a \in Approvers : ~(Spent(a) /\ req[a].work = p)

\* Every execution so far and the one the row may still authorise are paid
\* for by a put or are a lapse.
Budget ==
    \A p \in Proposals :
        IF Authorises(p) THEN landed[p] + 1 <= puts[p] + lapses[p]
                         ELSE landed[p] <= puts[p] + lapses[p]

IInv == TypeOK /\ ClaimHeld /\ Budget

LEMMA HoldersHold ==
    \A p \in Proposals, a \in Approvers : a \in Holders(p) <=> Held(a, p)
  BY DEF Holders, On, Held

Exclusive ==
    \A p \in Proposals : \A a \in Approvers :
        Held(a, p) => /\ p \in claimed
                      /\ \A b \in Approvers : Held(b, p) => b = a

LEMMA ClaimHeldPointwise == ClaimHeld <=> Exclusive
<1>1. \A p \in Proposals : Holders(p) \subseteq Approvers
  BY DEF Holders, On
<1> QED BY <1>1, HoldersHold DEF ClaimHeld, Exclusive

\* A step that ends the claims on X and takes none, executes nothing and
\* stores nothing.
LEMMA SteadyStep ==
    ASSUME IInv, TypeOK', NEW X,
           UNCHANGED <<puts, landed>>,
           claimed \ X \subseteq claimed',
           \A p \in Proposals : \A a \in Approvers :
               Held(a, p)' => Held(a, p) /\ p \notin X,
           \A p \in Proposals :
               /\ lapses'[p] >= lapses[p]
               /\ Authorises(p)' => \/ Authorises(p)
                                    \/ lapses'[p] >= lapses[p] + 1
    PROVE  IInv'
<1>1. ClaimHeld'
  <2>1. ClaimHeld' <=> Exclusive'
    BY ClaimHeldPointwise, PTL
  <2>2. Exclusive
    BY ClaimHeldPointwise DEF IInv
  <2>3. Exclusive'
    BY <2>2 DEF Exclusive
  <2> QED BY <2>1, <2>3
<1>2. Budget'
  BY DEF IInv, Budget, TypeOK
<1> QED BY <1>1, <1>2 DEF IInv

\* The common case: no variable the invariant reads changes but req, and
\* nobody becomes a claimant or leaves "pop".
LEMMA QuietStep ==
    ASSUME IInv, TypeOK',
           UNCHANGED <<rows, puts, landed, displaced, lapses>>,
           \A a \in Approvers :
               /\ Claimant(a)' => Claimant(a) /\ req'[a].work = req[a].work
               /\ Spent(a) => Spent(a)' /\ req'[a].work = req[a].work
    PROVE  IInv'
<1> DEFINE None == {}
<1>1. \A p \in Proposals : \A a \in Approvers :
         Held(a, p)' => Held(a, p) /\ p \notin None
  BY DEF Held
<1>2. \A p \in Proposals : Authorises(p)' => Authorises(p)
  BY DEF Authorises, rows
<1>3. \A p \in Proposals : lapses'[p] >= lapses[p]
  BY DEF IInv, TypeOK
<1>4. claimed \ None \subseteq claimed' /\ UNCHANGED <<puts, landed>>
  BY DEF rows
<1> HIDE DEF None
<1> QED BY <1>1, <1>2, <1>3, <1>4, SteadyStep

\* An approver that answers is nobody's claimant any more.
LEMMA Answers ==
    ASSUME Working(req), NEW a \in Approvers,
           \/ Finish(a)
           \/ a = Portal /\ \E p \in Proposals : Clean(p)
    PROVE  /\ \A b \in Approvers \ {a} : req'[b] = req[b]
           /\ ~Claimant(a)' /\ ~Spent(a)'
           /\ \A b \in Approvers \ {a} : Claimant(b)' <=> Claimant(b)
<1>1. \A b \in Approvers \ {a} : req'[b] = req[b]
  BY DEF Finish, Clean, Working
<1>2. req'[a].at \in {"idle", "dropCard"}
  BY DEF Finish, Clean, Working, Idle, Requests
<1> QED BY <1>1, <1>2 DEF Claimant, Spent

\* A row is deleted by an approver that answers, its claimant or nobody's.
LEMMA DeleteStep ==
    ASSUME IInv, TypeOK', NEW p \in Proposals, NEW a \in Approvers,
           Claimant(a) => req[a].work = p,
           DeleteRow(p, a),
           Finish(a) \/ (a = Portal /\ \E q \in Proposals : Clean(q)),
           UNCHANGED <<puts, landed, lapses>>
    PROVE  IInv'
<1>0. Working(req)
  BY DEF IInv, TypeOK, Working
<1>1. /\ \A b \in Approvers \ {a} : req'[b] = req[b]
      /\ ~Claimant(a)' /\ ~Spent(a)'
      /\ \A b \in Approvers \ {a} : Claimant(b)' <=> Claimant(b)
  BY <1>0, Answers
<1>2. \A b \in Approvers \ {a} :
         b \in displaced' <=> b \in displaced \/ b \in On(p)
  BY DEF DeleteRow
<1>3. \A q \in Proposals : \A b \in Approvers :
         Held(b, q)' => Held(b, q) /\ q \notin {p}
  BY <1>1, <1>2 DEF Held, On
<1>4. \A q \in Proposals : Authorises(q)' => Authorises(q)
  <2> SUFFICES ASSUME NEW q \in Proposals, Authorises(q)',
                      NEW b \in Approvers, Spent(b), req[b].work = q
               PROVE  FALSE
    BY DEF Authorises, DeleteRow
  <2>1. q # p
    BY DEF Authorises, DeleteRow
  <2>2. b # a
    BY <2>1 DEF Spent, Claimant
  <2>3. Spent(b)' /\ req'[b].work = q
    BY <1>1, <1>2, <2>1, <2>2 DEF Spent, On
  <2> QED BY <2>3 DEF Authorises
<1>5. claimed \ {p} \subseteq claimed'
  BY DEF DeleteRow
<1>6. \A q \in Proposals : lapses'[q] >= lapses[q]
  BY DEF IInv, TypeOK
<1> QED BY <1>3, <1>4, <1>5, <1>6, SteadyStep


LEMMA InitInv == Init => IInv
<1> SUFFICES ASSUME Init PROVE IInv
  OBVIOUS
<1>1. TypeOK
  BY TypeInit
<1>2. \A a \in Approvers : ~Claimant(a)
  BY DEF Init, Idle, Claimant
<1>3. ClaimHeld
  BY <1>2 DEF ClaimHeld, Holders, On
<1>4. Budget
  BY DEF Budget, Authorises, Init
<1> QED BY <1>1, <1>3, <1>4 DEF IInv

LEMMA PutStep ==
    ASSUME IInv, TypeOK', NEW t \in Threads, NEW p \in Proposals,
           NEW hash, NEW writer, Put(t, p, hash, writer)
    PROVE  IInv'
<1>1. \A q \in Proposals : \A a \in Approvers :
         Held(a, q)' => Held(a, q) /\ q # p
  BY DEF Put, Held, On, Claimant
<1>2. Exclusive'
  BY <1>1, ClaimHeldPointwise DEF IInv, Exclusive, Put
<1>3. ClaimHeld'
  <2>1. ClaimHeld' <=> Exclusive'
    BY ClaimHeldPointwise, PTL
  <2> QED BY <1>2, <2>1
<1>4. \A q \in Proposals \ {p} : Authorises(q)' => Authorises(q)
  BY DEF Authorises, Put, Spent, On
<1>5. Budget'
  BY <1>4, CountTyped DEF IInv, Budget, TypeOK, Put
<1> QED BY <1>3, <1>5 DEF IInv

LEMMA ClaimStep ==
    ASSUME IInv, TypeOK', NEW a \in Approvers, NEW p \in Proposals,
           Claim(a, p)
    PROVE  IInv'
<1>1. req[a].at = "idle"
  BY DEF Claim, MayConfirm, LoopFree
<1>2. /\ req'[a].at = "cas" /\ req'[a].work = p
      /\ \A b \in Approvers \ {a} : req'[b] = req[b]
  BY DEF Claim, IInv, TypeOK
<1>3. \A b \in Approvers, q \in Proposals :
         Held(b, q)' => Held(b, q) \/ (b = a /\ q = p)
  BY <1>2 DEF Held, Claimant, Claim, history
<1>4. \A b \in Approvers : ~Held(b, p)
  BY ClaimHeldPointwise DEF IInv, Exclusive, Claim
<1>5. Exclusive
  BY ClaimHeldPointwise DEF IInv
<1>6. Exclusive'
  BY <1>3, <1>4, <1>5 DEF Exclusive, Claim
<1>7. ClaimHeld'
  <2>1. ClaimHeld' <=> Exclusive'
    BY ClaimHeldPointwise, PTL
  <2> QED BY <1>6, <2>1
<1>8. \A q \in Proposals : Authorises(q)' => Authorises(q)
  BY <1>1, <1>2 DEF Authorises, Spent, Claim, history
<1>9. Budget'
  BY <1>8 DEF IInv, Budget, TypeOK, Claim, history
<1> QED BY <1>7, <1>9 DEF IInv

\* An execution uses up what the row authorised, or is a lapse.
LEMMA ExecuteStep ==
    ASSUME IInv, TypeOK', NEW a \in Approvers, Execute(a)
    PROVE  IInv'
<1> DEFINE p == req[a].work
<1>1. /\ req[a].at = "dispatch" /\ p \in Proposals
      /\ req'[a].at = "pop" /\ req'[a].work = p
      /\ \A b \in Approvers \ {a} : req'[b] = req[b]
  BY DEF Execute, Goto, IInv, TypeOK, Requests
<1>2. /\ \A b \in Approvers, q \in Proposals : Held(b, q)' => Held(b, q)
      /\ \A b \in Approvers : Spent(b) => Spent(b)' /\ req'[b].work = req[b].work
  BY <1>1 DEF Held, Claimant, Spent, Execute
<1>3. Exclusive
  BY ClaimHeldPointwise DEF IInv
<1>4. Exclusive'
  BY <1>2, <1>3 DEF Exclusive, Execute, rows
<1>5. ClaimHeld'
  <2>1. ClaimHeld' <=> Exclusive'
    BY ClaimHeldPointwise, PTL
  <2> QED BY <1>4, <2>1
<1>6. \A q \in Proposals : Authorises(q)' => Authorises(q)
  BY <1>2 DEF Authorises, Execute, rows
<1>7. CASE a \in displaced
  <2>1. Budget'
    BY <1>1, <1>6, <1>7, CountTyped DEF IInv, Budget, TypeOK, Execute
  <2> QED BY <1>5, <2>1 DEF IInv
<1>8. CASE a \notin displaced
  <2>1. Held(a, p)
    BY <1>1, <1>8 DEF Held, Claimant
  <2>2. p \in stored /\ \A b \in Approvers : Held(b, p) => b = a
    BY <1>1, <1>3, <2>1 DEF Exclusive, IInv, TypeOK
  <2>3. Authorises(p)
    BY <1>1, <2>2 DEF Authorises, Spent, Held, Claimant
  <2>4. ~Authorises(p)'
    BY <1>1, <1>8 DEF Authorises, Spent, Execute
  <2>5. Budget'
    BY <1>1, <1>6, <1>8, <2>3, <2>4, CountTyped
       DEF IInv, Budget, TypeOK, Execute
  <2> QED BY <1>5, <2>5 DEF IInv
<1> QED BY <1>7, <1>8

\* Everyone on the effects of X loses the claim; whoever had executed it is
\* a lapse.
LEMMA ReopenStep ==
    ASSUME IInv, TypeOK', NEW X, NEW A \in SUBSET Approvers,
           UNCHANGED <<stored, puts, landed>>,
           claimed \ X \subseteq claimed',
           lapses' = Count(lapses, Reopened(A)),
           \A a \in Approvers, p \in Proposals :
               /\ Held(a, p)' => Held(a, p) /\ p \notin X
               /\ Spent(a) => a \in A \/ (Spent(a)' /\ req'[a].work = req[a].work)
    PROVE  IInv'
<1>1. \A p \in Proposals :
         Authorises(p)' => Authorises(p) \/ p \in Reopened(A)
  BY DEF Authorises, Reopened
<1>2. \A p \in Proposals :
         /\ lapses'[p] >= lapses[p]
         /\ p \in Reopened(A) => lapses'[p] >= lapses[p] + 1
  BY CountTyped DEF IInv, TypeOK
<1> QED BY <1>1, <1>2, SteadyStep

-----------------------------------------------------------------------------
LEMMA InvStep == IInv /\ [Next]_vars => IInv'
<1> SUFFICES ASSUME IInv, [Next]_vars PROVE IInv'
  OBVIOUS
<1>0. TypeOK' /\ Working(req)
  BY TypeStep DEF IInv, TypeOK, Working
<1>Q. ASSUME UNCHANGED <<rows, puts, landed, displaced, lapses, req>>
      PROVE  IInv'
  <2>1. \A a \in Approvers :
           /\ Claimant(a)' => Claimant(a) /\ req'[a].work = req[a].work
           /\ Spent(a) => Spent(a)' /\ req'[a].work = req[a].work
    BY <1>Q DEF Claimant, Spent
  <2> QED BY <1>0, <1>Q, <2>1, QuietStep
\* An approver that was not a claimant becomes idle or goes on to the card.
<1>A. ASSUME NEW a \in Approvers, ~Claimant(a),
             UNCHANGED <<rows, puts, landed, displaced, lapses>>,
             Finish(a) \/ (a = Portal /\ \E p \in Proposals : Clean(p))
      PROVE  IInv'
  <2>1. /\ \A b \in Approvers \ {a} : req'[b] = req[b]
        /\ ~Claimant(a)' /\ ~Spent(a)'
        /\ \A b \in Approvers \ {a} : Claimant(b)' <=> Claimant(b)
    BY <1>0, <1>A, Answers
  <2>2. \A b \in Approvers :
           /\ Claimant(b)' => Claimant(b) /\ req'[b].work = req[b].work
           /\ Spent(b) => Spent(b)' /\ req'[b].work = req[b].work
    BY <1>A, <2>1 DEF Claimant, Spent
  <2> QED BY <1>0, <1>A, <2>2, QuietStep
<1>P. Portal \in Approvers /\ (LoopFree => ~Claimant(Portal))
  BY DEF Approvers, LoopFree, Claimant
<1>1. ASSUME NEW t \in Threads, NEW p \in Proposals, Propose(t, p)
      PROVE  IInv'
  BY <1>0, <1>1, PutStep DEF Propose, StorePending, StoreContinuation
<1>2. ASSUME NEW t \in Threads, AppendCard(t) PROVE IInv'
  BY <1>2, <1>Q DEF AppendCard, history
<1>3. ASSUME NEW p \in Proposals, Operate(p) PROVE IInv'
  <2>1. CASE Approve(p)
    BY <2>1, <1>A, <1>P, <1>Q DEF Approve, history
  <2>2. CASE Dismiss(p)
    BY <2>2, <1>0, <1>P, DeleteStep DEF Dismiss
  <2>3. CASE ClaimAbsent(p)
    BY <2>3, <1>A, <1>P DEF ClaimAbsent, MayConfirm, history
  <2>4. ASSUME NEW c \in Clis, CliReject(c, p) PROVE IInv'
    BY <2>4, <1>Q DEF CliReject, history
  <2> QED BY <1>3, <2>1, <2>2, <2>3, <2>4 DEF Operate
<1>4. ASSUME NEW p \in Proposals, Expire(p) PROVE IInv'
  BY <1>4, <1>Q DEF Expire, history
<1>5. ASSUME NEW a \in Approvers, NEW p \in Proposals, Claim(a, p)
      PROVE  IInv'
  BY <1>0, <1>5, ClaimStep
<1>6. ASSUME NEW a \in Approvers, Advance(a) PROVE IInv'
  <2>1. ASSUME NEW place \in {"withdraw", "abort", "dispatch", "release"},
               req[a].at \in {"cas", "dispatch"}, Goto(a, place),
               UNCHANGED <<rows, puts, landed, displaced, lapses>>
        PROVE  IInv'
    <3>1. /\ \A b \in Approvers \ {a} : req'[b] = req[b]
          /\ req'[a].at = place /\ req'[a].work = req[a].work
      BY <2>1, <1>0 DEF Goto, Working, Requests
    <3>2. \A b \in Approvers :
             /\ Claimant(b)' => Claimant(b) /\ req'[b].work = req[b].work
             /\ Spent(b) => Spent(b)' /\ req'[b].work = req[b].work
      BY <2>1, <3>1 DEF Claimant, Spent
    <3> QED BY <1>0, <2>1, <3>2, QuietStep
  <2>2. ASSUME Claimant(a), Settle(a) PROVE IInv'
    <3>1. req[a].work \in Proposals
      BY <2>2, <1>0 DEF Claimant, Working
    <3> QED BY <1>0, <2>2, <3>1, DeleteStep DEF Settle
  <2>3. CASE Abort(a)
    <3>1. req[a].work \in Proposals
      BY <2>3, <1>0 DEF Abort, Working
    <3> QED BY <1>0, <2>3, <3>1, DeleteStep DEF Abort
  <2>4. CASE Release(a)
    <3> DEFINE p == req[a].work
    <3>1. p \in Proposals /\ a \in On(p)
      BY <2>4, <1>0 DEF Release, Working, On, Claimant
    <3>2. /\ \A b \in Approvers \ {a} : req'[b] = req[b]
          /\ ~Claimant(a)' /\ ~Spent(a)'
          /\ \A b \in Approvers \ {a} : Claimant(b)' <=> Claimant(b)
      BY <1>0, <2>4, Answers DEF Release
    <3>3. \A b \in Approvers, q \in Proposals :
             /\ Held(b, q)' => Held(b, q) /\ q \notin {p}
             /\ Spent(b) => \/ b \in On(p)
                            \/ Spent(b)' /\ req'[b].work = req[b].work
      BY <2>4, <3>2 DEF Held, Spent, On, Release, Claimant
    <3>4. On(p) \in SUBSET Approvers
      BY DEF On
    <3> QED BY <1>0, <2>4, <3>3, <3>4, ReopenStep DEF Release
  <2>5. CASE Execute(a)
    BY <1>0, <2>5, ExecuteStep
  <2>6. Check(a) \/ ExecuteFails(a) => IInv'
    BY <2>1 DEF Check, ExecuteFails, history
  <2>7. Withdraw(a) \/ Pop(a) => IInv'
    BY <2>2 DEF Withdraw, Pop, Claimant
  <2> QED BY <1>6, <2>3, <2>4, <2>5, <2>6, <2>7 DEF Advance
<1>7. CASE DropCard
  BY <1>7, <1>A, <1>P DEF DropCard, Claimant, history
<1>8. ASSUME NEW a \in Approvers, Die(a) PROVE IInv'
  <2>1. /\ \A b \in Approvers \ {a} : req'[b] = req[b]
        /\ ~Claimant(a)' /\ ~Spent(a)'
        /\ \A b \in Approvers \ {a} : Claimant(b)' <=> Claimant(b)
    BY <1>0, <1>8, Answers DEF Die
  <2> DEFINE None == {}
  <2>2. \A b \in Approvers, q \in Proposals :
           /\ Held(b, q)' => Held(b, q) /\ q \notin None
           /\ Spent(b) => \/ b \in {a}
                          \/ Spent(b)' /\ req'[b].work = req[b].work
    BY <1>8, <2>1 DEF Held, Spent, Die, Claimant
  <2>3. claimed \ None \subseteq claimed' /\ UNCHANGED <<stored, puts, landed>>
    BY <1>8 DEF Die, rows
  <2> HIDE DEF None
  <2> QED BY <1>0, <1>8, <2>2, <2>3, ReopenStep DEF Die
<1>9. CASE Start
  BY <1>9, <1>Q DEF Start, history
<1>10. CASE Reap
  <2>1. CASE ReleaseStale
    <3>1. \A b \in Approvers, q \in Proposals :
             /\ Held(b, q)' => Held(b, q) /\ q \notin Proposals
             /\ Spent(b) => \/ b \in Approvers
                            \/ Spent(b)' /\ req'[b].work = req[b].work
      BY <2>1 DEF ReleaseStale, Held, Claimant
    <3>2. claimed \ Proposals \subseteq claimed'
      BY DEF IInv, TypeOK
    <3> QED BY <1>0, <2>1, <3>1, <3>2, ReopenStep DEF ReleaseStale
  <2>2. CASE ReadCards
    BY <2>2, <1>Q DEF ReadCards, history
  <2>3. CASE ReapFinalize \/ ReapFails
    BY <2>3, <1>Q DEF ReapFinalize, ReapFails, history
  <2>4. CASE ReapDone
    BY <2>4, <1>Q DEF ReapDone, history
  <2>5. ASSUME NEW p \in Proposals, ReapCheck(p) PROVE IInv'
    BY <2>5, <1>Q DEF ReapCheck, history
  <2> QED BY <1>10, <2>1, <2>2, <2>3, <2>4, <2>5 DEF Reap
<1>11. ASSUME NEW body \in Edits, Edit(body) PROVE IInv'
  BY <1>11, <1>Q DEF Edit
<1>12. CASE UNCHANGED vars
  BY <1>12, <1>Q DEF vars, history
<1>13. CASE Crash
  BY <1>13, <1>8, <1>P DEF Crash
<1>14. ASSUME NEW c \in Clis, CrashCli(c) PROVE IInv'
  BY <1>14, <1>8 DEF CrashCli, Approvers
<1> QED
  BY <1>1, <1>2, <1>3, <1>4, <1>5, <1>6, <1>7, <1>9, <1>10, <1>11, <1>12,
     <1>13, <1>14 DEF Next

\* The inductive invariant holds in every reachable state.
THEOREM Inductive == Spec => []IInv
  BY InitInv, InvStep, PTL DEF Spec

\* approve_red_proposal: an approver whose claim nobody removed is the only
\* one on its row, and the row is there and marked IN_FLIGHT, for any number
\* of command lines next to the portal.
THEOREM ExclusiveClaims == Spec => []ClaimHeld
<1>1. IInv => ClaimHeld
  BY DEF IInv
<1> QED BY <1>1, Inductive, PTL

\* RedPendingStore.claim and pop: an effect lands at most once for each time
\* it was stored, but for the executions of approvers that had lost their row
\* and for the rows that outlive their execution.
THEOREM OneExecutionPerPut == Spec => []OncePerPut
<1>1. IInv => OncePerPut
  <2> SUFFICES ASSUME IInv, NEW p \in Proposals
               PROVE  landed[p] <= puts[p] + lapses[p]
    BY DEF OncePerPut
  <2> QED BY DEF IInv, Budget, TypeOK
<1> QED BY <1>1, Inductive, PTL

-----------------------------------------------------------------------------
(* The gateway alone: without command lines the portal, which runs one      *)
(* handler at a time, is the only one that deletes rows or executes.  A put *)
(* may still take the claim from under its handler; the handler's pop then  *)
(* deletes the fresh row.                                                   *)

Landing(p) == req[Portal].at = "pop" /\ req[Portal].work = p

RowPresent == Claimant(Portal) => req[Portal].work \in stored

CrashBudget ==
    \A p \in Proposals :
        IF p \in stored /\ ~Landing(p)
        THEN landed[p] + 1 <= puts[p] + crashes
        ELSE landed[p] <= puts[p] + crashes

GInv == TypeOK /\ RowPresent /\ CrashBudget

LEMMA GatewayInit == Init => GInv
<1> SUFFICES ASSUME Init PROVE GInv
  OBVIOUS
<1>1. Portal \in Approvers
  BY DEF Approvers
<1>2. RowPresent
  BY <1>1 DEF Init, RowPresent, Claimant, Idle
<1>3. CrashBudget
  BY DEF Init, CrashBudget
<1> QED BY <1>2, <1>3, TypeInit DEF GInv

\* The portal keeps what it has, or it answers; no row appears, and nothing
\* lands.
LEMMA GatewayStep ==
    ASSUME GInv, TypeOK', UNCHANGED <<puts, landed>>, stored' \subseteq stored,
           crashes' >= crashes,
           Claimant(Portal)' => Claimant(Portal) /\ stored' = stored
                                /\ req'[Portal].work = req[Portal].work,
           \A p \in stored' : Landing(p) => Landing(p)' \/ crashes' >= crashes + 1
    PROVE  GInv'
<1>1. RowPresent'
  BY DEF GInv, RowPresent
<1>2. CrashBudget'
  BY DEF GInv, CrashBudget, TypeOK
<1> QED BY <1>1, <1>2 DEF GInv

LEMMA GatewayNext ==
    ASSUME Clis = {}, GInv, [Next]_vars
    PROVE  GInv'
<1>0. TypeOK' /\ Working(req) /\ Portal \in Approvers /\ crashes \in Nat
  BY TypeStep DEF GInv, TypeOK, Working, Approvers
<1>P. \A a \in Approvers : a = Portal
  BY DEF Approvers
<1>Q. ASSUME UNCHANGED <<rows, puts, landed, crashes, req>> PROVE GInv'
  BY <1>0, <1>Q, GatewayStep DEF rows, Claimant, Landing
\* The portal answers: it does not go on, nor land anything.
<1>A. ASSUME Finish(Portal) \/ \E p \in Proposals : Clean(p)
      PROVE  ~Claimant(Portal)'
  BY <1>0, <1>A, Answers
<1>1. ASSUME NEW t \in Threads, NEW p \in Proposals, Propose(t, p)
      PROVE  GInv'
  <2>1. /\ stored' = stored \cup {p} /\ puts' = Count(puts, {p})
        /\ UNCHANGED <<req, landed, crashes>>
    BY <1>1 DEF Propose, StorePending, StoreContinuation, Put
  <2>2. RowPresent'
    BY <2>1 DEF GInv, RowPresent, Claimant
  <2>3. CrashBudget'
    BY <2>1, CountTyped DEF GInv, CrashBudget, Landing, TypeOK
  <2> QED BY <1>0, <2>2, <2>3 DEF GInv
<1>2. ASSUME NEW t \in Threads, AppendCard(t) PROVE GInv'
  BY <1>2, <1>Q DEF AppendCard, history
<1>3. ASSUME NEW p \in Proposals, Operate(p) PROVE GInv'
  <2>0. req[Portal].at = "idle" => ~Claimant(Portal) /\ \A q : ~Landing(q)
    BY DEF Claimant, Landing
  <2>1. CASE Approve(p)
    BY <2>0, <2>1, <1>0, <1>A, <1>Q, GatewayStep
       DEF Approve, LoopFree, rows, history
  <2>2. CASE Dismiss(p)
    BY <2>0, <2>2, <1>0, <1>A, GatewayStep DEF Dismiss, LoopFree, DeleteRow
  <2>3. CASE ClaimAbsent(p)
    BY <2>0, <2>3, <1>0, <1>A, GatewayStep
       DEF ClaimAbsent, MayConfirm, LoopFree, rows, history
  <2> QED BY <1>3, <2>1, <2>2, <2>3 DEF Operate
<1>4. ASSUME NEW p \in Proposals, Expire(p) PROVE GInv'
  BY <1>4, <1>Q DEF Expire, history
<1>5. ASSUME NEW p \in Proposals, Claim(Portal, p) PROVE GInv'
  <2>1. /\ req[Portal].at = "idle" /\ p \in stored
        /\ req'[Portal].at = "cas" /\ req'[Portal].work = p
        /\ UNCHANGED <<stored, puts, landed, crashes>>
    BY <1>0, <1>5 DEF Claim, MayConfirm, LoopFree, Working, history
  <2>2. RowPresent'
    BY <2>1 DEF RowPresent
  <2>3. CrashBudget'
    BY <2>1 DEF GInv, CrashBudget, Landing, TypeOK
  <2> QED BY <1>0, <2>2, <2>3 DEF GInv
<1>6. ASSUME Advance(Portal) PROVE GInv'
  <2>0. /\ Claimant(Portal)
        /\ req[Portal].work \in Proposals /\ req[Portal].work \in stored
    <3>1. Claimant(Portal)
      BY <1>6 DEF Advance, Check, Withdraw, Abort, Execute, ExecuteFails, Pop,
                  Release, Claimant
    <3> QED BY <3>1, <1>0 DEF GInv, RowPresent, TypeOK
  <2>1. ASSUME NEW place \in {"withdraw", "abort", "dispatch", "release"},
               Goto(Portal, place), req[Portal].at # "pop",
               UNCHANGED <<rows, puts, landed, crashes>>
        PROVE  GInv'
    <3>1. req'[Portal].work = req[Portal].work
      BY <2>1, <1>0 DEF Goto, Working, Requests
    <3>2. \A q : ~Landing(q)
      BY <2>1 DEF Landing
    <3> QED BY <1>0, <2>0, <2>1, <3>1, <3>2, GatewayStep DEF rows
  <2>2. ASSUME DeleteRow(req[Portal].work, Portal),
               Finish(Portal) \/ \E p \in Proposals : Clean(p),
               UNCHANGED <<puts, landed, crashes>>
        PROVE  GInv'
    <3>1. ~Claimant(Portal)'
      BY <2>2, <1>A
    <3>2. stored' = stored \ {req[Portal].work}
      BY <2>2 DEF DeleteRow
    <3>3. \A q \in stored' : ~Landing(q)
      BY <3>2 DEF Landing
    <3> QED BY <1>0, <2>2, <3>1, <3>2, <3>3, GatewayStep
  <2>3. CASE Execute(Portal)
    <3>1. /\ req[Portal].at = "dispatch" /\ req'[Portal].at = "pop"
          /\ req'[Portal].work = req[Portal].work
          /\ landed' = Count(landed, {req[Portal].work})
          /\ UNCHANGED <<stored, puts, crashes>>
      BY <2>3, <1>0 DEF Execute, Goto, Working, Requests, rows
    <3>2. RowPresent'
      BY <2>0, <3>1 DEF RowPresent
    <3>3. CrashBudget'
      BY <2>0, <3>1, CountTyped DEF GInv, CrashBudget, Landing, TypeOK
    <3> QED BY <1>0, <3>2, <3>3 DEF GInv
  <2>4. CASE Release(Portal)
    <3>1. ~Claimant(Portal)' /\ \A q : ~Landing(q)
      BY <2>4, <1>A DEF Release, Landing
    <3> QED BY <1>0, <2>4, <3>1, GatewayStep DEF Release
  <2>5. Check(Portal) \/ ExecuteFails(Portal) => GInv'
    BY <2>1 DEF Check, ExecuteFails, history
  <2>6. Withdraw(Portal) \/ Pop(Portal) \/ Abort(Portal) => GInv'
    BY <2>0, <2>2 DEF Withdraw, Pop, Abort, Settle
  <2> QED BY <1>6, <2>3, <2>4, <2>5, <2>6 DEF Advance
<1>7. CASE DropCard
  <2>1. \A q : ~Landing(q)
    BY <1>7 DEF DropCard, Landing
  <2> QED BY <1>0, <1>7, <1>A, <2>1, GatewayStep DEF DropCard, rows, history
<1>8. CASE Crash
  <2>1. /\ ~Claimant(Portal)' /\ crashes' = crashes + 1
        /\ UNCHANGED <<stored, puts, landed>>
    BY <1>8, <1>A DEF Crash, Die, rows
  <2> QED BY <1>0, <2>1, GatewayStep
<1>9. CASE Start
  BY <1>9, <1>Q DEF Start, history
<1>10. CASE Reap
  BY <1>10, <1>Q, <1>0, GatewayStep
     DEF Reap, ReleaseStale, ReadCards, ReapFinalize, ReapFails, ReapDone,
         ReapCheck, rows, history, Claimant, Landing
<1>11. ASSUME NEW body \in Edits, Edit(body) PROVE GInv'
  BY <1>11, <1>Q DEF Edit, history
<1>12. CASE UNCHANGED vars
  BY <1>12, <1>Q DEF vars, history
<1> QED
  BY <1>P, <1>1, <1>2, <1>3, <1>4, <1>5, <1>6, <1>7, <1>8, <1>9, <1>10,
     <1>11, <1>12 DEF Next

\* The claim machine in the gateway alone: whatever the order of turns,
\* re-proposals, dismissals, confirmations and sweeps, an effect lands at most
\* once for each time it was stored and each crash.
THEOREM GatewayExecutesOnce ==
    ASSUME Clis = {}
    PROVE  Spec => []OncePerPutOrCrash
<1>1. Init => GInv
  BY GatewayInit
<1>2. GInv /\ [Next]_vars => GInv'
  BY GatewayNext
<1>3. GInv => OncePerPutOrCrash
  <2> SUFFICES ASSUME GInv, NEW p \in Proposals
               PROVE  landed[p] <= puts[p] + crashes
    BY DEF OncePerPutOrCrash
  <2> QED BY DEF GInv, CrashBudget, TypeOK
<1> QED BY <1>1, <1>2, <1>3, PTL DEF Spec

-----------------------------------------------------------------------------
(* The compare-and-swap of sealed writes.  Whoever is about to write found  *)
(* the anchor in the file, and has been overtaken if it is not there now.   *)

Current ==
    \A a \in Approvers :
        req[a].at = "dispatch" => req[a].anchor \in {NoAnchor, file} \/ a \in raced

LEMMA CurrentStep ==
    ASSUME TypeOK, Current, [Next]_vars
    PROVE  Current'
<1>0. Working(req) /\ Working(req)' /\ Portal \in Approvers
  BY TypeStep DEF TypeOK, Working, Approvers
<1>Q. UNCHANGED <<req, file, raced>> => Current'
  BY DEF Current
\* An approver that is not about to write afterwards.
<1>A. ASSUME NEW a \in Approvers, UNCHANGED file, raced \ {a} \subseteq raced',
             Finish(a) \/ (a = Portal /\ \E p \in Proposals : Clean(p))
      PROVE  Current'
  <2>1. /\ \A b \in Approvers \ {a} : req'[b] = req[b]
        /\ ~Claimant(a)'
    BY <1>0, <1>A, Answers
  <2> QED BY <1>A, <2>1 DEF Current, Claimant
<1>G. ASSUME NEW a \in Approvers, NEW place, Goto(a, place)
      PROVE  /\ req'[a].at = place /\ req'[a].anchor = req[a].anchor
             /\ \A b \in Approvers \ {a} : req'[b] = req[b]
  BY <1>0, <1>G DEF Goto, Working, Requests
<1>1. ASSUME NEW t \in Threads, NEW p \in Proposals, Propose(t, p)
      PROVE  Current'
  BY <1>1, <1>Q DEF Propose, StorePending, StoreContinuation, Put
<1>2. ASSUME NEW t \in Threads, AppendCard(t) PROVE Current'
  BY <1>2, <1>Q DEF AppendCard, history
<1>3. ASSUME NEW p \in Proposals, Operate(p) PROVE Current'
  BY <1>0, <1>3, <1>A, <1>Q
     DEF Operate, Approve, Dismiss, ClaimAbsent, CliReject, history
<1>4. ASSUME NEW p \in Proposals, Expire(p) PROVE Current'
  BY <1>4, <1>Q DEF Expire, history
<1>5. ASSUME NEW a \in Approvers, NEW p \in Proposals, Claim(a, p)
      PROVE  Current'
  <2>1. req'[a].at = "cas" /\ \A b \in Approvers \ {a} : req'[b] = req[b]
    BY <1>0, <1>5 DEF Claim, Working
  <2> QED BY <1>5, <2>1 DEF Current, Claim, history
<1>6. ASSUME NEW a \in Approvers, Advance(a) PROVE Current'
  <2>1. CASE Check(a)
    <3>1. UNCHANGED <<file, raced>>
      BY <2>1 DEF Check, history
    <3>2. CASE Drifted(a) /\ Goto(a, "withdraw")
      BY <3>1, <3>2, <1>G DEF Current
    <3>3. CASE ~Drifted(a)
      <4>1. req[a].anchor \in {NoAnchor, file}
        BY <3>3 DEF Drifted
      <4>2. /\ req'[a].anchor = req[a].anchor
            /\ \A b \in Approvers \ {a} : req'[b] = req[b]
        BY <2>1, <3>3, <1>G DEF Check
      <4> QED BY <3>1, <4>1, <4>2 DEF Current
    <3> QED BY <2>1, <3>2, <3>3 DEF Check
  <2>2. CASE Execute(a) \/ ExecuteFails(a)
    <3>1. /\ req'[a].at # "dispatch"
          /\ \A b \in Approvers \ {a} : req'[b] = req[b]
          /\ Overtake({a})
      BY <2>2, <1>G DEF Execute, ExecuteFails
    <3> QED BY <3>1 DEF Current, Overtake
  <2>3. CASE Withdraw(a) \/ Pop(a) \/ Abort(a) \/ Release(a)
    <3>1. req[a].work \in Proposals
      BY <2>3, <1>0 DEF Withdraw, Pop, Abort, Release, Working
    <3> QED
      BY <2>3, <3>1, <1>A DEF Withdraw, Pop, Abort, Release, Settle
  <2> QED BY <1>6, <2>1, <2>2, <2>3 DEF Advance
<1>7. CASE DropCard
  BY <1>0, <1>7, <1>A DEF DropCard, history
<1>8. ASSUME NEW a \in Approvers, Die(a) PROVE Current'
  BY <1>8, <1>A DEF Die
<1>9. CASE Start
  BY <1>9, <1>Q DEF Start, history
<1>10. CASE Reap
  BY <1>10, <1>Q
     DEF Reap, ReleaseStale, ReadCards, ReapFinalize, ReapFails, ReapDone,
         ReapCheck, history
<1>11. ASSUME NEW body \in Edits, Edit(body) PROVE Current'
  BY <1>11 DEF Edit, Overtake, Current
<1>12. CASE UNCHANGED vars
  BY <1>12, <1>Q DEF vars, history
<1>13. CASE Crash
  BY <1>0, <1>13, <1>8 DEF Crash
<1>14. ASSUME NEW c \in Clis, CrashCli(c) PROVE Current'
  BY <1>14, <1>8 DEF CrashCli, Approvers
<1> QED
  BY <1>1, <1>2, <1>3, <1>4, <1>5, <1>6, <1>7, <1>9, <1>10, <1>11, <1>12,
     <1>13, <1>14 DEF Next

\* approve_red_proposal, "Drift: the claim is WITHDRAWN": whatever command
\* lines, edits, failing writers, turns, re-proposals and crashes do to the
\* file and the row, a sealed write lands on the body that its row was stored
\* against, unless a write of somebody else fell between its check and it.
THEOREM SealedWritesAreCurrent == Spec => NoLostUpdate
<1> DEFINE Lands ==
      \A a \in Approvers :
          req[a].at = "dispatch" /\ req'[a].at = "pop"
              => req[a].anchor \in {NoAnchor, file} \/ a \in raced
<1>1. Init => TypeOK /\ Current
  BY TypeInit DEF Init, Current, Idle, Approvers
<1>2. TypeOK /\ Current /\ [Next]_vars => (TypeOK /\ Current)'
  BY TypeStep, CurrentStep
<1>3. Current => Lands
  BY DEF Current
<1>4. TypeOK /\ Current /\ [Next]_vars => [Lands]_vars
  BY <1>3
<1> QED BY <1>1, <1>2, <1>4, PTL DEF Spec, NoLostUpdate

=============================================================================
