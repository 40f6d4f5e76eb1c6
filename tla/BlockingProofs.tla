--------------------------- MODULE BlockingProofs ---------------------------
(* What BlockingApproval promises of the queue of a session and of what is *)
(* allowed for good, for any commands, patterns, turns and boundaries.     *)
EXTENDS BlockingApproval, TLAPS, SequenceTheorems

USE ApprovalAssumption DEF ApprovalAssumption

\* What one command's thread and entry may be.  A command runs only with an
\* approval, one that is not queued yet has no answer, and what it is about to
\* write was allowed for good.
AskOK(rec) ==
    /\ rec \in Ask
    /\ rec.at \in {"remember", "list", "save", "ran"} => rec.answer \in Approvals
    /\ rec.at = "append" => rec.answer = "none"
    /\ rec.list \subseteq Keys \ Tirith
\* Who is queued waits for an answer; who waits for one and is not queued has it.
Waits(a, rec, inQueue) ==
    /\ rec.at \in {"notify", "wait"} /\ rec.answer = "none" => inQueue
    /\ inQueue => rec.at \in {"notify", "wait"} /\ rec.answer = "none"

LineOK(line) == line \in Seq(Asks) /\ IsInjective(line)
InLine(line) == {line[i] : i \in DOMAIN line}

Waiting ==
    /\ LineOK(queue) /\ ask \in [Asks -> Ask]
    /\ \A a \in Asks : AskOK(ask[a]) /\ Waits(a, ask[a], a \in Queued)
Turned ==
    /\ turn \in [Turns -> {"new", "on", "cut", "over"}] /\ cb \in Turns \union {0}
    /\ clears \in 0..MaxClears
Allowed ==
    /\ session \subseteq Keys /\ permanent \union config \subseteq Keys \ Tirith
    /\ dropped \in BOOLEAN /\ unsaved \subseteq Keys
Saved(k, rec) == rec.at = "list" \/ (rec.at = "save" /\ k \in rec.list)

BlockInv == Waiting /\ Turned /\ Allowed /\ AlwaysIsSaved

-----------------------------------------------------------------------------
(* The queue.                                                              *)

LEMMA LineEmpty == LineOK(<<>>) /\ InLine(<<>>) = {}
  BY DEF LineOK, InLine, IsInjective

LEMMA LineGrows ==
    ASSUME NEW line, LineOK(line), NEW a \in Asks, a \notin InLine(line)
    PROVE  LineOK(Append(line, a)) /\ InLine(Append(line, a)) = InLine(line) \union {a}
<1> DEFINE longer == Append(line, a)
<1>1. line \in Seq(Asks) /\ Len(line) \in Nat /\ DOMAIN line = 1..Len(line)
  BY LenProperties DEF LineOK
<1>2. /\ longer \in Seq(Asks) /\ DOMAIN longer = 1..(Len(line) + 1)
      /\ \A i \in 1..Len(line) : longer[i] = line[i]
      /\ longer[Len(line) + 1] = a
  BY <1>1
<1>3. IsInjective(longer)
  BY <1>1, <1>2 DEF LineOK, IsInjective, InLine
<1> HIDE DEF longer
<1>4. InLine(longer) = InLine(line) \union {a}
  <2>1. ASSUME NEW b \in InLine(longer) PROVE b \in InLine(line) \union {a}
    <3>1. PICK i \in 1..(Len(line) + 1) : b = longer[i]
      BY <1>2, <2>1 DEF InLine
    <3>2. CASE i \in 1..Len(line)
      BY <1>1, <1>2, <3>1, <3>2 DEF InLine
    <3>3. CASE i = Len(line) + 1
      BY <1>2, <3>1, <3>3
    <3> QED BY <1>1, <3>2, <3>3
  <2>2. ASSUME NEW i \in DOMAIN line PROVE line[i] \in InLine(longer)
    <3>1. i \in DOMAIN longer /\ longer[i] = line[i]
      BY <1>1, <1>2
    <3> QED BY <3>1 DEF InLine
  <2>3. a \in InLine(longer)
    <3>1. Len(line) + 1 \in DOMAIN longer
      BY <1>1, <1>2
    <3> QED BY <1>2, <3>1 DEF InLine
  <2> QED BY <2>1, <2>2, <2>3 DEF InLine
<1> QED BY <1>2, <1>3, <1>4 DEF LineOK, longer

LEMMA LineShrinks ==
    ASSUME NEW line, LineOK(line), NEW i \in DOMAIN line
    PROVE  /\ LineOK(RemoveAt(line, i))
           /\ InLine(RemoveAt(line, i)) = InLine(line) \ {line[i]}
<1> DEFINE n      == Len(line)
           before == SubSeq(line, 1, i - 1)
           after  == SubSeq(line, i + 1, n)
           rest   == RemoveAt(line, i)
<1>1. line \in Seq(Asks) /\ n \in Nat /\ DOMAIN line = 1..n /\ i \in 1..n
  BY LenProperties DEF LineOK
<1>2. \A j \in 1..n : line[j] \in Asks
  BY <1>1, ElementOfSeq
<1>3. /\ before \in Seq(Asks) /\ Len(before) = i - 1
      /\ \A j \in 1..(i - 1) : before[j] = line[j]
  <2>1. \A j \in 1..(i - 1) : line[j] \in Asks
    BY <1>1, <1>2
  <2>2. /\ before \in Seq(Asks)
        /\ Len(before) = IF 1 <= i - 1 THEN (i - 1) - 1 + 1 ELSE 0
        /\ \A j \in 1..((i - 1) - 1 + 1) : before[j] = line[1 + j - 1]
    BY <1>1, <2>1, SubSeqProperties
  <2> QED BY <1>1, <2>2
<1>4. /\ after \in Seq(Asks) /\ Len(after) = n - i
      /\ \A j \in 1..(n - i) : after[j] = line[i + j]
  <2>1. \A j \in (i + 1)..n : line[j] \in Asks
    BY <1>1, <1>2
  <2>2. /\ after \in Seq(Asks)
        /\ Len(after) = IF i + 1 <= n THEN n - (i + 1) + 1 ELSE 0
        /\ \A j \in 1..(n - (i + 1) + 1) : after[j] = line[(i + 1) + j - 1]
    BY <1>1, <2>1, SubSeqProperties
  <2> QED BY <1>1, <2>2
<1>5. rest = before \o after
  BY DEF RemoveAt
<1> HIDE DEF before, after, rest, n
<1>6. /\ rest \in Seq(Asks) /\ DOMAIN rest = 1..(n - 1)
      /\ \A j \in 1..(n - 1) : rest[j] = IF j < i THEN line[j] ELSE line[j + 1]
  <2>1. /\ rest \in Seq(Asks) /\ Len(rest) = Len(before) + Len(after)
        /\ \A j \in 1..Len(before) + Len(after) :
               rest[j] = IF j <= Len(before) THEN before[j] ELSE after[j - Len(before)]
    BY <1>3, <1>4, <1>5, ConcatProperties
  <2>2. Len(rest) = n - 1 /\ DOMAIN rest = 1..(n - 1)
    BY <1>1, <1>3, <1>4, <2>1, LenProperties
  <2>3. ASSUME NEW j \in 1..(n - 1)
        PROVE  rest[j] = IF j < i THEN line[j] ELSE line[j + 1]
    <3>1. CASE j < i
      BY <1>1, <1>3, <1>4, <2>1, <3>1
    <3>2. CASE ~ (j < i)
      <4>1. j - (i - 1) \in 1..(n - i) /\ i + (j - (i - 1)) = j + 1
        BY <1>1, <3>2
      <4>2. after[j - (i - 1)] = line[j + 1]
        BY <1>4, <4>1
      <4>3. rest[j] = after[j - (i - 1)]
        BY <1>1, <1>3, <1>4, <2>1, <3>2
      <4> QED BY <3>2, <4>2, <4>3
    <3> QED BY <3>1, <3>2
  <2> QED BY <2>1, <2>2, <2>3
<1>7. IsInjective(rest)
  <2> SUFFICES ASSUME NEW j \in 1..(n - 1), NEW k \in 1..(n - 1), rest[j] = rest[k]
               PROVE  j = k
    BY <1>6 DEF IsInjective
  <2>1. \A p, q \in 1..n : line[p] = line[q] => p = q
    BY <1>1 DEF LineOK, IsInjective
  <2> DEFINE p(m) == IF m < i THEN m ELSE m + 1
  <2>2. \A m \in 1..(n - 1) : p(m) \in 1..n /\ rest[m] = line[p(m)]
    BY <1>1, <1>6
  <2>3. p(j) = p(k)
    <3> HIDE DEF p
    <3> QED BY <2>1, <2>2
  <2> QED BY <1>1, <2>3
<1>8. ASSUME NEW b \in InLine(rest) PROVE b \in InLine(line) \ {line[i]}
  <2>1. PICK j \in 1..(n - 1) : b = rest[j]
    BY <1>6, <1>8 DEF InLine
  <2>2. PICK k \in 1..n : k # i /\ b = line[k]
    BY <1>1, <1>6, <2>1
  <2> QED BY <1>1, <2>2 DEF LineOK, IsInjective, InLine
<1>9. ASSUME NEW b \in InLine(line) \ {line[i]} PROVE b \in InLine(rest)
  <2>1. PICK k \in 1..n : b = line[k] /\ k # i
    BY <1>1, <1>9 DEF InLine
  <2>2. CASE k < i
    <3>1. k \in DOMAIN rest /\ rest[k] = b
      BY <1>1, <1>6, <2>1, <2>2
    <3> QED BY <3>1 DEF InLine
  <2>3. CASE k > i
    <3>1. k - 1 \in DOMAIN rest /\ rest[k - 1] = b
      BY <1>1, <1>6, <2>1, <2>3
    <3> QED BY <3>1 DEF InLine
  <2> QED BY <1>1, <2>1, <2>2, <2>3
<1>10. LineOK(rest) /\ InLine(rest) = InLine(line) \ {line[i]}
  BY <1>6, <1>7, <1>8, <1>9 DEF LineOK
<1> QED BY <1>10 DEF rest

\* The oldest leaves.
LEMMA LineMoves ==
    ASSUME NEW line, LineOK(line), line # <<>>
    PROVE  /\ LineOK(Tail(line)) /\ Head(line) \in InLine(line)
           /\ InLine(Tail(line)) = InLine(line) \ {Head(line)}
<1>1. line \in Seq(Asks) /\ Len(line) \in Nat \ {0} /\ DOMAIN line = 1..Len(line)
  BY EmptySeq, LenProperties DEF LineOK
<1>2. Tail(line) = RemoveAt(line, 1)
  <2>1. SubSeq(line, 1, 1 - 1) = <<>>
    BY SubSeqEmpty
  <2>2. Tail(line) = SubSeq(line, 2, Len(line)) /\ Tail(line) \in Seq(Asks)
    BY <1>1, TailIsSubSeq, HeadTailProperties
  <2>3. <<>> \o Tail(line) = Tail(line)
    BY <2>2, ConcatEmptySeq
  <2> QED BY <2>1, <2>2, <2>3 DEF RemoveAt
<1>3. Head(line) = line[1] /\ 1 \in DOMAIN line
  BY <1>1
<1>4. Head(line) \in InLine(line)
  BY <1>3 DEF InLine
<1> QED BY <1>2, <1>3, <1>4, LineShrinks

LEMMA LineLeft ==
    ASSUME LineOK(queue), NEW a \in Asks
    PROVE  LineOK(Without(a)) /\ InLine(Without(a)) = Queued \ {a}
<1>1. Queued = InLine(queue)
  BY DEF Queued, InLine
<1>2. CASE a \in Queued
  <2> DEFINE i == CHOOSE i \in DOMAIN queue : queue[i] = a
  <2>1. i \in DOMAIN queue /\ queue[i] = a
    BY <1>2 DEF Queued
  <2>2. Without(a) = RemoveAt(queue, i)
    BY <1>2 DEF Without
  <2> HIDE DEF i
  <2> QED BY <1>1, <2>1, <2>2, LineShrinks
<1>3. CASE a \notin Queued
  BY <1>1, <1>3 DEF Without
<1> QED BY <1>2, <1>3

-----------------------------------------------------------------------------
(* What a step does to the queue and to the entries.                       *)

LEMMA Inside == Queued = InLine(queue) /\ Queued' = InLine(queue')
  BY DEF Queued, InLine

LEMMA NoAskOK == AskOK(NoAsk)
  BY DEF AskOK, NoAsk, Ask, Points

\* A step of one thread: its own entry, and nobody else's place in the queue.
LEMMA OneMoves ==
    ASSUME Waiting, NEW a \in Asks, NEW rec, Put(a, rec), AskOK(rec),
           LineOK(queue'), Queued' \ {a} = Queued \ {a}, Waits(a, rec, a \in Queued')
    PROVE  Waiting'
<1>1. rec \in Ask
  BY DEF AskOK
<1>2. ask' \in [Asks -> Ask] /\ \A b \in Asks : ask'[b] = IF b = a THEN rec ELSE ask[b]
  BY <1>1 DEF Put, Waiting
<1>3. ASSUME NEW b \in Asks
      PROVE  AskOK(ask'[b]) /\ Waits(b, ask'[b], b \in Queued')
  <2>1. CASE b = a
    BY <1>2, <2>1
  <2>2. CASE b # a
    <3>1. ask'[b] = ask[b] /\ (b \in Queued' <=> b \in Queued)
      BY <1>2, <2>2
    <3> QED BY <3>1 DEF Waiting, Waits
  <2> QED BY <2>1, <2>2
<1> QED BY <1>2, <1>3 DEF Waiting

\* Entries leave the queue with an answer.
LEMMA SomeLeave ==
    ASSUME Waiting, NEW as, as \subseteq Queued, NEW answer \in Answers, Told(as, answer),
           LineOK(queue'), Queued' = Queued \ as
    PROVE  Waiting'
<1>1. ASSUME NEW a \in Asks
      PROVE  /\ ask'[a] \in Ask /\ AskOK(ask'[a])
             /\ Waits(a, ask'[a], a \in Queued')
  <2>1. AskOK(ask[a]) /\ Waits(a, ask[a], a \in Queued) /\ ask[a] \in Ask
    BY DEF Waiting
  <2>2. CASE a \in as
    <3>1. ask'[a] = [ask[a] EXCEPT !.answer = answer] /\ a \in Queued /\ a \notin Queued'
      BY <2>2 DEF Told
    <3>2. answer # "none"
      BY DEF Answers, Approvals
    <3> QED BY <2>1, <3>1, <3>2 DEF AskOK, Waits, Ask
  <2>3. CASE a \notin as
    <3>1. ask'[a] = ask[a] /\ (a \in Queued' <=> a \in Queued)
      BY <2>3 DEF Told
    <3> QED BY <2>1, <3>1 DEF Waits
  <2> QED BY <2>2, <2>3
<1>2. ask' \in [Asks -> Ask]
  BY <1>1 DEF Told
<1> QED BY <1>1, <1>2 DEF Waiting

LEMMA AllLeave ==
    ASSUME Waiting, NEW answer \in Answers, TakeAll(answer)
    PROVE  Waiting'
  BY SomeLeave, LineEmpty, Inside DEF TakeAll

LEMMA FirstLeaves ==
    ASSUME Waiting, NEW answer \in Answers, queue # <<>>, TakeFirst(answer)
    PROVE  Waiting'
  BY SomeLeave, LineMoves, Inside DEF TakeFirst, Waiting

\* The end of a command, off the queue.
LEMMA DoneOK ==
    ASSUME Waiting, NEW a \in Asks, NEW point \in Ends, Done(a, point),
           point = "ran" => ask[a].answer \in Approvals,
           LineOK(queue'), Queued' = Queued \ {a}
    PROVE  Waiting'
<1> DEFINE rec == [NoAsk EXCEPT !.at = point,
               !.answer = IF point = "ran" THEN ask[a].answer ELSE "none", !.set = point = "ran"]
<1>1. AskOK(rec)
  BY DEF AskOK, Ask, NoAsk, Ends, Points, Answers
<1>2. Waits(a, rec, a \in Queued')
  BY DEF Waits, NoAsk, Ends
<1>3. Put(a, rec)
  BY DEF Done
<1> HIDE DEF rec
<1> QED BY <1>1, <1>2, <1>3, OneMoves

\* What is saved or about to be depends on few variables.
LEMMA StillSaved ==
    ASSUME AlwaysIsSaved, UNCHANGED Remembered,
           \A a \in Asks, k \in Keys : Saved(k, ask[a]) => Saved(k, ask'[a]),
           Allowed
    PROVE  AlwaysIsSaved'
  BY DEF AlwaysIsSaved, Remembered, Saved, At, Allowed

LEMMA Rest ==
    ASSUME BlockInv
    PROVE  (UNCHANGED Turning => Turned') /\ (UNCHANGED Remembered => Allowed')
  BY DEF BlockInv, Turned, Allowed, Turning, Remembered

-----------------------------------------------------------------------------
(* Turns, answers and boundaries.                                          *)

LEMMA InvBegin == ASSUME BlockInv, NEW r \in Turns, Begin(r) PROVE BlockInv'
<1>1. Waiting' /\ AlwaysIsSaved'
  BY DEF BlockInv, Begin, Waiting, Queued, AlwaysIsSaved, At, Remembered
<1>2. Turned'
  BY DEF BlockInv, Begin, Turned
<1> QED BY <1>1, <1>2, Rest DEF BlockInv, Begin

LEMMA InvInterrupt == ASSUME BlockInv, NEW r \in Turns, Interrupt(r) PROVE BlockInv'
<1>1. Waiting' /\ AlwaysIsSaved'
  BY DEF BlockInv, Interrupt, Waiting, Queued, AlwaysIsSaved, At, Remembered
<1>2. Turned'
  BY DEF BlockInv, Interrupt, Turned
<1> QED BY <1>1, <1>2, Rest DEF BlockInv, Interrupt

\* An answer leaves an entry where it is.
LEMMA ToldSaved ==
    ASSUME Waiting, NEW as, NEW answer, Told(as, answer), NEW a \in Asks, NEW k \in Keys,
           Saved(k, ask[a])
    PROVE  Saved(k, ask'[a])
<1>1. ask[a] \in Ask
  BY DEF Waiting
<1>2. ask'[a].at = ask[a].at /\ ask'[a].list = ask[a].list
  BY <1>1 DEF Told, Ask
<1> QED BY <1>2 DEF Saved

LEMMA InvEnd == ASSUME BlockInv, NEW r \in Turns, End(r) PROVE BlockInv'
<1>1. Waiting'
  BY AllLeave DEF BlockInv, End, Answers
<1>2. AlwaysIsSaved'
  BY ToldSaved, StillSaved DEF BlockInv, End, TakeAll
<1>3. Turned'
  BY DEF BlockInv, End, Turned
<1> QED BY <1>1, <1>2, <1>3, Rest DEF BlockInv, End

LEMMA InvClear == ASSUME BlockInv, Clear PROVE BlockInv'
<1>1. Waiting'
  BY AllLeave DEF BlockInv, Clear, Answers
<1>2. \A a \in Asks, k \in Keys : Saved(k, ask[a]) => Saved(k, ask'[a])
  BY ToldSaved DEF BlockInv, Clear, TakeAll
<1>3. AlwaysIsSaved'
  BY <1>2 DEF BlockInv, Clear, AlwaysIsSaved, Saved, At, Allowed
<1>4. Turned' /\ Allowed'
  BY DEF BlockInv, Clear, Turned, Allowed
<1> QED BY <1>1, <1>3, <1>4 DEF BlockInv

LEMMA InvResolve ==
    ASSUME BlockInv, NEW answer \in Approvals \union {"deny"}, NEW all \in BOOLEAN,
           Resolve(answer, all)
    PROVE  BlockInv'
<1>1. Waiting'
  BY AllLeave, FirstLeaves DEF BlockInv, Resolve, Answers
<1>2. AlwaysIsSaved'
  BY ToldSaved, StillSaved DEF BlockInv, Resolve, TakeAll, TakeFirst
<1> QED BY <1>1, <1>2, Rest DEF BlockInv, Resolve

LEMMA InvDeliver == ASSUME BlockInv, NEW a \in Asks, Deliver(a) PROVE BlockInv'
<1>1. ASSUME NEW b \in Asks
      PROVE  /\ ask'[b] \in Ask /\ ask'[b].at = ask[b].at /\ ask'[b].answer = ask[b].answer
             /\ ask'[b].list = ask[b].list /\ ask[b] \in Ask
  BY DEF BlockInv, Waiting, Deliver, Ask
<1>2. Waiting'
  <2>1. ask' \in [Asks -> Ask]
    BY DEF BlockInv, Waiting, Deliver, Ask
  <2>2. Queued' = Queued /\ queue' = queue
    BY DEF Deliver, Queued
  <2>3. \A b \in Asks : AskOK(ask'[b])
    BY <1>1 DEF BlockInv, Waiting, AskOK
  <2>4. \A b \in Asks : Waits(b, ask'[b], b \in Queued')
    BY <1>1, <2>2 DEF BlockInv, Waiting, Waits
  <2> QED BY <2>1, <2>2, <2>3, <2>4 DEF BlockInv, Waiting
<1>3. AlwaysIsSaved'
  BY <1>1, StillSaved DEF BlockInv, Deliver, Saved
<1> QED BY <1>2, <1>3, Rest DEF BlockInv, Deliver

-----------------------------------------------------------------------------
(* The threads.                                                            *)

\* One entry changes that is not about to be saved.
LEMMA OneSaved ==
    ASSUME BlockInv, NEW a \in Asks, NEW rec, Put(a, rec), UNCHANGED Remembered,
           \A k \in Keys : Saved(k, ask[a]) => Saved(k, rec)
    PROVE  AlwaysIsSaved'
<1>1. \A b \in Asks : ask'[b] = IF b = a THEN rec ELSE ask[b]
  BY DEF BlockInv, Waiting, Put
<1> QED BY <1>1, StillSaved DEF BlockInv

\* An entry goes on to the next point.
LEMMA GoOn ==
    ASSUME BlockInv, NEW a \in Asks, NEW point \in Points, Go(a, point),
           ask[a].at \notin {"list", "save"}, UNCHANGED <<Turning, Remembered>>,
           AskOK([ask[a] EXCEPT !.at = point]),
           LineOK(queue'), Queued' \ {a} = Queued \ {a},
           Waits(a, [ask[a] EXCEPT !.at = point], a \in Queued')
    PROVE  BlockInv'
<1> DEFINE rec == [ask[a] EXCEPT !.at = point]
<1>1. Put(a, rec)
  BY DEF Go
<1>2. \A k \in Keys : ~ Saved(k, ask[a])
  BY DEF Saved
<1> HIDE DEF rec
<1>3. Waiting'
  BY <1>1, OneMoves DEF BlockInv, rec
<1>4. AlwaysIsSaved'
  BY <1>1, <1>2, OneSaved
<1> QED BY <1>3, <1>4, Rest DEF BlockInv

LEMMA InvDone ==
    ASSUME BlockInv, NEW a \in Asks, NEW point \in Ends, Done(a, point),
           ask[a].at \notin {"list", "save"}, UNCHANGED <<Turning, Remembered>>,
           point = "ran" => ask[a].answer \in Approvals,
           LineOK(queue'), Queued' = Queued \ {a}
    PROVE  BlockInv'
<1>1. Waiting'
  BY DoneOK DEF BlockInv
<1>2. AlwaysIsSaved'
  BY OneSaved DEF Done, Saved
<1> QED BY <1>1, <1>2, Rest DEF BlockInv

LEMMA InvCheck ==
    ASSUME BlockInv, NEW a \in Asks, NEW keys \in SUBSET Keys, Check(a, keys)
    PROVE  BlockInv'
<1>1. LineOK(queue') /\ Queued' = Queued /\ a \notin Queued
  BY DEF BlockInv, Check, Waiting, Waits, Queued, At
<1>2. CASE Done(a, "passed") \/ Done(a, "unasked")
  BY <1>1, <1>2, InvDone DEF Check, At, Ends
<1>3. CASE Put(a, [NoAsk EXCEPT !.at = "append", !.keys = keys \ (session \union permanent)])
  <2> DEFINE rec == [NoAsk EXCEPT !.at = "append", !.keys = keys \ (session \union permanent)]
  <2>1. AskOK(rec) /\ Waits(a, rec, a \in Queued')
    BY <1>1 DEF AskOK, Waits, Ask, NoAsk, Points
  <2>2. \A k \in Keys : ~ Saved(k, ask[a])
    BY DEF Check, At, Saved
  <2> HIDE DEF rec
  <2>3. Waiting' /\ AlwaysIsSaved'
    BY <1>1, <1>3, <2>1, <2>2, OneMoves, OneSaved DEF BlockInv, Check, rec
  <2> QED BY <2>3, Rest DEF BlockInv, Check
<1> QED BY <1>2, <1>3 DEF Check

LEMMA InvEnqueue == ASSUME BlockInv, NEW a \in Asks, Enqueue(a) PROVE BlockInv'
<1>1. ask[a] \in Ask /\ ask[a].at = "append" /\ AskOK(ask[a]) /\ Waits(a, ask[a], a \in Queued)
  BY DEF BlockInv, Enqueue, Waiting, At
<1>2. a \notin Queued /\ LineOK(queue)
  BY <1>1 DEF Waits, BlockInv, Waiting
<1>3. LineOK(queue') /\ Queued' = Queued \union {a}
  BY <1>2, LineGrows, Inside DEF Enqueue
<1>4. AskOK([ask[a] EXCEPT !.at = "notify"])
  BY <1>1 DEF AskOK, Ask, Points
<1>5. Waits(a, [ask[a] EXCEPT !.at = "notify"], a \in Queued')
  BY <1>1, <1>3 DEF Waits, AskOK, Ask
<1> QED BY <1>1, <1>3, <1>4, <1>5, GoOn DEF Enqueue, Points

LEMMA InvNotify == ASSUME BlockInv, NEW a \in Asks, Notify(a) PROVE BlockInv'
<1>1. ask[a] \in Ask /\ ask[a].at = "notify" /\ AskOK(ask[a]) /\ Waits(a, ask[a], a \in Queued)
  BY DEF BlockInv, Notify, Waiting, At
<1>2. CASE Go(a, "wait") /\ UNCHANGED queue
  <2>1. AskOK([ask[a] EXCEPT !.at = "wait"])
    BY <1>1 DEF AskOK, Ask, Points
  <2>2. Waits(a, [ask[a] EXCEPT !.at = "wait"], a \in Queued)
    BY <1>1 DEF Waits, Ask
  <2>3. LineOK(queue') /\ Queued' = Queued
    BY <1>2 DEF BlockInv, Waiting, Queued
  <2> QED BY <1>1, <1>2, <2>1, <2>2, <2>3, GoOn DEF Notify, Points
<1>3. CASE Done(a, "blocked") /\ queue' = Without(a)
  BY <1>1, <1>3, LineLeft, Inside, InvDone DEF BlockInv, Waiting, Notify, Ends
<1> QED BY <1>2, <1>3 DEF Notify

LEMMA InvTimeout == ASSUME BlockInv, NEW a \in Asks, Timeout(a) PROVE BlockInv'
  BY LineLeft, Inside, InvDone DEF BlockInv, Waiting, Timeout, Ends, At

LEMMA InvWake == ASSUME BlockInv, NEW a \in Asks, Wake(a) PROVE BlockInv'
<1>1. /\ ask[a] \in Ask /\ ask[a].at = "wait" /\ AskOK(ask[a])
      /\ LineOK(queue') /\ Queued' = Queued \ {a}
  BY LineLeft, Inside DEF BlockInv, Wake, Waiting, At
<1>2. CASE Done(a, "blocked")
  BY <1>1, <1>2, InvDone DEF Wake, Ends
<1>3. CASE Granted(ask[a].answer) /\ Done(a, "ran")
  BY <1>1, <1>3, InvDone DEF Wake, Ends, Granted
<1>4. CASE Granted(ask[a].answer) /\ Go(a, "remember")
  <2>1. AskOK([ask[a] EXCEPT !.at = "remember"])
    BY <1>1, <1>4 DEF AskOK, Ask, Points, Granted
  <2>2. Waits(a, [ask[a] EXCEPT !.at = "remember"], a \in Queued')
    BY <1>1 DEF Waits, Ask
  <2> QED BY <1>1, <1>4, <2>1, <2>2, GoOn DEF Wake, Points
<1> QED BY <1>2, <1>3, <1>4 DEF Wake

LEMMA InvRemember ==
    ASSUME BlockInv, NEW a \in Asks, NEW k \in Keys, Remember(a, k) PROVE BlockInv'
<1> DEFINE always == ask[a].answer = "always" /\ k \notin Tirith
           rec == [ask[a] EXCEPT !.keys = @ \ {k}, !.at = IF always THEN "list" ELSE @]
<1>1. /\ ask[a] \in Ask /\ ask[a].at = "remember" /\ AskOK(ask[a])
      /\ Waits(a, ask[a], a \in Queued) /\ LineOK(queue') /\ Queued' = Queued
  BY DEF BlockInv, Remember, Waiting, At, Queued
<1>2. AskOK(rec) /\ rec.at = IF always THEN "list" ELSE "remember"
  BY <1>1 DEF AskOK, Ask, Points
<1>3. Waits(a, rec, a \in Queued')
  BY <1>1, <1>2 DEF Waits
<1>4. Put(a, rec) /\ permanent' = (IF always THEN permanent \union {k} ELSE permanent)
  BY DEF Remember
<1> HIDE DEF rec
<1>5. Waiting'
  BY <1>1, <1>2, <1>3, <1>4, OneMoves DEF BlockInv
<1>6. \A b \in Asks : ask'[b] = IF b = a THEN rec ELSE ask[b]
  BY <1>4 DEF BlockInv, Waiting, Put
<1>7. AlwaysIsSaved'
  BY <1>1, <1>2, <1>4, <1>6 DEF BlockInv, AlwaysIsSaved, At, Remember
<1>8. Turned' /\ Allowed'
  BY <1>4 DEF BlockInv, Turned, Allowed, Remember, Turning
<1> QED BY <1>5, <1>7, <1>8 DEF BlockInv

LEMMA InvListPermanent == ASSUME BlockInv, NEW a \in Asks, ListPermanent(a) PROVE BlockInv'
<1> DEFINE rec == [ask[a] EXCEPT !.list = permanent, !.at = "save"]
<1>1. /\ ask[a] \in Ask /\ ask[a].at = "list" /\ AskOK(ask[a])
      /\ Waits(a, ask[a], a \in Queued) /\ LineOK(queue') /\ Queued' = Queued
  BY DEF BlockInv, ListPermanent, Waiting, At, Queued
<1>2. AskOK(rec) /\ rec.at = "save" /\ rec.list = permanent
  BY <1>1 DEF BlockInv, Allowed, AskOK, Ask, Points
<1>3. Waits(a, rec, a \in Queued')
  BY <1>1, <1>2 DEF Waits
<1>4. Put(a, rec)
  BY DEF ListPermanent
<1> HIDE DEF rec
<1>5. Waiting'
  BY <1>1, <1>2, <1>3, <1>4, OneMoves DEF BlockInv
\* What it listed is all that is allowed.
<1>6. \A b \in Asks : ask'[b] = IF b = a THEN rec ELSE ask[b]
  BY <1>4 DEF BlockInv, Waiting, Put
<1>7. AlwaysIsSaved'
  BY <1>2, <1>6 DEF AlwaysIsSaved, At, ListPermanent, Remembered
<1> QED BY <1>5, <1>7, Rest DEF BlockInv, ListPermanent

LEMMA InvSavePermanent == ASSUME BlockInv, NEW a \in Asks, SavePermanent(a) PROVE BlockInv'
<1> DEFINE rec == [ask[a] EXCEPT !.list = {}, !.at = "remember"]
<1>1. /\ ask[a] \in Ask /\ ask[a].at = "save" /\ AskOK(ask[a])
      /\ Waits(a, ask[a], a \in Queued) /\ LineOK(queue') /\ Queued' = Queued
  BY DEF BlockInv, SavePermanent, Waiting, At, Queued
<1>2. AskOK(rec) /\ rec.at = "remember"
  BY <1>1 DEF AskOK, Ask, Points
<1>3. Waits(a, rec, a \in Queued')
  BY <1>1, <1>2 DEF Waits
<1>4. Put(a, rec)
  BY DEF SavePermanent
<1> HIDE DEF rec
<1>5. Waiting'
  BY <1>1, <1>2, <1>3, <1>4, OneMoves DEF BlockInv
<1>6. \A b \in Asks : b # a => ask'[b] = ask[b]
  BY <1>4 DEF BlockInv, Waiting, Put
\* A pattern that is still not in the file was not in it before, or saves have
\* crossed; then another thread is about to save it, or its save has failed.
<1>7. AlwaysIsSaved'
  <2> SUFFICES ASSUME NEW k \in permanent \ config', ~ dropped'
               PROVE  k \in unsaved' \/ \E b \in Asks : Saved(k, ask'[b])
    BY DEF AlwaysIsSaved, SavePermanent, Saved, At
  <2>1. k \notin config /\ ~ dropped
    <3>1. CASE config' = ask[a].list /\ dropped' = (dropped \/ ~ config \subseteq ask[a].list)
      BY <3>1
    <3>2. CASE UNCHANGED <<config, dropped>>
      BY <3>2
    <3> QED BY <3>1, <3>2 DEF SavePermanent
  <2>2. k \in unsaved \/ \E b \in Asks : Saved(k, ask[b])
    BY <2>1 DEF BlockInv, AlwaysIsSaved, Saved, At, SavePermanent
  <2>3. CASE k \in unsaved
    BY <2>1, <2>3 DEF SavePermanent
  <2>4. ASSUME NEW b \in Asks, Saved(k, ask[b])
        PROVE  k \in unsaved' \/ \E c \in Asks : Saved(k, ask'[c])
    <3>1. CASE b = a
      BY <1>1, <2>1, <2>4, <3>1 DEF Saved, SavePermanent
    <3>2. CASE b # a
      BY <1>6, <2>4, <3>2
    <3> QED BY <3>1, <3>2
  <2> QED BY <2>2, <2>3, <2>4
<1>8. Turned' /\ Allowed'
  BY <1>1 DEF BlockInv, Turned, Allowed, SavePermanent, Turning, AskOK
<1> QED BY <1>5, <1>7, <1>8 DEF BlockInv

LEMMA InvRun == ASSUME BlockInv, NEW a \in Asks, Run(a) PROVE BlockInv'
<1>1. /\ ask[a].at = "remember" /\ ask[a].answer \in Approvals
      /\ a \notin Queued /\ LineOK(queue') /\ Queued' = Queued
  BY DEF BlockInv, Run, Waiting, AskOK, Waits, At, Queued
<1> QED BY <1>1, InvDone DEF Run, Ends

LEMMA InvRestart == ASSUME BlockInv, Restart PROVE BlockInv'
<1>1. ASSUME NEW a \in Asks
      PROVE  ask'[a] \in Ask /\ AskOK(ask'[a]) /\ Waits(a, ask'[a], FALSE)
  <2>1. ask[a] \in Ask /\ AskOK(ask[a])
    BY DEF BlockInv, Waiting
  <2>2. CASE At(a, "idle") \/ ask[a].at \in Ends
    BY <2>1, <2>2 DEF Restart, At, Ends, Waits
  <2>3. CASE ~ (At(a, "idle") \/ ask[a].at \in Ends)
    BY <2>3 DEF Restart, NoAsk, AskOK, Waits, Ask, Points
  <2> QED BY <2>2, <2>3
<1>2. LineOK(queue') /\ Queued' = {}
  BY LineEmpty, Inside DEF Restart
<1>3. ask' \in [Asks -> Ask]
  BY <1>1 DEF Restart
<1>4. Waiting'
  <2>1. \A a \in Asks : AskOK(ask'[a]) /\ Waits(a, ask'[a], a \in Queued')
    BY <1>1, <1>2 DEF Waits
  <2> QED BY <1>2, <1>3, <2>1 DEF Waiting
<1>5. Turned' /\ Allowed' /\ AlwaysIsSaved'
  BY DEF BlockInv, Turned, Allowed, AlwaysIsSaved, Restart, Read
<1> QED BY <1>4, <1>5 DEF BlockInv

-----------------------------------------------------------------------------
(* The invariant, and what follows from it.                                *)

LEMMA InvInit == Init => BlockInv
<1> SUFFICES ASSUME Init PROVE BlockInv
  OBVIOUS
<1>1. LineOK(queue) /\ Queued = {}
  BY LineEmpty, Inside DEF Init
<1>2. NoAsk \in Ask
  BY NoAskOK DEF AskOK
<1>3. Waiting
  BY <1>1, <1>2, NoAskOK DEF Init, Waiting, Waits, NoAsk
<1>4. Turned
  BY DEF Init, Turned
<1>5. Allowed
  BY DEF Init, Allowed, Read
<1>6. AlwaysIsSaved
  BY DEF Init, AlwaysIsSaved, Read
<1> QED BY <1>3, <1>4, <1>5, <1>6 DEF BlockInv

LEMMA InvNext == BlockInv /\ [Next]_vars => BlockInv'
<1> SUFFICES ASSUME BlockInv, [Next]_vars PROVE BlockInv'
  OBVIOUS
<1>1. CASE \E r \in Turns : Begin(r) \/ Interrupt(r) \/ End(r)
  BY <1>1, InvBegin, InvInterrupt, InvEnd
<1>2. CASE Clear \/ Restart
  BY <1>2, InvClear, InvRestart
<1>3. CASE \E answer \in Approvals \union {"deny"}, all \in BOOLEAN : Resolve(answer, all)
  BY <1>3, InvResolve
<1>4. ASSUME NEW a \in Asks, Thread(a) PROVE BlockInv'
  BY <1>4, InvEnqueue, InvNotify, InvWake, InvTimeout, InvRemember, InvListPermanent,
     InvSavePermanent, InvRun DEF Thread
<1>5. CASE \E a \in Asks : Thread(a) \/ Deliver(a)
  BY <1>4, <1>5, InvDeliver
<1>6. CASE \E a \in Asks, keys \in SUBSET Keys \ {{}} : Check(a, keys)
  BY <1>6, InvCheck
<1>7. CASE UNCHANGED vars
  BY <1>7 DEF BlockInv, Waiting, Turned, Allowed, AlwaysIsSaved, Queued, At, vars
<1> QED BY <1>1, <1>2, <1>3, <1>5, <1>6, <1>7 DEF Next

LEMMA Holds == Spec => []BlockInv
<1> QED BY InvInit, InvNext, PTL DEF Spec

\* Whatever turns, answers, deadlines, boundaries and restarts come together, an
\* entry is queued at most once, a command that is run has an approval or needed
\* none, and no rule of tirith's is allowed for good (check_all_command_guards).
THEOREM TypeCorrect == Spec => []TypeOK
<1>1. BlockInv => TypeOK
  BY DEF BlockInv, Waiting, Turned, Allowed, TypeOK, LineOK, AskOK, At
<1> QED BY <1>1, Holds, PTL

\* With any number of threads, turns and boundaries, who blocks can be answered or
\* will be told, and no answer goes to an entry nobody waits for
\* (resolve_gateway_approval, unregister_gateway_notify, clear_session).
THEOREM QueueExact == Spec => []QueueIsExact
<1>1. BlockInv => QueueIsExact
  <2> SUFFICES ASSUME BlockInv PROVE QueueIsExact
    OBVIOUS
  <2>1. Queued \subseteq Asks
    BY LenProperties, ElementOfSeq DEF BlockInv, Waiting, LineOK, Queued
  <2> QED BY <2>1 DEF BlockInv, Waiting, Waits, QueueIsExact, At
<1> QED BY <1>1, Holds, PTL

\* However many threads save, what was allowed for good is in config.yaml or about
\* to be written, unless two saves crossed (save_permanent_allowlist).
THEOREM SavedForGood == Spec => []AlwaysIsSaved
<1>1. BlockInv => AlwaysIsSaved
  BY DEF BlockInv
<1> QED BY <1>1, Holds, PTL
=============================================================================
