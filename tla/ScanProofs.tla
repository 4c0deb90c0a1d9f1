----------------------------- MODULE ScanProofs ------------------------------
(***************************************************************************)
(* Proofs about Gather and Scan, for any number of dependencies, any limit *)
(* (0 too), any answers and any redraws. The loop keeps its limit, fills   *)
(* every slot with its own dependency's answer, counts right and does what *)
(* SignalCollection promises; the loop inside Scan is that loop; and what  *)
(* the ticker draws never counts back.                                     *)
(***************************************************************************)
EXTENDS Scan, FiniteSetTheorems, TLAPS

-----------------------------------------------------------------------------
\* The collection loop.

Filled == {d \in Deps : results[d] # Default}

\* Where the loop is, what it knows: it awaits only what is in flight, and it
\* leaves when nothing is and nothing is left to start.
LoopInv ==
  /\ pc = "await" => inFlight # {}
  /\ pc = "done" => inFlight = {} /\ next > N

IInv == TypeOK /\ BoundedConcurrency /\ OwnSlot /\ ProgressCounts /\ LoopInv

\* An answer always tells whose it is, so it is never the default.
LEMMA AnswerIsNoDefault ==
  ASSUME NEW d \in Deps, NEW a \in AnswersTo(d)
  PROVE  a # Default
PROOF BY GatherAssumption DEF AnswersTo, Said, Default, Deps

\* Sets of positions are finite.
LEMMA PositionsFinite ==
  ASSUME NEW S \in SUBSET Deps
  PROVE  IsFiniteSet(S) /\ Cardinality(S) \in Nat /\ Cardinality(S) <= N
PROOF
<1>1. IsFiniteSet(Deps) /\ Cardinality(Deps) = N
  BY FS_Interval, GatherAssumption DEF Deps
<1>2. IsFiniteSet(S) /\ Cardinality(S) <= Cardinality(Deps)
  BY <1>1, FS_Subset
<1> QED
  BY <1>1, <1>2, FS_CardinalityType

\* The limit is a positive number.
LEMMA LimitPositive == concurrency \in Limits => Limit \in Nat /\ Limit > 0
PROOF BY GatherAssumption DEF Limit

LEMMA InitInv == Init => IInv
PROOF
<1> SUFFICES ASSUME Init PROVE IInv
  OBVIOUS
<1> USE DEF Init
<1>1. TypeOK
  BY GatherAssumption DEF TypeOK
<1>2. BoundedConcurrency
  BY FS_EmptySet, LimitPositive, 0 \in Nat DEF BoundedConcurrency
<1>3. OwnSlot
  BY GatherAssumption DEF OwnSlot, Deps
<1>4. Filled = {} /\ Cardinality(Filled) = 0
  BY FS_EmptySet DEF Filled
<1>5. ProgressCounts /\ LoopInv
  BY <1>4 DEF ProgressCounts, LoopInv, Filled
<1> QED
  BY <1>1, <1>2, <1>3, <1>5 DEF IInv

LEMMA StartInv == ASSUME IInv, Start PROVE IInv'
PROOF
<1> USE DEF Start
<1>t. /\ next \in 1 .. N + 1 /\ next \in Nat /\ next \in Deps /\ N \in Nat
      /\ inFlight \subseteq 1 .. next - 1 /\ inFlight \in SUBSET Deps
      /\ next \notin inFlight
  BY GatherAssumption DEF IInv, TypeOK, Deps
<1>1. TypeOK'
  BY <1>t DEF IInv, TypeOK
<1>2. BoundedConcurrency'
  <2>1. Cardinality(inFlight') = Cardinality(inFlight) + 1
    BY <1>t, PositionsFinite, FS_AddElement
  <2> QED
    BY <2>1, <1>t, PositionsFinite, LimitPositive DEF IInv, TypeOK, BoundedConcurrency, Limit
<1>3. OwnSlot'
  BY <1>t DEF IInv, OwnSlot, Deps
<1>4. ProgressCounts' /\ LoopInv'
  BY DEF IInv, ProgressCounts, LoopInv
<1> QED
  BY <1>1, <1>2, <1>3, <1>4 DEF IInv

LEMMA EndFillInv == ASSUME IInv, EndFill PROVE IInv'
PROOF
<1> USE DEF EndFill
<1>1. TypeOK'
  BY DEF IInv, TypeOK
<1>2. BoundedConcurrency' /\ OwnSlot' /\ ProgressCounts'
  BY DEF IInv, BoundedConcurrency, Limit, OwnSlot, ProgressCounts
<1>3. LoopInv'
  BY DEF LoopInv
<1> QED
  BY <1>1, <1>2, <1>3 DEF IInv

LEMMA TakeInv == ASSUME IInv, NEW d \in Deps, Take(d) PROVE IInv'
PROOF
<1> USE DEF Take
<1>a. PICK a \in AnswersTo(d) : results' = [results EXCEPT ![d] = a]
  OBVIOUS
<1>t. /\ next \in 1 .. N + 1 /\ N \in Nat /\ d \in inFlight /\ d < next
      /\ inFlight \subseteq 1 .. next - 1 /\ inFlight \in SUBSET Deps
      /\ DOMAIN results = Deps
  BY GatherAssumption DEF IInv, TypeOK, Deps
<1>s. results'[d] = a /\ \A e \in Deps : e # d => results'[e] = results[e]
  BY <1>a, <1>t
<1>f. results[d] = Default /\ a # Default
  BY <1>t, <1>a, AnswerIsNoDefault DEF IInv, OwnSlot
<1>1. progress' = Cardinality(Filled')
  <2>1. Filled' = Filled \cup {d} /\ d \notin Filled
    BY <1>s, <1>f DEF Filled
  <2>2. IsFiniteSet(Filled) /\ Cardinality(Filled) \in Nat
    BY PositionsFinite DEF Filled
  <2>3. Cardinality(Filled') = Cardinality(Filled) + 1
    BY <2>1, <2>2, FS_AddElement
  <2> QED
    BY <2>3 DEF IInv, ProgressCounts, Filled
<1>2. progress' \in 0 .. N
  <2>1. Filled' \in SUBSET Deps
    BY DEF Filled
  <2> QED
    BY <1>1, <1>t, <2>1, PositionsFinite
<1>3. TypeOK'
  BY <1>2, <1>a, <1>t DEF IInv, TypeOK
<1>4. BoundedConcurrency'
  <2>1. Cardinality(inFlight') = Cardinality(inFlight) - 1
    BY <1>t, PositionsFinite, FS_RemoveElement
  <2> QED
    BY <2>1, <1>t, PositionsFinite, LimitPositive DEF IInv, TypeOK, BoundedConcurrency, Limit
<1>5. OwnSlot'
  BY <1>s, <1>t, <1>a DEF IInv, OwnSlot, Deps
<1>6. ProgressCounts' /\ LoopInv'
  BY <1>1 DEF ProgressCounts, Filled, LoopInv
<1> QED
  BY <1>3, <1>4, <1>5, <1>6 DEF IInv

THEOREM Invariance == Spec => []IInv
PROOF
<1>1. IInv /\ [Next]_vars => IInv'
  <2> SUFFICES ASSUME IInv, [Next]_vars PROVE IInv'
    OBVIOUS
  <2>1. CASE Start
    BY <2>1, StartInv
  <2>2. CASE EndFill
    BY <2>2, EndFillInv
  <2>3. ASSUME NEW d \in Deps, Take(d) PROVE IInv'
    BY <2>3, TakeInv
  <2>4. CASE UNCHANGED vars
    BY <2>4 DEF vars, IInv, TypeOK, BoundedConcurrency, Limit, OwnSlot, ProgressCounts, LoopInv
  <2> QED
    BY <2>1, <2>2, <2>3, <2>4 DEF Next
<1> QED
  BY InitInv, <1>1, PTL DEF Spec

-----------------------------------------------------------------------------
\* Never more requests at a time than --concurrency allows.
THEOREM ConcurrencyBounded == Spec => []BoundedConcurrency
PROOF BY Invariance, PTL DEF IInv

\* No answer lands in the slot of another dependency.
THEOREM SlotsOwned == Spec => []OwnSlot
PROOF BY Invariance, PTL DEF IInv

\* The indicator counts exactly the slots that are filled.
THEOREM ProgressRight == Spec => []ProgressCounts
PROOF BY Invariance, PTL DEF IInv

\* The loop implements SignalCollection: every step fills one empty slot with an
\* answer of its own, or hands the full list over, or changes nothing of them.
THEOREM Refinement == Spec => Collects
PROOF
<1>1. Init => Collection!Init
  BY DEF Init, Collection!Init
<1>2. IInv /\ [Next]_vars => [Collection!Next]_<<results, pc = "done">>
  <2> SUFFICES ASSUME IInv, [Next]_vars
               PROVE  Collection!Next \/ UNCHANGED <<results, pc = "done">>
    OBVIOUS
  <2>1. CASE Start
    BY <2>1 DEF Start
  <2>2. CASE EndFill
    <3>1. CASE pc' = "done"
      <4>1. next > N /\ inFlight = {}
        BY <2>2, <3>1 DEF EndFill
      <4>2. \A d \in Deps : results[d] # Default
        BY <4>1, AnswerIsNoDefault, GatherAssumption DEF IInv, TypeOK, OwnSlot, Deps
      <4>3. Collection!Close
        BY <2>2, <3>1, <4>2 DEF EndFill, Collection!Close
      <4> QED
        BY <4>3 DEF Collection!Next
    <3>2. CASE pc' # "done"
      BY <2>2, <3>2 DEF EndFill
    <3> QED
      BY <3>1, <3>2
  <2>3. ASSUME NEW d \in Deps, Take(d) PROVE Collection!Next
    <3>1. results[d] = Default
      BY <2>3 DEF Take, IInv, OwnSlot
    <3>2. Collection!Collect(d)
      BY <2>3, <3>1 DEF Take, Collection!Collect
    <3> QED
      BY <3>2 DEF Collection!Next
  <2>4. CASE UNCHANGED vars
    BY <2>4 DEF vars
  <2> QED
    BY <2>1, <2>2, <2>3, <2>4 DEF Next
<1> QED
  BY <1>1, <1>2, Invariance, PTL DEF Spec, Collects, Collection!Spec

\* What is left to do: a position has a turn to be started and one to be taken, and
\* each of these, and the end, has the end of a fill before it.
ToGo == 3 * (N + 1 - next) + 2 * Cardinality(inFlight) + (IF pc = "fill" THEN 1 ELSE 0)

LEMMA ToGoCounts ==
  ASSUME IInv
  PROVE  /\ Cardinality(inFlight) \in Nat /\ ToGo \in Nat
         /\ ToGo = 0 <=> pc = "done"
PROOF
<1>1. /\ next \in 1 .. N + 1 /\ N \in Nat /\ next \in Nat
      /\ inFlight \in SUBSET Deps
  BY GatherAssumption DEF IInv, TypeOK, Deps
<1>2. Cardinality(inFlight) \in Nat
  BY <1>1, PositionsFinite
<1>3. ToGo \in Nat
  BY <1>1, <1>2 DEF ToGo
<1>4. ASSUME pc = "done" PROVE ToGo = 0
  <2>1. inFlight = {} /\ next > N
    BY <1>4 DEF IInv, LoopInv
  <2>2. Cardinality(inFlight) = 0
    BY <2>1, FS_EmptySet
  <2>3. next = N + 1
    BY <1>1, <2>1
  <2> QED
    BY <1>1, <1>4, <2>2, <2>3 DEF ToGo
<1>5. ASSUME pc # "done" PROVE ToGo # 0
  <2>1. CASE pc = "fill"
    BY <1>1, <1>2, <2>1 DEF ToGo
  <2>2. CASE pc = "await"
    <3>1. Cardinality(inFlight) # 0
      BY <1>1, <2>2, PositionsFinite, FS_EmptySet DEF IInv, LoopInv
    <3> QED
      BY <1>1, <1>2, <2>2, <3>1 DEF ToGo
  <2> QED
    BY <1>5, <2>1, <2>2 DEF IInv, TypeOK
<1> QED
  BY <1>2, <1>3, <1>4, <1>5

\* The ranking behind Reports, which needs the executor's fairness and so stays with
\* TLC: no turn of the loop of gather_signals is wasted (for --concurrency 0 neither),
\* and after 3 * N + 1 of them it is over.
THEOREM EveryTurnCounts ==
  Spec => [](ToGo \in Nat /\ (ToGo = 0 <=> pc = "done")) /\ [][ToGo' = ToGo - 1]_vars
PROOF
<1>1. IInv => ToGo \in Nat /\ (ToGo = 0 <=> pc = "done")
  BY ToGoCounts
<1>2. IInv /\ IInv' /\ [Next]_vars => [ToGo' = ToGo - 1]_vars
  <2> SUFFICES ASSUME IInv, IInv', Next PROVE ToGo' = ToGo - 1
    OBVIOUS
  <2>1. /\ next \in 1 .. N + 1 /\ N \in Nat /\ next \in Nat
        /\ inFlight \subseteq 1 .. next - 1 /\ inFlight \in SUBSET Deps
        /\ Cardinality(inFlight) \in Nat /\ IsFiniteSet(inFlight)
    BY GatherAssumption, ToGoCounts, PositionsFinite DEF IInv, TypeOK, Deps
  <2>2. CASE Start
    <3>1. next \notin inFlight
      BY <2>1
    <3>2. Cardinality(inFlight') = Cardinality(inFlight) + 1
      BY <2>1, <2>2, <3>1, FS_AddElement DEF Start
    <3> QED
      BY <2>1, <2>2, <3>2 DEF Start, ToGo
  <2>3. CASE EndFill
    <3>1. inFlight = {} => next > N
      BY <2>1, <2>3, FS_EmptySet, LimitPositive DEF EndFill, IInv, TypeOK
    <3>2. pc = "fill" /\ pc' # "fill" /\ UNCHANGED <<next, inFlight>>
      BY <2>3, <3>1 DEF EndFill
    <3> QED
      BY <2>1, <3>2 DEF ToGo
  <2>4. ASSUME NEW d \in Deps, Take(d) PROVE ToGo' = ToGo - 1
    <3>1. Cardinality(inFlight') = Cardinality(inFlight) - 1
      BY <2>1, <2>4, FS_RemoveElement DEF Take
    <3> QED
      BY <2>1, <2>4, <3>1 DEF Take, ToGo
  <2> QED
    BY <2>2, <2>3, <2>4 DEF Next
<1> QED
  BY <1>1, <1>2, Invariance, PTL DEF Spec

\* The other half: the loop awaits an answer (in_flight.next().await) only when some
\* future can give one.
THEOREM NeverAwaitsNothing ==
  Spec => [](pc = "await" => \E d \in inFlight : d \in Deps /\ AnswersTo(d) # {})
PROOF
<1>1. ASSUME IInv, pc = "await"
      PROVE  \E d \in inFlight : d \in Deps /\ AnswersTo(d) # {}
  <2>t. /\ next \in 1 .. N + 1 /\ N \in Nat
        /\ inFlight \subseteq 1 .. next - 1 /\ inFlight \in SUBSET Deps /\ inFlight # {}
    BY <1>1, GatherAssumption DEF IInv, TypeOK, LoopInv, Deps
  <2>1. PICK d \in inFlight : d \in Deps
    BY <2>t
  <2>2. Said(d, Nothing) \in AnswersTo(d)
    BY DEF AnswersTo
  <2> QED
    BY <2>1, <2>2
<1> QED
  BY <1>1, Invariance, PTL

-----------------------------------------------------------------------------
\* The whole scan.

\* Whatever the indicator does, the loop makes steps of Gather or none.
THEOREM ScanIsGather == ScanSpec => Spec
PROOF
<1>1. ScanInit => Init
  BY DEF ScanInit
<1>2. [ScanNext]_scanVars => [Next]_vars
  BY DEF ScanNext, Loop, Report, Tick, Next, scanVars
<1> QED
  BY <1>1, <1>2, PTL DEF ScanSpec, Spec

Entries == [what : {"frame", "clear", "report"}, count : Nat]
IsFrame(i) == drawn[i].what = "frame"

\* What has been drawn is a sequence of lines in the order of their counts, none
\* above the count read last, which is not above the counter.
LineInv ==
  /\ drawn \in Seq(Entries)
  /\ read \in Nat /\ progress \in Nat /\ read <= progress
  /\ \A i \in 1 .. Len(drawn) : IsFrame(i) => drawn[i].count <= read
  /\ \A i, j \in 1 .. Len(drawn) :
       i < j /\ IsFrame(i) /\ IsFrame(j) => drawn[i].count <= drawn[j].count

\* Every line has a number.
LEMMA Counted ==
  ASSUME LineInv
  PROVE  DOMAIN drawn = 1 .. Len(drawn) /\ \A i \in 1 .. Len(drawn) : drawn[i].count \in Nat
PROOF
<1>1. DOMAIN drawn = 1 .. Len(drawn) /\ \A i \in 1 .. Len(drawn) : drawn[i] \in Entries
  BY DEF LineInv
<1> QED
  BY <1>1 DEF Entries

LEMMA LineInit == ScanInit => LineInv
PROOF BY DEF ScanInit, Init, Line!Init, LineInv, IsFrame

LEMMA LineStep == LineInv /\ [ScanNext]_scanVars => LineInv'
PROOF
<1> SUFFICES ASSUME LineInv, [ScanNext]_scanVars PROVE LineInv'
  OBVIOUS
<1> USE DEF LineInv, IsFrame
<1>1. ASSUME NEW entry \in Entries,
             drawn' = Append(drawn, entry), UNCHANGED <<read, progress>>,
             entry.what = "frame" => entry.count = read
      PROVE  LineInv'
  BY <1>1
<1>2. ASSUME UNCHANGED drawn, read' \in Nat, progress' \in Nat,
             read <= read', read' <= progress'
      PROVE  LineInv'
  BY <1>2, Counted
<1>3. CASE (Start \/ EndFill) /\ UNCHANGED lineVars
  BY <1>3, <1>2 DEF Start, EndFill, lineVars
<1>4. CASE \E d \in Deps : Take(d) /\ Line!Inc
  BY <1>4, <1>2 DEF Line!Inc
<1>5. CASE Report
  <2>1. CASE Line!Abort
    BY <2>1, <1>2 DEF Line!Abort
  <2>2. CASE Line!ClearLine
    BY <2>2, <1>5, <1>1 DEF Entries, Line!ClearLine, Line!Clear, Report, vars
  <2>3. CASE Line!StartReport
    BY <2>3, <1>5, <1>1 DEF Entries, Line!StartReport, Line!Report, Report, vars
  <2> QED
    BY <1>5, <2>1, <2>2, <2>3 DEF Report, Line!Finish
<1>6. CASE Tick
  <2>1. CASE Line!Wake
    BY <2>1, <1>6, <1>2 DEF Line!Wake, Tick, vars
  <2>2. CASE Line!Count
    BY <2>2, <1>6, <1>2 DEF Line!Count, Tick, vars
  <2>3. CASE Line!Redraw
    BY <2>3, <1>6, <1>1 DEF Entries, Line!Redraw, Line!Draw, Tick, vars
  <2> QED
    BY <1>6, <2>1, <2>2, <2>3 DEF Tick, Line!Ticker
<1>7. CASE UNCHANGED scanVars
  BY <1>7, <1>2 DEF scanVars, vars, lineVars
<1> QED
  BY <1>3, <1>4, <1>5, <1>6, <1>7 DEF ScanNext, Loop

\* The number shown on the line never goes back and never exceeds the answers
\* taken, however the ticker's thread and the loop's interleave.
THEOREM CountsUp == ScanSpec => []CountNeverGoesBack
PROOF
<1>1. LineInv => CountNeverGoesBack
  BY Counted DEF LineInv, IsFrame, CountNeverGoesBack, Line!CountNeverGoesBack
<1> QED
  BY LineInit, LineStep, <1>1, PTL DEF ScanSpec

-----------------------------------------------------------------------------
\* Lines of the ticker after the line was cleared: there are some only while the
\* ticker waits or is gone, and the abort was before them.
LateInv ==
  /\ drawn \in Seq(Entries)
  /\ main \in {"working", "clearing"} => \A i \in 1 .. Len(drawn) : drawn[i] # Line!Clear
  /\ main # "working" => aborted
  /\ \A i, j \in 1 .. Len(drawn) :
       drawn[i] = Line!Clear /\ i < j /\ IsFrame(j) => ticker \in {"asleep", "gone"}
  /\ \A i, j, k \in 1 .. Len(drawn) :
       drawn[i] = Line!Clear /\ i < j /\ j < k => ~IsFrame(j) \/ ~IsFrame(k)

LEMMA LateInit == ScanInit => LateInv
PROOF BY DEF ScanInit, Line!Init, LateInv, IsFrame

LEMMA LateStep == LineInv /\ LateInv /\ [ScanNext]_scanVars => LateInv'
PROOF
<1> SUFFICES ASSUME LineInv, LateInv, [ScanNext]_scanVars PROVE LateInv'
  OBVIOUS
<1> USE DEF LateInv, IsFrame, Line!Clear
<1>1. CASE UNCHANGED <<drawn, main, aborted, ticker>>
  BY <1>1
<1>2. CASE (Start \/ EndFill) /\ UNCHANGED lineVars
  BY <1>2, <1>1 DEF lineVars
<1>3. CASE \E d \in Deps : Take(d) /\ Line!Inc
  BY <1>3, <1>1 DEF Line!Inc
<1>4. CASE Line!Abort
  BY <1>4 DEF Line!Abort
<1>5. CASE Line!ClearLine
  BY <1>5 DEF Entries, Line!ClearLine
<1>6. CASE Line!StartReport
  BY <1>6 DEF Entries, Line!StartReport, Line!Report
<1>7. CASE Line!Wake
  BY <1>7 DEF Line!Wake
<1>8. CASE Line!Count
  BY <1>8 DEF Line!Count
<1>9. CASE Line!Redraw
  <2>1. Line!Draw(read) \in Entries
    BY DEF Entries, Line!Draw, LineInv
  <2> QED
    BY <1>9, <2>1 DEF Line!Redraw, Line!Draw
<1>10. CASE UNCHANGED scanVars
  BY <1>10, <1>1 DEF scanVars, lineVars
<1> QED
  BY <1>2, <1>3, <1>4, <1>5, <1>6, <1>7, <1>8, <1>9, <1>10
  DEF ScanNext, Loop, Report, Tick, Line!Finish, Line!Ticker

\* A ticker that was stopped draws over the cleared line once at most.
THEOREM OneLateFrame == ScanSpec => []AtMostOneLateFrame
PROOF
<1>1. LateInv => AtMostOneLateFrame
  BY DEF LateInv, IsFrame, Entries, AtMostOneLateFrame, Line!AtMostOneLateFrame
<1> QED
  BY LineInit, LineStep, LateInit, LateStep, <1>1, PTL DEF ScanSpec
=============================================================================
