------------------------------ MODULE DfsProofs ------------------------------
(***************************************************************************)
(* Proofs about maze_solver_dfs.c for mazes of every size: the stack only   *)
(* hands out positions that were pushed, so that the invariant of           *)
(* SearchProofs holds of the whole program; and since no push is lost, an   *)
(* answer NOT_FOUND is right.                                               *)
(***************************************************************************)
EXTENDS MazeProgram, SearchProofs, SequenceTheorems

\* The stack holds positions that were pushed; there is one during the search.
Waiting ==
    /\ stack \in Seq(Indices)
    /\ \A k \in 1..Len(stack) : stack[k] \in Pushed
    /\ pc \in {"create_visitarray", "push_start", "loop", "examine"} => live
    /\ live \in BOOLEAN
    /\ peak \in Nat
    /\ result \in Int
    /\ aborted \in BOOLEAN

OnStack(x) == \E k \in 1..Len(stack) : stack[k] = x

\* What has been found is on the stack, in hand or visited.
NoLoss ==
    pc \in {"loop", "examine"} =>
        /\ \A x \in Indices : maze[x] = TO_VISIT => OnStack(x) \/ InHand(x)
        /\ maze[start_index] = VISITED \/ OnStack(start_index) \/ InHand(start_index)

IInv == SInv /\ Waiting /\ FreedOnReturn /\ Covering /\ NoLoss /\ NotFoundIsRight

-----------------------------------------------------------------------------
(* The stack *)

\* A step that leaves the stack alone.
LEMMA WaitingKept ==
  ASSUME Waiting, UNCHANGED stackVars, Pushed \subseteq Pushed',
         pc' \in {"create_visitarray", "push_start", "loop", "examine"} => live
  PROVE  Waiting'
<1>1. UNCHANGED <<stack, live, peak, result, aborted>>
  BY DEF stackVars
<1> QED
  BY <1>1 DEF Waiting

\* A push of a position that is recorded.
LEMMA WaitingPush ==
  ASSUME Waiting, live, NEW x \in Indices, x \in Pushed', Pushed \subseteq Pushed',
         L!Push(x)
  PROVE  /\ Waiting'
         /\ \A y \in Indices : OnStack(y) \/ y = x => OnStack(y)'
<1>1. /\ stack' = Append(stack, x)
      /\ peak' = L!AtLeast(peak, Len(stack) + 1)
      /\ result' = 0
      /\ UNCHANGED <<live, aborted>>
  BY DEF L!Push
<1>2. /\ stack' \in Seq(Indices)
      /\ Len(stack') = Len(stack) + 1
      /\ \A k \in 1..Len(stack) : stack'[k] = stack[k]
      /\ stack'[Len(stack) + 1] = x
  BY <1>1, AppendProperties DEF Waiting
<1>3. Len(stack) \in Nat /\ peak' \in Nat
  BY <1>1, LenProperties DEF Waiting, L!AtLeast
<1>4. ASSUME NEW k \in 1..Len(stack') PROVE stack'[k] \in Pushed'
  <2>1. k \in 1..Len(stack) \/ k = Len(stack) + 1
    BY <1>2, <1>3
  <2> QED
    BY <1>2, <2>1 DEF Waiting
<1> QED
  BY <1>1, <1>2, <1>3, <1>4 DEF Waiting, OnStack

\* The position taken is one that waited; the others still do.
LEMMA WaitingPop ==
  ASSUME Waiting, stack # <<>>, L!Pop, Pushed' = Pushed,
         pc' \in {"create_visitarray", "push_start", "loop", "examine"} => live
  PROVE  /\ Waiting'
         /\ result' \in Pushed
         /\ \A y \in Indices : OnStack(y) => OnStack(y)' \/ y = result'
<1>1. /\ result' = stack[Len(stack)]
      /\ stack' = SubSeq(stack, 1, Len(stack) - 1)
      /\ UNCHANGED <<live, peak, aborted>>
  BY DEF L!Pop, L!Top, L!Below
<1>2. Len(stack) \in Nat /\ Len(stack) >= 1
  BY LenProperties, EmptySeq DEF Waiting
<1>3. /\ stack' \in Seq(Indices)
      /\ Len(stack') = Len(stack) - 1
      /\ \A k \in 1..(Len(stack) - 1) : stack'[k] = stack[k]
  <2>1. ASSUME NEW k \in 1..(Len(stack) - 1) PROVE stack[k] \in Indices
    <3>1. k \in 1..Len(stack)
      BY <1>2
    <3> QED
      BY <3>1, ElementOfSeq DEF Waiting
  <2> DEFINE below == SubSeq(stack, 1, Len(stack) - 1)
  <2>2. stack' = below
    BY <1>1
  <2>3. /\ below \in Seq(Indices)
        /\ Len(below) = IF 1 <= Len(stack) - 1 THEN Len(stack) - 1 - 1 + 1 ELSE 0
        /\ \A k \in 1..(Len(stack) - 1 - 1 + 1) : below[k] = stack[1 + k - 1]
    <3>1. Len(stack) - 1 \in Int /\ 1 \in Int
      BY <1>2
    <3> QED
      BY <2>1, <3>1, SubSeqProperties
  <2> HIDE DEF below
  <2>4. Len(below) = Len(stack) - 1
    <3>1. \A m \in Nat : m >= 1 => (IF 1 <= m - 1 THEN m - 1 - 1 + 1 ELSE 0) = m - 1
      OBVIOUS
    <3> QED
      BY <1>2, <2>3, <3>1
  <2>5. ASSUME NEW k \in 1..(Len(stack) - 1) PROVE below[k] = stack[k]
    <3>1. k \in 1..(Len(stack) - 1 - 1 + 1) /\ 1 + k - 1 = k
      BY <1>2
    <3> QED
      BY <2>3, <3>1
  <2> QED
    BY <2>2, <2>3, <2>4, <2>5
<1>4. result' \in Pushed /\ result' \in Int
  <2>1. Len(stack) \in 1..Len(stack)
    BY <1>2
  <2>2. stack[Len(stack)] \in Indices /\ stack[Len(stack)] \in Pushed
    BY <2>1, ElementOfSeq DEF Waiting
  <2> QED
    BY <1>1, <2>2 DEF Indices
<1>5. ASSUME NEW y \in Indices, OnStack(y) PROVE OnStack(y)' \/ y = result'
  <2>1. PICK k \in 1..Len(stack) : stack[k] = y
    BY <1>5 DEF OnStack
  <2> QED
    BY <1>1, <1>2, <1>3, <2>1 DEF OnStack
<1>6. \A k \in 1..Len(stack') : stack'[k] \in Pushed'
  BY <1>2, <1>3 DEF Waiting
<1> QED
  BY <1>1, <1>3, <1>4, <1>5, <1>6 DEF Waiting

LEMMA WaitingClosed == ASSUME Waiting, L!Close, pc' = "done" PROVE Waiting'
<1>1. stack' = <<>> /\ live' = FALSE /\ peak' = 0 /\ UNCHANGED <<result, aborted>>
  BY DEF L!Close
<1>2. stack' \in Seq(Indices) /\ Len(stack') = 0
  BY <1>1, EmptySeq
<1>3. \A k \in 1..Len(stack') : stack'[k] \in Pushed'
  BY <1>2
<1> QED
  BY <1>1, <1>2, <1>3 DEF Waiting

-----------------------------------------------------------------------------
(* Nothing is lost *)

\* NoLoss says nothing once the search is over.
LEMMA NoLossElsewhere == ASSUME pc' \notin {"loop", "examine"} PROVE NoLoss'
  BY DEF NoLoss

\* The position on top is taken in hand.
LEMMA NoLossPopped ==
  ASSUME SInv, NoLoss, NEW index \in Pushed, Popped(index),
         \A y \in Indices : OnStack(y) => OnStack(y)' \/ y = index
  PROVE  NoLoss'
<1>1. /\ pc = "loop" /\ current_index' = index
      /\ pc' \in {"found", "examine"}
      /\ UNCHANGED <<maze, start_index>>
  BY DEF Popped, input
<1>2. CASE pc' = "found"
  BY <1>2, NoLossElsewhere
<1>3. CASE pc' = "examine"
  <2>1. \A x \in Indices : OnStack(x) \/ InHand(x) => OnStack(x)' \/ InHand(x)'
    BY <1>1, <1>3 DEF InHand
  <2> QED
    BY <1>1, <2>1 DEF NoLoss, SInv, Posed
<1> QED
  BY <1>1, <1>2, <1>3

\* A neighbour has been examined: it is on the stack if it was pushed.
LEMMA NoLossExamined ==
  ASSUME SInv, NoLoss, pc = "examine", maze'[current_index] = VISITED,
         UNCHANGED <<start_index, current_index>>,
         \A x \in Indices \ {current_index} :
            (maze'[x] # maze[x] /\ maze[x] # VISITED) \/ OnStack(x) => OnStack(x)',
         \A x \in Indices : maze[x] = VISITED => maze'[x] = VISITED
  PROVE  NoLoss'
<1>1. start_index \in Indices
  BY DEF SInv, Posed
<1>2. \A x \in Indices : maze'[x] = TO_VISIT => x # current_index /\ OnStack(x)'
  BY MazeAssumption DEF NoLoss, InHand
<1>3. maze'[start_index] = VISITED \/ OnStack(start_index)'
  BY <1>1 DEF NoLoss, InHand
<1> QED
  BY <1>2, <1>3 DEF NoLoss

-----------------------------------------------------------------------------
(* The steps of the solver *)

\* At the start there is no stack and nothing is marked.
LEMMA StartKeeps == StartOfSearch /\ L!Init => IInv
<1> SUFFICES ASSUME StartOfSearch, L!Init PROVE IInv
  OBVIOUS
<1>1. SInv /\ FreedOnReturn /\ NotFoundIsRight
  BY StartInv DEF StartOfSearch, FreedOnReturn, NotFoundIsRight
<1>2. Waiting
  <2>1. stack \in Seq(Indices) /\ Len(stack) = 0
    BY EmptySeq DEF L!Init
  <2>2. pc = "frontier_init"
    BY DEF StartOfSearch
  <2>3. \A k \in 1..Len(stack) : stack[k] \in Pushed
    BY <2>1
  <2>4. peak \in Nat /\ result \in Int
    BY DEF L!Init
  <2>5. live \in BOOLEAN /\ aborted \in BOOLEAN
    BY DEF L!Init
  <2> QED
    BY <2>1, <2>2, <2>3, <2>4, <2>5 DEF Waiting
<1>3. Covering /\ NoLoss
  BY CoveringAtStart DEF StartOfSearch, NoLoss
<1> QED
  BY <1>1, <1>2, <1>3 DEF IInv

LEMMA InitInv == ASSUME AllWellPosed PROVE Init => IInv
  BY SearchInitInv, StartKeeps DEF Init

LEMMA BeginKeeps == ASSUME IInv, Begin PROVE IInv'
<1> USE DEF IInv
<1>1. NoFrontier \/ HaveFrontier \/ create_visitarray \/ StartPushed
  BY DEF Begin
<1>2. SInv'
  BY <1>1, BeginInv
<1>3. UNCHANGED <<visitarray, start_index, finish_index, maze>>
  BY <1>1 DEF NoFrontier, HaveFrontier, create_visitarray, StartPushed, input,
     search
<1>4. Pushed' = Pushed
  BY <1>3, PushedKept
<1>5. FreedOnReturn' /\ NotFoundIsRight'
  <2>1. outcome' \in {"none", "ERROR"}
    BY <1>1 DEF NoFrontier, HaveFrontier, create_visitarray, StartPushed, Return,
       SInv
  <2> QED
    BY <2>1, FreedElsewhere, RightElsewhere
<1>6. Covering'
  BY <1>1, CoveringBegins
<1>7. CASE NoFrontier /\ UNCHANGED stackVars
  <2>1. pc' = "done"
    BY <1>7 DEF NoFrontier, Return
  <2> QED
    BY <1>2, <1>4, <1>5, <1>7, <1>6, <2>1, WaitingKept, NoLossElsewhere
<1>8. CASE HaveFrontier /\ L!Create
  <2>1. pc = "frontier_init" /\ pc' = "create_visitarray"
    BY <1>8 DEF HaveFrontier
  <2>2. NoLoss'
    BY <2>1, NoLossElsewhere
  <2>3. Waiting'
    <3>1. stack' \in Seq(Indices) /\ Len(stack') = 0
      BY <1>8, EmptySeq DEF L!Create
    <3>2. \A k \in 1..Len(stack') : stack'[k] \in Pushed'
      BY <3>1
    <3> QED
      BY <1>8, <3>1, <3>2 DEF L!Create, Waiting
  <2> QED
    BY <1>2, <1>5, <1>6, <2>2, <2>3
<1>9. CASE create_visitarray /\ UNCHANGED stackVars
  <2>1. pc = "create_visitarray" /\ pc' \in {"push_start", "done"}
    BY <1>9 DEF create_visitarray, Return
  <2>2. NoLoss'
    BY <2>1, NoLossElsewhere
  <2>3. Waiting'
    BY <1>4, <1>9, <2>1, WaitingKept DEF Waiting
  <2> QED
    BY <1>2, <1>5, <1>6, <2>2, <2>3
<1>10. CASE StartPushed /\ L!Push(round_trip(start_index))
  <2>1. pc = "push_start" /\ pc' = "loop"
    BY <1>10 DEF StartPushed
  <2>2. /\ round_trip(start_index) = start_index
        /\ start_index \in Indices /\ finish_index \in Indices
        /\ start_index \in Pushed
    BY IndexToRowCol DEF SInv, Posed, Pushed
  <2>3. live
    BY <2>1 DEF Waiting
  <2>4. Waiting' /\ (\A y \in Indices : OnStack(y) \/ y = start_index => OnStack(y)')
    BY <1>4, <1>10, <2>2, <2>3, WaitingPush
  <2>5. NoLoss'
    <3>1. OnStack(start_index)'
      BY <1>3, <2>2, <2>4 DEF OnStack
    <3>2. \A x \in Indices : maze'[x] \notin {VISITED, TO_VISIT}
      BY <1>3, <2>1 DEF Covering
    <3> QED
      BY <2>1, <3>1, <3>2 DEF NoLoss
  <2> QED
    BY <1>2, <1>5, <1>6, <2>4, <2>5
<1> QED
  BY <1>7, <1>8, <1>9, <1>10 DEF Begin

LEMMA TakeNextKeeps == ASSUME IInv, TakeNext PROVE IInv'
<1> USE DEF IInv
<1>1. CASE stack # <<>> /\ L!Pop /\ Popped(result')
  <2>1. Pushed' = Pushed /\ pc = "loop"
    BY <1>1, PushedKept DEF Popped, input
  <2>2. /\ Waiting'
        /\ result' \in Pushed
        /\ \A y \in Indices : OnStack(y) => OnStack(y)' \/ y = result'
    BY <1>1, <2>1, WaitingPop DEF Waiting
  <2>3. SInv'
    BY <1>1, <2>2, PoppedInv
  <2>4. NoLoss'
    BY <1>1, <2>2, NoLossPopped
  <2>5. outcome' = outcome /\ outcome = "none" /\ heap' = heap
    BY <1>1, <2>1 DEF Popped, SInv
  <2> QED
    BY <1>1, <2>2, <2>3, <2>4, <2>5, CoveringPopped, FreedElsewhere, RightElsewhere
<1>2. CASE stack = <<>> /\ NotFound /\ L!Close
  <2>1. pc = "loop" /\ pc' = "done"
    BY <1>2 DEF NotFound, Return
  <2>2. maze[start_index] = VISITED /\ \A x \in Indices : maze[x] # TO_VISIT
    BY <1>2, <2>1 DEF NoLoss, OnStack, InHand, SInv, Posed
  <2> QED
    BY <1>2, <2>1, <2>2, NotFoundInv, WaitingClosed, FreedWhenAnswered,
       NoLossElsewhere, CoveringAfter, NotFoundRight
<1> QED
  BY <1>1, <1>2 DEF TakeNext

\* A step that is stopped for lack of memory.
LEMMA CrashKeeps == ASSUME IInv, L!Crash, UNCHANGED searchVars PROVE IInv'
<1> USE DEF IInv
<1>1. /\ UNCHANGED <<stack, live, peak, result>> /\ aborted' = TRUE
      /\ UNCHANGED <<pc, maze, start_index, finish_index, visitarray,
                     current_index, i, outcome, heap>>
  BY DEF L!Crash, searchVars, input, search
<1>2. Pushed' = Pushed /\ Walls' = Walls
  BY <1>1, PushedKept DEF Walls
<1>3. Waiting'
  BY <1>1, <1>2 DEF Waiting
<1>4. NoLoss' /\ Covering'
  BY <1>1, <1>2, CoveringKept DEF NoLoss, OnStack, InHand
<1>5. NotFoundIsRight'
  BY <1>1, <1>2 DEF NotFoundIsRight
<1> QED
  BY <1>1, <1>3, <1>4, <1>5, StutterInv, FreedElsewhere

LEMMA ExamineKeeps == ASSUME IInv, Examine PROVE IInv'
<1> USE DEF IInv
<1>1. CASE ExamineFails
  BY <1>1, ExamineFailsInv
<1>2. CASE ExamineSkips /\ UNCHANGED stackVars
  <2>1. /\ pc = "examine" /\ ~Fresh /\ NextDirection
        /\ maze' = [maze EXCEPT ![current_index] = VISITED]
        /\ UNCHANGED <<start_index, finish_index, visitarray, current_index,
                       outcome, heap>>
    BY <1>2 DEF ExamineSkips, input
  <2>2. maze \in [Indices -> Marks] /\ Pushed' = Pushed
    BY <2>1, PushedKept DEF SInv, SearchTypeOK
  <2>3. Waiting'
    BY <1>2, <2>1, <2>2, WaitingKept DEF Waiting
  <2>4. NoLoss'
    <3>1. \A x \in Indices : OnStack(x) => OnStack(x)'
      BY <1>2 DEF stackVars, OnStack
    <3>2. /\ maze'[current_index] = VISITED
          /\ \A x \in Indices \ {current_index} : maze'[x] = maze[x]
      BY <2>1, <2>2, Examining
    <3> QED
      BY <2>1, <3>1, <3>2, NoLossExamined
  <2>5. outcome' = "none"
    BY <2>1 DEF SInv
  <2> QED
    BY <1>2, <2>3, <2>4, <2>5, ExamineSkipsInv, CoveringExamines, FreedElsewhere,
       RightElsewhere
<1>3. CASE ExaminePushes /\ L!Push(new_index)
  <2>1. /\ pc = "examine" /\ NextDirection
        /\ maze' = [maze EXCEPT ![current_index] = VISITED,
                                ![new_index] = TO_VISIT]
        /\ UNCHANGED <<start_index, finish_index, current_index, outcome, heap>>
    BY <1>3 DEF ExaminePushes, pushed_mark, input
  <2>2. Pushed' = Pushed \cup {new_index} /\ new_index \in Indices
    BY <1>3, PushedGrows
  <2>3. live
    BY <2>1 DEF Waiting
  <2>4. /\ Waiting'
        /\ \A y \in Indices : OnStack(y) \/ y = new_index => OnStack(y)'
    BY <1>3, <2>2, <2>3, WaitingPush
  <2>5. NoLoss'
    <3>1. maze \in [Indices -> Marks] /\ current_index # new_index
      BY <2>1, Examining
    <3>2. /\ maze'[current_index] = VISITED
          /\ \A x \in Indices \ {current_index, new_index} : maze'[x] = maze[x]
      BY <2>1, <2>2, <3>1, Examining
    <3>3. maze[new_index] # VISITED
      BY <1>3 DEF ExaminePushes, Fresh
    <3> QED
      BY <2>1, <2>2, <2>4, <3>2, <3>3, NoLossExamined
  <2>6. outcome' = "none"
    BY <2>1 DEF SInv
  <2> QED
    BY <1>3, <2>4, <2>5, <2>6, ExaminePushesInv, CoveringExamines, FreedElsewhere,
       RightElsewhere
<1>4. CASE PushCrashes
  BY <1>4, CrashKeeps DEF PushCrashes
<1> QED
  BY <1>1, <1>2, <1>3, <1>4 DEF Examine

LEMMA BacktrackKeeps == ASSUME IInv, Backtrack PROVE IInv'
<1> USE DEF IInv
<1>1. CASE BacktrackStart /\ UNCHANGED stackVars
  <2>1. /\ pc = "found" /\ pc' = "backtrack"
        /\ UNCHANGED <<visitarray, start_index, outcome, heap>>
    BY <1>1 DEF BacktrackStart, input, search
  <2>2. Pushed' = Pushed /\ outcome' = "none"
    BY <2>1, PushedKept DEF SInv
  <2> QED
    BY <1>1, <2>1, <2>2, BacktrackStartInv, WaitingKept, FreedElsewhere,
       RightElsewhere, NoLossElsewhere, CoveringAfter
<1>2. CASE BacktrackStep /\ UNCHANGED stackVars
  <2>1. SInv'
    BY <1>2, BacktrackStepInv
  <2>2. /\ pc = "backtrack" /\ pc' \in {"backtrack", "done"}
        /\ UNCHANGED <<visitarray, start_index>>
        /\ outcome' = outcome \/ outcome' = "assert"
        /\ heap' = heap
    BY <1>2 DEF BacktrackStep, AssertionFails, Return, input, search
  <2>3. outcome' = "none"
    BY <2>1, <2>2 DEF SInv
  <2>4. Pushed' = Pushed
    BY <2>2, PushedKept
  <2>5. Waiting'
    BY <1>2, <2>2, <2>4, WaitingKept
  <2> QED
    BY <2>1, <2>2, <2>3, <2>5, FreedElsewhere, RightElsewhere, NoLossElsewhere, CoveringAfter
<1>3. CASE BacktrackEnd /\ L!Close
  <2>1. pc' = "done" /\ outcome' = "length"
    BY <1>3 DEF BacktrackEnd, Return
  <2> QED
    BY <1>3, <2>1, BacktrackEndInv, WaitingClosed, FreedWhenAnswered,
       RightElsewhere, NoLossElsewhere, CoveringAfter
<1> QED
  BY <1>1, <1>2, <1>3 DEF Backtrack

LEMMA StutterKeeps == ASSUME IInv, UNCHANGED vars PROVE IInv'
<1> USE DEF IInv
<1>1. /\ UNCHANGED searchVars /\ UNCHANGED stackVars
      /\ UNCHANGED <<stack, pc, maze, start_index, finish_index, visitarray,
                     current_index, i, outcome, heap>>
  BY DEF vars, stackVars, searchVars, input, search
<1>2. Pushed' = Pushed /\ Walls' = Walls
  BY <1>1, PushedKept DEF Walls
<1>3. Waiting'
  BY <1>1, <1>2, WaitingKept DEF Waiting
<1>4. NoLoss' /\ Covering'
  BY <1>1, <1>2, CoveringKept DEF NoLoss, OnStack, InHand
<1>5. NotFoundIsRight'
  BY <1>1, <1>2 DEF NotFoundIsRight
<1> QED
  BY <1>1, <1>3, <1>4, <1>5, StutterInv, FreedElsewhere

LEMMA NextKeeps == ASSUME IInv, Next PROVE IInv'
  BY BeginKeeps, TakeNextKeeps, ExamineKeeps, BacktrackKeeps DEF Next

\* The invariant holds throughout.
LEMMA Invariance == ASSUME AllWellPosed PROVE Spec => []IInv
<1>1. Init => IInv
  BY InitInv
<1>2. IInv /\ [Next]_vars => IInv'
  BY NextKeeps, StutterKeeps
<1> QED
  BY <1>1, <1>2, PTL DEF Spec

-----------------------------------------------------------------------------
(* The theorems *)

\* Every variable keeps its type.
THEOREM TypeCorrect == ASSUME AllWellPosed PROVE Spec => []TypeOK
<1>1. IInv => TypeOK
  <2>1. Waiting => stack \in Seq(Int)
    <3>1. Indices \subseteq Int
      BY DEF Indices
    <3> QED
      BY <3>1, SeqMonotonic DEF Waiting
  <2> QED
    BY <2>1, SInvImplies DEF IInv, Waiting, TypeOK
<1> QED
  BY <1>1, Invariance, PTL

\* The visitarray is a tree of moves rooted at the start although a position that
\* waits may be pushed again and its entry overwritten; backtrack reads only
\* entries that were written and marks no position twice; the length returned is
\* that of the path marked.
THEOREM PathIsSound ==
  ASSUME AllWellPosed
  PROVE  Spec => [](VisitTree /\ BacktrackCounts /\ LengthIsPath)
<1>1. IInv => VisitTree /\ BacktrackCounts /\ LengthIsPath
  BY SInvImplies DEF IInv
<1> QED
  BY <1>1, Invariance, PTL

\* No assertion of maze_get or maze_set fails, and an answer leaves no block.
THEOREM SafeAndClean ==
  ASSUME AllWellPosed PROVE Spec => [](NoAssertion /\ FreedOnReturn)
<1>1. IInv => NoAssertion /\ FreedOnReturn
  BY SInvImplies DEF IInv
<1> QED
  BY <1>1, Invariance, PTL

\* Between two positions nothing is in hand: all that is marked waits.
LEMMA IInvImplies == IInv => NothingForgotten
<1> SUFFICES ASSUME IInv, pc = "loop" PROVE NothingForgotten
  BY DEF NothingForgotten
<1>1. \A x \in Indices : ~InHand(x)
  BY DEF InHand
<1>2. \A x, y \in Indices :
         maze[x] = VISITED /\ Move(Walls, x, y) => maze[y] \in {VISITED, TO_VISIT}
  BY <1>1, NeighboursMarked DEF IInv
<1>3. \A x \in Indices : maze[x] = TO_VISIT => OnStack(x)
  BY <1>1 DEF IInv, NoLoss
<1> QED
  BY <1>2, <1>3 DEF NothingForgotten, OnStack

\* Between two positions nothing that was found is lost.
THEOREM NoneForgotten == ASSUME AllWellPosed PROVE Spec => []NothingForgotten
<1> QED
  BY IInvImplies, Invariance, PTL

\* NOT_FOUND is answered only when no sequence of moves leads to the destination:
\* the visited positions show it.
THEOREM NotFoundIsSound ==
  ASSUME AllWellPosed
  PROVE  Spec => [](/\ NotFoundIsRight
                    /\ outcome = "NOT_FOUND" =>
                          Unreachable(Walls, start_index, finish_index))
<1>1. IInv => NotFoundIsRight
  BY DEF IInv
<1>2. NotFoundIsRight => (outcome = "NOT_FOUND" =>
                             Unreachable(Walls, start_index, finish_index))
  BY DEF NotFoundIsRight, Unreachable
<1> QED
  BY <1>1, <1>2, Invariance, PTL
-----------------------------------------------------------------------------
(* The program around the solver *)

\* The indices above row r at which the text has a character.
PlacesAbove(char, r) == {x \in Indices : maze_row(x) < r /\ CharAt(x) = char}

\* An index is the last mark of a character above row r, or the default.
LastMark(index, char, r, default) ==
    IF PlacesAbove(char, r) = {} THEN index = default
    ELSE /\ index \in PlacesAbove(char, r)
         /\ \A y \in PlacesAbove(char, r) : y <= index

\* The first r rows of the maze are those of the text.
RowsRead(r) ==
    /\ \A k \in 1..r : FullLine(k)
    /\ maze = [x \in Indices |-> IF maze_row(x) < r THEN set_value(CharAt(x))
                                 ELSE WALL]
    /\ LastMark(start_index, START, r, default_start)
    /\ LastMark(finish_index, DEST, r, default_finish)

\* What main holds, by where it is.
Holds(place) ==
    CASE place \in {"maze_read", "exit"} -> {}
      [] place = "maze_init" -> {"buf"}
      [] place = "maze_data" -> {"buf", "maze"}
      [] place \in {"row", "read", "abort"} -> {"buf", "maze", "data"}
      [] place = "dfs_solve" -> {"maze", "data"}

\* The rows read so far, and what is known of the line at hand.
Reading ==
    /\ text \in Texts
    /\ row \in 0..N
    /\ at \in {"maze_read", "maze_init", "maze_data"} => row = 0
    /\ starved \in {0, 1}
    /\ at \in {"maze_data", "row", "read", "abort"} => ncols = N
    /\ at \in {"row", "read"} => RowsRead(row)
    /\ at = "row" => getline(row + 1) = N + 1
    /\ at = "read" => getline(row + 1) # N + 1
    /\ at = "abort" => row < N /\ getline(row + 1) = N + 1 /\ ~text[row + 1].newline

\* The solver has not begun while main reads, and has its own blocks.
SolverBlocks ==
    /\ at \in {"maze_read", "maze_init", "maze_data", "row", "read", "abort",
               "dfs_solve", "exit"}
    /\ held = Holds(at)
    /\ at \notin {"dfs_solve", "exit"} => pc = "main"
    /\ at = "dfs_solve" => pc # "main"
    /\ at = "exit" => pc \in {"main", "done"} /\ outcome # "assert"
    /\ pc = "main" \/ pc = "frontier_init" => heap = {}
    /\ heap \subseteq {"frontier", "visitarray", "rows"}
    /\ pc = "create_visitarray" => heap = {"frontier"}
    /\ outcome \in {"none", "length", "NOT_FOUND", "ERROR", "assert"}
    /\ pc # "done" => outcome = "none"
    /\ pc = "done" => outcome # "none"
    /\ outcome \in {"length", "NOT_FOUND"} => heap = {}
    /\ outcome = "ERROR" => "visitarray" \notin heap

\* Until the solver takes its first step it is where it starts.
Untouched ==
    /\ visitarray = [x \in Indices |-> UNINIT]
    /\ current_index = 0 /\ i = 0 /\ array_index = 0 /\ lengte = 0
    /\ L!Init

ProgramInv ==
    /\ Reading
    /\ SolverBlocks
    /\ ReadRight
    /\ pc = "main" => Untouched
    /\ pc # "main" => finish_index \in Indices \cup {default_finish}
    /\ pc # "main" /\ Posed => IInv

\* What getline tells of the lines of a text.
LEMMA Lines ==
  ASSUME text \in Texts, NEW k \in Nat \ {0}
  PROVE  /\ Len(text) \in Nat
         /\ getline(k) \in Int
         /\ k <= Len(text) =>
               /\ Len(text[k].chars) \in Nat
               /\ text[k].newline \in BOOLEAN
               /\ getline(k) = Len(text[k].chars) + (IF text[k].newline THEN 1 ELSE 0)
         /\ k > Len(text) => getline(k) = -1
         /\ k < Len(text) => text[k].newline
<1> DEFINE S == [chars : Seq(Chars), newline : BOOLEAN]
           n == Len(text[k].chars) + (IF text[k].newline THEN 1 ELSE 0)
<1>1. text \in Seq(S)
  BY TextAssumption
<1>2. Len(text) \in Nat
  BY <1>1, LenProperties
<1>3. CASE k <= Len(text)
  <2>1. text[k] \in S
    <3> HIDE DEF S
    <3>1. k \in 1..Len(text)
      BY <1>2, <1>3
    <3> QED
      BY <1>1, <3>1, ElementOfSeq
  <2>2. Len(text[k].chars) \in Nat /\ text[k].newline \in BOOLEAN
    BY <2>1, LenProperties
  <2>3. getline(k) = n
    <3>1. ~(k > Len(text))
      BY <1>2, <1>3
    <3> QED
      BY <3>1, Zenon DEF getline
  <2>4. n \in Int
    BY <2>2
  <2>5. k < Len(text) => text[k].newline
    <3> SUFFICES ASSUME k < Len(text) PROVE text[k].newline
      OBVIOUS
    <3>1. k \in 1..(Len(text) - 1)
      BY <1>2
    <3> QED
      BY <3>1, TextAssumption
  <2> HIDE DEF n
  <2>6. getline(k) \in Int
    BY <2>3, <2>4
  <2>7. ~(k > Len(text))
    BY <1>2, <1>3
  <2> QED
    BY <1>2, <1>3, <2>2, <2>3, <2>5, <2>6, <2>7, Zenon DEF n
<1>4. CASE k > Len(text)
  <2>1. getline(k) = -1
    BY <1>4 DEF getline
  <2>2. ~(k <= Len(text)) /\ ~(k < Len(text)) /\ -1 \in Int
    BY <1>2, <1>4
  <2> QED
    BY <1>2, <2>1, <2>2, Zenon
<1>5. k <= Len(text) \/ k > Len(text)
  BY <1>2
<1> QED
  BY <1>3, <1>4, <1>5, Zenon

\* A full line is one of N characters and a newline for getline as well.
LEMMA FullLines ==
  ASSUME text \in Texts, NEW k \in Nat \ {0}
  PROVE  FullLine(k) <=> getline(k) = N + 1 /\ text[k].newline
<1>1. N \in Nat \ {0}
  BY MazeAssumption
<1>2. CASE k <= Len(text) /\ text[k].newline
  <2> DEFINE n == Len(text[k].chars)
  <2>1. n \in Nat /\ getline(k) = n + 1
    BY <1>2, Lines, Zenon
  <2>2. n = N <=> n + 1 = N + 1
    BY <1>1, <2>1
  <2> QED
    BY <1>2, <2>1, <2>2, Zenon DEF FullLine
<1>3. CASE ~(k <= Len(text))
  <2>1. k > Len(text)
    BY <1>3, Lines
  <2>2. getline(k) = -1
    BY <2>1, Lines, Zenon
  <2>3. -1 # N + 1
    BY <1>1
  <2> QED
    BY <1>3, <2>2, <2>3, Zenon DEF FullLine
<1>4. CASE ~text[k].newline
  BY <1>4 DEF FullLine
<1> QED
  BY <1>2, <1>3, <1>4

\* The first line makes a maze of N columns or none.
LEMMA FirstLine ==
  ASSUME text \in Texts
  PROVE  ncols \in Int /\ (ncols > 0 => ncols = N)
<1> PICK k \in Nat \ {0} : k = 1
  OBVIOUS
<1>1. getline(k) \in Int
  BY Lines
<1>2. ncols = getline(k) - 1
  BY DEF ncols
<1>3. ASSUME ncols > 0 PROVE ncols = N
  <2>1. k <= Len(text) /\ Len(text) \in Nat
    <3>1. getline(k) # -1
      BY <1>1, <1>2, <1>3
    <3>2. ~(k > Len(text)) /\ Len(text) \in Nat
      BY <3>1, Lines, Zenon
    <3> QED
      BY <3>2
  <2>2. text # <<>>
    BY <2>1, EmptySeq
  <2> DEFINE n == Len(text[1].chars) - (IF text[1].newline THEN 0 ELSE 1)
  <2>3. n = N \/ n <= 0
    BY <2>2, TextAssumption
  <2>4. /\ Len(text[k].chars) \in Nat
        /\ text[k].newline \in BOOLEAN
        /\ getline(k) = Len(text[k].chars) + (IF text[k].newline THEN 1 ELSE 0)
    BY <2>1, Lines
  <2>5. ncols = n
    <3> DEFINE l == Len(text[1].chars)
    <3>1. CASE text[1].newline
      <4>1. l \in Nat /\ getline(k) = l + 1 /\ n = l - 0
        BY <2>4, <3>1, Zenon
      <4> HIDE DEF l, n
      <4> QED
        BY <1>2, <4>1
    <3>2. CASE ~text[1].newline
      <4>1. l \in Nat /\ getline(k) = l + 0 /\ n = l - 1
        BY <2>4, <3>2, Zenon
      <4> HIDE DEF l, n
      <4> QED
        BY <1>2, <4>1
    <3> QED
      BY <3>1, <3>2
  <2>6. n \in Int
    BY <2>4
  <2> HIDE DEF n
  <2> QED
    BY <1>3, <2>3, <2>5, <2>6
<1> QED
  BY <1>1, <1>2, <1>3

\* The library's Max of a set with a greatest element.
LEMMA MaxIs ==
  ASSUME NEW S \in SUBSET Int, NEW m \in S, \A y \in S : y <= m
  PROVE  Max(S) = m
<1>1. PICK x \in S : x = Max(S) /\ \A y \in S : x >= y
  <2>1. \E x \in S : \A y \in S : x >= y
    OBVIOUS
  <2> QED
    BY <2>1 DEF Max
<1>2. x = m
  BY <1>1
<1> QED
  BY <1>1, <1>2

\* So a set of columns that has an element has a greatest one.
LEMMA MaxOfColumns ==
  ASSUME NEW S \in SUBSET (1..N), S # {}
  PROVE  Max(S) \in S /\ \A y \in S : y <= Max(S)
<1> DEFINE T == {N - k : k \in S}
<1>1. N \in Nat
  BY MazeAssumption
<1>2. T \in SUBSET Nat
  <2>1. \A k \in S : N - k \in Nat
    BY <1>1
  <2> QED
    BY <2>1
<1>3. T # {}
  OBVIOUS
<1>4. PICK t \in T : \A k \in T : t <= k
  <2> HIDE DEF T
  <2> QED
    BY <1>2, <1>3, LeastElement
<1>5. PICK m \in S : t = N - m
  OBVIOUS
<1>6. \A y \in S : y <= m
  BY <1>1, <1>4, <1>5
<1>7. S \in SUBSET Int
  BY <1>1
<1> QED
  BY <1>6, <1>7, MaxIs, Zenon

\* Rows above the first r + 1 are rows above the first r, or row r itself.
LEMMA NextRow ==
  ASSUME NEW r \in 0..(N - 1), NEW char
  PROVE  PlacesAbove(char, r + 1)
            = PlacesAbove(char, r)
              \cup {x \in Indices : maze_row(x) = r /\ CharAt(x) = char}
<1>1. \A x \in Indices : maze_row(x) < r + 1 <=> maze_row(x) < r \/ maze_row(x) = r
  <2>1. ASSUME NEW x \in Indices
        PROVE  maze_row(x) < r + 1 <=> maze_row(x) < r \/ maze_row(x) = r
    <3>1. PICK q \in 0..(N - 1) : q = maze_row(x)
      BY IndexToRowCol
    <3>2. q < r + 1 <=> q < r \/ q = r
      BY MazeAssumption
    <3> QED
      BY <3>1, <3>2
  <2> QED
    BY <2>1
<1> QED
  BY <1>1 DEF PlacesAbove

\* A place is its row and its column.
LEMMA PlaceOf ==
  ASSUME NEW x \in Indices
  PROVE  \E q \in 0..(N - 1), c \in 0..(N - 1) :
            q = maze_row(x) /\ c = maze_col(x) /\ x = N * q + c
  BY IndexToRowCol DEF round_trip, maze_index

\* The last mark of a line comes after all marks of the lines before it.
LEMMA MarkNext ==
  ASSUME NEW char, NEW index, NEW default,
         row \in 0..(N - 1), LastMark(index, char, row, default)
  PROVE  LastMark(check_for(char, index), char, row + 1, default)
<1> DEFINE marked == {k \in 1..N : line[k] = char}
           new == {x \in Indices : maze_row(x) = row /\ CharAt(x) = char}
           old == PlacesAbove(char, row)
<1>0. N \in Nat \ {0} /\ row \in Nat
  BY MazeAssumption
<1>1. PlacesAbove(char, row + 1) = old \cup new
  BY NextRow
<1>2. ASSUME NEW x \in Indices, maze_row(x) = row, CharAt(x) = char
      PROVE  \E k \in marked : x = N * row + (k - 1)
  <2>1. PICK q \in 0..(N - 1), c \in 0..(N - 1) :
               q = maze_row(x) /\ c = maze_col(x) /\ x = N * q + c
    BY PlaceOf
  <2>2. line[c + 1] = char
    BY <1>2, <2>1 DEF CharAt, line
  <2>3. c + 1 \in 1..N /\ (c + 1) - 1 = c
    BY <1>0
  <2>4. c + 1 \in marked
    BY <2>2, <2>3
  <2>5. x = N * row + ((c + 1) - 1)
    BY <1>2, <2>1, <2>3
  <2> QED
    BY <2>4, <2>5
<1>3. CASE marked = {}
  <2>1. new = {}
    BY <1>2, <1>3
  <2>2. check_for(char, index) = index
    BY <1>3 DEF check_for
  <2> QED
    BY <1>1, <2>1, <2>2 DEF LastMark
<1>4. CASE marked # {}
  <2> DEFINE last == check_for(char, index)
  <2>1. PICK m \in marked : m = Max(marked) /\ \A k \in marked : k <= m
    BY <1>4, MaxOfColumns
  <2>2. last = maze_index(row, m - 1)
    BY <1>4, <2>1 DEF check_for
  <2>3. m - 1 \in 0..(N - 1) /\ (m - 1) + 1 = m /\ m \in 1..N
    BY <1>0
  <2>4. last \in Indices /\ maze_row(last) = row /\ maze_col(last) = m - 1
    BY <2>2, <2>3, RowColToIndex
  <2>5. CharAt(last) = char
    BY <2>3, <2>4 DEF CharAt, line
  <2>6. last \in new
    BY <2>4, <2>5
  <2>7. last = N * row + (m - 1)
    BY <2>2 DEF maze_index
  <2>8. ASSUME NEW y \in new PROVE y <= last
    <3>1. PICK k \in marked : y = N * row + (k - 1)
      BY <1>2
    <3>2. k \in 1..N
      OBVIOUS
    <3>3. k <= m
      BY <2>1, Zenon
    <3>4. N * row \in Nat
      BY <1>0
    <3> QED
      BY <2>3, <2>7, <3>1, <3>2, <3>3, <3>4
  <2>9. ASSUME NEW y \in old PROVE y <= last
    <3>1. PICK q \in 0..(N - 1), c \in 0..(N - 1) :
                 q = maze_row(y) /\ y = N * q + c
      BY PlaceOf DEF PlacesAbove
    <3>2. q < row
      BY <3>1 DEF PlacesAbove
    <3>3. N * (q + 1) <= N * row /\ N * (q + 1) = N * q + N
      BY <1>0, <3>2
    <3>4. N * q \in Nat /\ N * row \in Nat
      BY <1>0
    <3> QED
      BY <1>0, <2>3, <2>7, <3>1, <3>3, <3>4
  <2> HIDE DEF last, new, old
  <2> QED
    BY <1>1, <2>6, <2>8, <2>9 DEF LastMark, last
<1> QED
  BY <1>3, <1>4

\* A round of the loop reads one more row.
LEMMA ReadRowReads ==
  ASSUME Reading, ReadRow
  PROVE  /\ row \in 0..(N - 1) /\ row' = row + 1 /\ row' \in 0..N
         /\ RowsRead(row)'
<1>1. /\ at = "row" /\ ncols = N /\ row \in 0..N /\ row # N
      /\ RowsRead(row) /\ getline(row + 1) = N + 1 /\ text[row + 1].newline
      /\ row' = row + 1 /\ text' = text /\ text \in Texts
  BY DEF Reading, ReadRow
<1>2. row \in 0..(N - 1) /\ row' \in 0..N
  BY <1>1, MazeAssumption
<1>3. \A k \in 1..row' : FullLine(k)'
  <2>1. row + 1 \in Nat \ {0}
    BY <1>2
  <2>2. FullLine(row + 1)
    BY <1>1, <2>1, FullLines
  <2>3. ASSUME NEW k \in 1..row' PROVE FullLine(k)
    <3>1. k \in 1..row \/ k = row + 1
      BY <1>1, <1>2
    <3> QED
      BY <1>1, <2>2, <3>1 DEF RowsRead
  <2>4. \A k \in 1..row' : FullLine(k)' <=> FullLine(k)
    BY <1>1 DEF FullLine
  <2> QED
    BY <2>3, <2>4
<1>4. maze' = [x \in Indices |-> IF maze_row(x) < row' THEN set_value(CharAt(x)')
                                 ELSE WALL]
  <2>1. maze' = [x \in Indices |->
                    IF maze_row(x) = row THEN set_value(line[maze_col(x) + 1])
                    ELSE maze[x]]
    BY DEF ReadRow
  <2>2. ASSUME NEW x \in Indices
        PROVE  (IF maze_row(x) = row THEN set_value(line[maze_col(x) + 1])
                ELSE maze[x])
               = (IF maze_row(x) < row' THEN set_value(CharAt(x)') ELSE WALL)
    <3>1. PICK q \in 0..(N - 1) : q = maze_row(x)
      BY IndexToRowCol
    <3>2. CharAt(x)' = CharAt(x)
      BY <1>1 DEF CharAt
    <3>3. maze[x] = IF maze_row(x) < row THEN set_value(CharAt(x)) ELSE WALL
      BY <1>1 DEF RowsRead
    <3>4. CASE q = row
      <4>1. CharAt(x) = line[maze_col(x) + 1]
        BY <3>1, <3>4 DEF CharAt, line
      <4>2. q < row'
        BY <1>1, <1>2, <3>4
      <4> QED
        BY <3>1, <3>2, <3>4, <4>1, <4>2, Zenon
    <3>5. CASE q # row
      <4>1. q < row' <=> q < row
        BY <1>1, <1>2, <3>5
      <4> QED
        BY <3>1, <3>2, <3>3, <3>5, <4>1, Zenon
    <3> QED
      BY <3>4, <3>5
  <2> QED
    BY <2>1, <2>2, Zenon
<1>5. PlacesAbove(START, row)' = PlacesAbove(START, row + 1)
      /\ PlacesAbove(DEST, row)' = PlacesAbove(DEST, row + 1)
  BY <1>1 DEF PlacesAbove, CharAt
<1>6. LastMark(start_index, START, row, default_start)'
  <2>1. start_index' = check_for(START, start_index)
    BY DEF ReadRow
  <2>2. LastMark(start_index', START, row + 1, default_start)
    BY <1>1, <1>2, <2>1, MarkNext DEF RowsRead
  <2> QED
    BY <1>5, <2>2 DEF LastMark
<1>7. LastMark(finish_index, DEST, row, default_finish)'
  <2>1. finish_index' = check_for(DEST, finish_index)
    BY DEF ReadRow
  <2>2. LastMark(finish_index', DEST, row + 1, default_finish)
    BY <1>1, <1>2, <2>1, MarkNext DEF RowsRead
  <2> QED
    BY <1>5, <2>2 DEF LastMark
<1> QED
  BY <1>1, <1>2, <1>3, <1>4, <1>6, <1>7 DEF RowsRead

\* When all rows are read the maze is what the text shows.
LEMMA AllRead ==
  ASSUME RowsRead(N)
  PROVE  /\ \A k \in 1..N : FullLine(k)
         /\ maze \in [Indices -> {WALL, FLOOR}]
         /\ IsRead([data |-> maze, start_index |-> start_index,
                    finish_index |-> finish_index])
         /\ Walls = Places(WALL_CHAR)
         /\ start_index = IF Places(START) = {} THEN default_start
                          ELSE Max(Places(START))
         /\ finish_index = IF Places(DEST) = {} THEN default_finish
                           ELSE Max(Places(DEST))
<1>1. \A x \in Indices : maze_row(x) < N
  <2>1. ASSUME NEW x \in Indices PROVE maze_row(x) < N
    <3>1. PICK q \in 0..(N - 1) : q = maze_row(x)
      BY IndexToRowCol
    <3>2. q < N
      BY MazeAssumption
    <3> QED
      BY <3>1, <3>2
  <2> QED
    BY <2>1
<1>2. \A char : PlacesAbove(char, N) = Places(char)
  BY <1>1 DEF PlacesAbove, Places
<1>3. maze = [x \in Indices |-> set_value(CharAt(x))]
  BY <1>1 DEF RowsRead
<1>4. maze \in [Indices -> {WALL, FLOOR}]
  BY <1>3 DEF set_value
<1>5. Walls = Places(WALL_CHAR)
  BY <1>3, MazeAssumption DEF Walls, Places, set_value
<1>6. /\ LastMark(start_index, START, N, default_start)
      /\ LastMark(finish_index, DEST, N, default_finish)
  BY DEF RowsRead
<1>7. ASSUME NEW index, NEW char, NEW default, LastMark(index, char, N, default),
             char # WALL_CHAR
      PROVE  /\ index = IF Places(char) = {} THEN default ELSE Max(Places(char))
             /\ index = default \/ (index \in Indices /\ maze[index] = FLOOR)
  <2>1. CASE Places(char) = {}
    BY <1>2, <1>7, <2>1 DEF LastMark
  <2>2. CASE Places(char) # {}
    <3>1. index \in Places(char) /\ \A y \in Places(char) : y <= index
      BY <1>2, <1>7, <2>2 DEF LastMark
    <3>2. Places(char) \in SUBSET Int
      BY DEF Places, Indices
    <3>3. Max(Places(char)) = index
      BY <3>1, <3>2, MaxIs
    <3>4. index \in Indices /\ CharAt(index) = char
      BY <3>1 DEF Places
    <3>5. maze[index] = FLOOR
      BY <1>3, <1>7, <3>4 DEF set_value
    <3> QED
      BY <2>2, <3>3, <3>4, <3>5
  <2> QED
    BY <2>1, <2>2
<1>8. START # WALL_CHAR /\ DEST # WALL_CHAR
  BY TextAssumption
<1>9. IsRead([data |-> maze, start_index |-> start_index,
              finish_index |-> finish_index])
  BY <1>4, <1>6, <1>7, <1>8 DEF IsRead
<1> QED
  BY <1>4, <1>5, <1>6, <1>7, <1>8, <1>9 DEF RowsRead

-----------------------------------------------------------------------------
(* The steps of the program *)

\* What a step of the solver does to its place, its answer and its blocks.
LEMMA SolverStep ==
  ASSUME SolverBlocks, pc # "main", Next
  PROVE  /\ UNCHANGED <<start_index, finish_index>>
         /\ pc' \notin {"main", "frontier_init"}
         /\ heap' \subseteq {"frontier", "visitarray", "rows"}
         /\ pc' = "create_visitarray" => heap' = {"frontier"}
         /\ outcome' \in {"none", "length", "NOT_FOUND", "ERROR", "assert"}
         /\ pc' # "done" <=> outcome' = "none"
         /\ outcome' \in {"length", "NOT_FOUND"} => heap' = {}
         /\ outcome' = "ERROR" => "visitarray" \notin heap'
<1> USE DEF SolverBlocks, input
<1>1. CASE Begin
  <2>1. CASE NoFrontier
    BY <2>1 DEF NoFrontier, Return
  <2>2. CASE HaveFrontier
    BY <2>2 DEF HaveFrontier
  <2>3. CASE create_visitarray
    BY <2>3 DEF create_visitarray, Return
  <2>4. CASE StartPushed
    BY <2>4 DEF StartPushed
  <2> QED
    BY <1>1, <2>1, <2>2, <2>3, <2>4 DEF Begin
<1>2. CASE TakeNext
  <2>1. CASE Popped(result')
    BY <2>1 DEF Popped
  <2>2. CASE NotFound
    BY <2>2 DEF NotFound, Return, FreeAll
  <2> QED
    BY <1>2, <2>1, <2>2 DEF TakeNext
<1>3. CASE Examine
  <2>1. CASE ExamineFails
    BY <2>1 DEF ExamineFails, AssertionFails, Return
  <2>2. CASE ExamineSkips
    BY <2>2 DEF ExamineSkips, NextDirection
  <2>3. CASE ExaminePushes
    BY <2>3 DEF ExaminePushes, NextDirection
  <2>4. CASE PushCrashes
    BY <2>4 DEF PushCrashes, searchVars
  <2> QED
    BY <1>3, <2>1, <2>2, <2>3, <2>4 DEF Examine
<1>4. CASE Backtrack
  <2>1. CASE BacktrackStart
    BY <2>1 DEF BacktrackStart
  <2>2. CASE BacktrackStep
    BY <2>2 DEF BacktrackStep, AssertionFails, Return
  <2>3. CASE BacktrackEnd
    BY <2>3 DEF BacktrackEnd, Return, FreeAll
  <2> QED
    BY <1>4, <2>1, <2>2, <2>3 DEF Backtrack
<1> QED
  BY <1>1, <1>2, <1>3, <1>4 DEF Next

\* Before the program begins.
LEMMA ProgramInitInv == ProgramInit => ProgramInv
<1> SUFFICES ASSUME ProgramInit PROVE ProgramInv
  OBVIOUS
<1> USE DEF ProgramInit
<1>1. Reading
  <2>1. row \in 0..N
    BY MazeAssumption
  <2> QED
    BY <2>1 DEF Reading
<1>2. SolverBlocks
  BY DEF SolverBlocks, Holds
<1>3. ReadRight
  BY DEF ReadRight
<1>4. Untouched
  BY DEF Untouched
<1> QED
  BY <1>1, <1>2, <1>3, <1>4 DEF ProgramInv

\* A step of main that leaves the solver alone.
LEMMA SolverKept ==
  ASSUME ProgramInv, pc = "main",
         UNCHANGED <<stackVars, pc, search, walk, outcome, heap>>,
         at' \in {"maze_init", "maze_data", "row", "read", "abort", "exit"},
         held' = Holds(at)'
  PROVE  SolverBlocks' /\ pc' = "main" /\ (pc' = "main" => Untouched')
                       /\ (pc' # "main" /\ Posed' => IInv')
<1>1. UNCHANGED <<visitarray, current_index, i, array_index, lengte,
                  stack, live, peak, result, aborted>>
  BY DEF search, walk, stackVars
<1>2. Untouched'
  BY <1>1 DEF ProgramInv, Untouched, L!Init
<1>3. SolverBlocks'
  BY DEF ProgramInv, SolverBlocks
<1> QED
  BY <1>2, <1>3

\* A text is refused: what was not freed is forgotten, and it is no square.
LEMMA RefusedKeeps ==
  ASSUME ProgramInv, pc = "main", NoMaze({}), starved' = 1 \/ ~Square, starved' \in {0, 1}
  PROVE  ProgramInv'
<1>1. /\ at' = "exit" /\ held' = {} /\ UNCHANGED <<vars, text, row>>
  BY DEF NoMaze
<1>2. UNCHANGED <<stackVars, pc, search, walk, outcome, heap>>
  BY <1>1 DEF vars, searchVars
<1>3. held' = Holds(at)'
  BY <1>1 DEF Holds
<1>4. Reading'
  BY <1>1 DEF ProgramInv, Reading
<1>5. ReadRight'
  <2>1. Square' <=> Square
    BY <1>1 DEF Square, FullLine, getline
  <2> QED
    BY <1>1, <1>2, <2>1 DEF ReadRight
<1> QED
  BY <1>1, <1>2, <1>3, <1>4, <1>5, SolverKept DEF ProgramInv

\* The first line of a square has N characters, the first one too many none.
LEMMA SquareNeeds ==
  ASSUME text \in Texts, Square
  PROVE  ncols = N /\ getline(N + 1) # N + 1 /\ \A k \in 1..N : getline(k) = N + 1
<1>1. N \in Nat \ {0}
  BY MazeAssumption
<1>2. ASSUME NEW k \in 1..N PROVE getline(k) = N + 1
  <2>1. k \in Nat \ {0}
    BY <1>1
  <2>2. FullLine(k)
    BY DEF Square
  <2> QED
    BY <2>1, <2>2, FullLines
<1>3. PICK k \in 1..N : k = 1
  BY <1>1
<1>4. ncols = (N + 1) - 1
  BY <1>2, <1>3 DEF ncols
<1>5. ncols = N
  BY <1>1, <1>4
<1> QED
  BY <1>2, <1>5 DEF Square

LEMMA ReadFirstKeeps == ASSUME ProgramInv, ReadFirst PROVE ProgramInv'
<1>1. at = "maze_read" /\ pc = "main"
  BY DEF ReadFirst, ProgramInv, SolverBlocks
<1>2. CASE at' = "maze_init" /\ held' = {"buf"} /\ UNCHANGED <<vars, reading>>
  <2>1. /\ UNCHANGED <<stackVars, pc, search, walk, outcome, heap>>
        /\ text' = text /\ row' = row /\ starved' = starved
    BY <1>2 DEF vars, searchVars, reading
  <2>2. held' = Holds(at)'
    BY <1>2 DEF Holds
  <2>3. Reading'
    BY <1>1, <1>2, <2>1 DEF ProgramInv, Reading
  <2>4. ReadRight'
    BY <1>1, <1>2, <2>1 DEF ReadRight
  <2> QED
    BY <1>1, <1>2, <2>1, <2>2, <2>3, <2>4, SolverKept DEF ProgramInv
<1>3. CASE NoMaze({}) /\ starved' = 1
  BY <1>1, <1>3, RefusedKeeps
<1> QED
  BY <1>2, <1>3 DEF ReadFirst

LEMMA MazeInitKeeps == ASSUME ProgramInv, maze_init PROVE ProgramInv'
<1>1. at = "maze_init" /\ pc = "main" /\ text \in Texts /\ held = {"buf"}
  BY DEF maze_init, ProgramInv, SolverBlocks, Reading, Holds
<1>2. CASE ncols <= 0 /\ NoMaze({}) /\ UNCHANGED starved
  <2>1. ~Square
    <3>1. N \in Nat \ {0}
      BY MazeAssumption
    <3>2. ~(N <= 0)
      BY <3>1
    <3> QED
      BY <1>1, <1>2, <3>2, SquareNeeds
  <2>2. starved' \in {0, 1}
    BY <1>2 DEF ProgramInv, Reading
  <2> QED
    BY <1>1, <1>2, <2>1, <2>2, RefusedKeeps
<1>3. CASE NoMaze({}) /\ starved' = 1
  BY <1>1, <1>3, RefusedKeeps
<1>4. CASE ncols > 0 /\ at' = "maze_data" /\ held' = held \cup {"maze"}
           /\ UNCHANGED <<vars, reading>>
  <2>1. /\ UNCHANGED <<stackVars, pc, search, walk, outcome, heap>>
        /\ text' = text /\ row' = row /\ starved' = starved
    BY <1>4 DEF vars, searchVars, reading
  <2>2. held' = Holds(at)'
    BY <1>1, <1>4 DEF Holds
  <2>3. ncols = N
    BY <1>1, <1>4, FirstLine
  <2>4. ncols' = ncols
    BY <2>1 DEF ncols, getline
  <2>5. Reading'
    BY <1>1, <1>4, <2>1, <2>3, <2>4 DEF ProgramInv, Reading
  <2>6. ReadRight'
    BY <1>1, <1>4, <2>1 DEF ReadRight
  <2> QED
    BY <1>1, <1>4, <2>1, <2>2, <2>5, <2>6, SolverKept DEF ProgramInv
<1> QED
  BY <1>2, <1>3, <1>4 DEF maze_init

\* No row is read yet.
LEMMA NoRowRead ==
  ASSUME maze = [x \in Indices |-> WALL], start_index = default_start,
         finish_index = default_finish
  PROVE  RowsRead(0)
<1>1. \A x \in Indices : ~(maze_row(x) < 0)
  <2>1. ASSUME NEW x \in Indices PROVE ~(maze_row(x) < 0)
    <3>1. PICK q \in 0..(N - 1) : q = maze_row(x)
      BY IndexToRowCol
    <3>2. ~(q < 0)
      BY MazeAssumption
    <3> QED
      BY <3>1, <3>2
  <2> QED
    BY <2>1
<1>2. \A char : PlacesAbove(char, 0) = {}
  BY <1>1 DEF PlacesAbove
<1>3. \A k \in 1..0 : FALSE
  OBVIOUS
<1> QED
  BY <1>1, <1>2, <1>3 DEF RowsRead, LastMark

LEMMA NoRowReadNext ==
  (/\ maze = [x \in Indices |-> WALL]
   /\ start_index = default_start
   /\ finish_index = default_finish)' => RowsRead(0)'
<1>1. (/\ maze = [x \in Indices |-> WALL]
       /\ start_index = default_start
       /\ finish_index = default_finish) => RowsRead(0)
  BY NoRowRead
<1> QED
  BY <1>1, PTL

LEMMA MazeDataKeeps == ASSUME ProgramInv, maze_init_data PROVE ProgramInv'
<1>1. /\ at = "maze_data" /\ pc = "main" /\ text \in Texts
      /\ held = {"buf", "maze"} /\ ncols = N
  BY DEF maze_init_data, ProgramInv, SolverBlocks, Reading, Holds
<1>2. CASE NoMaze({}) /\ starved' = 1
  BY <1>1, <1>2, RefusedKeeps
<1>3. CASE /\ at' = "row"
           /\ held' = held \cup {"data"}
           /\ maze' = [x \in Indices |-> WALL]
           /\ start_index' = default_start
           /\ finish_index' = default_finish
           /\ UNCHANGED <<stackVars, pc, search, walk, outcome, heap, reading>>
  <2>1. text' = text /\ row' = row /\ starved' = starved /\ pc' = pc
    BY <1>3 DEF reading
  <2>2. held' = Holds(at)'
    BY <1>1, <1>3 DEF Holds
  <2>3. row = 0
    BY <1>1 DEF ProgramInv, Reading
  <2>4. RowsRead(row)'
    BY <1>3, <2>1, <2>3, NoRowReadNext
  <2>5. getline(row + 1)' = N + 1
    <3>1. PICK k \in Nat \ {0} : k = 1
      OBVIOUS
    <3>2. getline(k) \in Int /\ ncols = getline(k) - 1
      BY <1>1, <3>1, Lines DEF ncols
    <3>3. getline(k) = N + 1
      BY <1>1, <3>2, MazeAssumption
    <3>4. row' + 1 = k
      BY <2>1, <2>3, <3>1
    <3>5. getline(row + 1)' = getline(k)
      BY <2>1, <3>4, Zenon DEF getline
    <3> QED
      BY <3>3, <3>5
  <2>6. ncols' = N
    BY <1>1, <2>1 DEF ncols, getline
  <2>7. Reading'
    BY <1>3, <2>1, <2>4, <2>5, <2>6 DEF ProgramInv, Reading
  <2>8. ReadRight'
    BY <1>1, <1>3, <2>1 DEF ReadRight
  <2> QED
    BY <1>1, <1>3, <2>1, <2>2, <2>7, <2>8, SolverKept DEF ProgramInv
<1> QED
  BY <1>2, <1>3 DEF maze_init_data

LEMMA ReadRowKeeps == ASSUME ProgramInv, ReadRow PROVE ProgramInv'
<1>1. /\ at = "row" /\ pc = "main" /\ text \in Texts
      /\ held = {"buf", "maze", "data"} /\ ncols = N
  BY DEF ReadRow, ProgramInv, SolverBlocks, Reading, Holds
<1>2. /\ UNCHANGED <<stackVars, pc, search, walk, outcome, heap, text, held, starved>>
      /\ at' = IF getline(row + 2) = ncols + 1 THEN "row" ELSE "read"
  BY DEF ReadRow
<1>3. /\ row \in 0..(N - 1) /\ row' = row + 1 /\ row' \in 0..N
      /\ RowsRead(row)'
  BY ReadRowReads DEF ProgramInv
<1>4. held' = Holds(at)' /\ at' \in {"row", "read"}
  BY <1>1, <1>2 DEF Holds
<1>5. ncols' = N
  BY <1>1, <1>2 DEF ncols, getline
<1>6. getline(row + 1)' = N + 1 <=> at' = "row"
  <2>1. row' + 1 = row + 2
    BY <1>3
  <2>2. getline(row + 1)' = getline(row + 2)
    BY <1>2, <2>1, Zenon DEF getline
  <2> QED
    BY <1>1, <1>2, <2>2
<1>7. Reading'
  BY <1>1, <1>2, <1>3, <1>4, <1>5, <1>6 DEF ProgramInv, Reading
<1>8. ReadRight'
  BY <1>1, <1>2, <1>4 DEF ReadRight
<1> QED
  BY <1>1, <1>2, <1>4, <1>7, <1>8, SolverKept DEF ProgramInv

LEMMA ReadRowFailsKeeps == ASSUME ProgramInv, ReadRowFails PROVE ProgramInv'
<1>1. /\ at = "row" /\ pc = "main" /\ text \in Texts
      /\ held = {"buf", "maze", "data"} /\ ncols = N
      /\ row \in 0..N /\ row # ncols /\ ~text[row + 1].newline
      /\ getline(row + 1) = N + 1
  BY DEF ReadRowFails, ProgramInv, SolverBlocks, Reading, Holds
<1>2. at' = "abort" /\ UNCHANGED <<vars, reading, held>>
  BY DEF ReadRowFails
<1>3. /\ UNCHANGED <<stackVars, pc, search, walk, outcome, heap>>
      /\ UNCHANGED <<text, row, starved>>
  BY <1>2 DEF vars, searchVars, reading
<1>4. held' = Holds(at)'
  BY <1>1, <1>2 DEF Holds
<1>5. row \in Nat /\ row < N /\ row + 1 \in Nat \ {0} /\ N \in Nat
  BY <1>1, MazeAssumption
<1>6. ncols' = N /\ getline(row + 1)' = N + 1
  BY <1>1, <1>3 DEF ncols, getline
<1>7. Reading'
  BY <1>1, <1>2, <1>3, <1>5, <1>6 DEF ProgramInv, Reading
<1>8. Len(text) = row + 1 /\ Len(line) = N + 1
  <2>1. PICK k \in Nat \ {0} : k = row + 1
    BY <1>5
  <2>2. Len(text) \in Nat /\ getline(k) # -1
    BY <1>1, <1>5, <2>1, Lines
  <2>3. ~(k > Len(text)) /\ ~(k < Len(text))
    BY <1>1, <2>1, <2>2, Lines, Zenon
  <2>4. k = Len(text) /\ k <= Len(text)
    BY <2>2, <2>3
  <2>5. Len(text[k].chars) \in Nat /\ getline(k) = Len(text[k].chars) + 0
    BY <1>1, <2>1, <2>4, Lines, Zenon
  <2>6. Len(text[k].chars) = N + 1
    <3> DEFINE l == Len(text[k].chars)
    <3>1. l \in Nat /\ N + 1 = l + 0
      BY <1>1, <2>1, <2>5
    <3> HIDE DEF l
    <3>2. l = N + 1
      BY <3>1, <1>5
    <3> QED
      BY <3>2 DEF l
  <2> QED
    BY <2>1, <2>4, <2>6 DEF line
<1>9. ReadRight'
  BY <1>1, <1>2, <1>3, <1>5, <1>8 DEF ReadRight, line
<1> QED
  BY <1>1, <1>2, <1>3, <1>4, <1>7, <1>9, SolverKept DEF ProgramInv

LEMMA TooManyRowsKeeps == ASSUME ProgramInv, TooManyRows PROVE ProgramInv'
<1>1. /\ at = "row" /\ pc = "main" /\ text \in Texts /\ ncols = N /\ row = ncols
      /\ getline(row + 1) = N + 1 /\ NoMaze({}) /\ starved' = starved
  BY DEF TooManyRows, ProgramInv, SolverBlocks, Reading
<1>2. ~Square
  BY <1>1, SquareNeeds
<1>3. starved' \in {0, 1}
  BY <1>1 DEF ProgramInv, Reading
<1> QED
  BY <1>1, <1>2, <1>3, RefusedKeeps

LEMMA StartKeepsNext == (StartOfSearch /\ L!Init)' => IInv'
<1>1. StartOfSearch /\ L!Init => IInv
  BY StartKeeps
<1> QED
  BY <1>1, PTL

LEMMA EndOfTextKeeps == ASSUME ProgramInv, EndOfText PROVE ProgramInv'
<1>1. /\ at = "read" /\ pc = "main" /\ text \in Texts /\ ncols = N
      /\ held = {"buf", "maze", "data"} /\ outcome = "none" /\ heap = {}
      /\ row \in 0..N /\ RowsRead(row) /\ getline(row + 1) # N + 1
  BY DEF EndOfText, ProgramInv, SolverBlocks, Reading, Holds
<1>2. CASE row < ncols /\ NoMaze({}) /\ UNCHANGED starved
  <2>1. row + 1 \in 1..N
    BY <1>1, <1>2, MazeAssumption
  <2>2. ~Square
    BY <1>1, <2>1, SquareNeeds
  <2>3. starved' \in {0, 1}
    BY <1>2 DEF ProgramInv, Reading
  <2> QED
    BY <1>1, <1>2, <2>2, <2>3, RefusedKeeps
<1>3. CASE /\ row >= ncols
           /\ at' = "dfs_solve"
           /\ pc' = "frontier_init"
           /\ held' = held \ {"buf"}
           /\ UNCHANGED <<stackVars, maze, input, search, walk, outcome, heap, reading>>
  <2>1. row = N
    BY <1>1, <1>3, MazeAssumption
  <2>2. /\ UNCHANGED <<start_index, finish_index, visitarray, current_index, i,
                       array_index, lengte, stack, live, peak, result, aborted>>
        /\ UNCHANGED <<maze, outcome, heap, text, row, starved>>
    BY <1>3 DEF input, search, walk, stackVars, reading
  <2>3. RowsRead(N)
    BY <1>1, <2>1
  <2>4. Square
    BY <1>1, <2>1, <2>3, AllRead DEF Square
  <2>5. Reading'
    BY <1>1, <1>3, <2>2 DEF ProgramInv, Reading
  <2>6. SolverBlocks'
    <3>1. held' = Holds(at)'
      BY <1>1, <1>3 DEF Holds
    <3> QED
      BY <1>1, <1>3, <2>2, <3>1 DEF ProgramInv, SolverBlocks
  <2>7. ReadRight'
    <3>1. /\ Square'
          /\ Walls' = Walls /\ Places(START)' = Places(START)
          /\ Places(DEST)' = Places(DEST) /\ Places(WALL_CHAR)' = Places(WALL_CHAR)
      BY <2>2, <2>4 DEF Square, FullLine, getline, Walls, Places, CharAt
    <3>2. /\ Walls = Places(WALL_CHAR)
          /\ IsRead([data |-> maze, start_index |-> start_index,
                     finish_index |-> finish_index])
          /\ start_index = IF Places(START) = {} THEN default_start
                           ELSE Max(Places(START))
          /\ finish_index = IF Places(DEST) = {} THEN default_finish
                            ELSE Max(Places(DEST))
      BY <2>3, AllRead
    <3> QED
      BY <1>3, <2>2, <3>1, <3>2, Zenon DEF ReadRight
  <2>8. ASSUME Posed' PROVE IInv'
    <3>1. Untouched
      BY <1>1 DEF ProgramInv
    <3>2. maze' \in [Indices -> {WALL, FLOOR}]
      BY <2>2, <2>3, AllRead
    <3>3. StartOfSearch'
      BY <1>1, <1>3, <2>2, <2>8, <3>1, <3>2 DEF StartOfSearch, Untouched
    <3>4. (L!Init)'
      BY <2>2, <3>1 DEF Untouched, L!Init
    <3> QED
      BY <3>3, <3>4, StartKeepsNext
  <2>9. finish_index' \in Indices \cup {default_finish}
    BY <2>2, <2>3, AllRead DEF IsRead
  <2> QED
    BY <1>3, <2>5, <2>6, <2>7, <2>8, <2>9 DEF ProgramInv
<1> QED
  BY <1>2, <1>3 DEF EndOfText

LEMMA DfsSolveKeeps == ASSUME ProgramInv, dfs_solve PROVE ProgramInv'
<1>1. /\ at = "dfs_solve" /\ pc # "main" /\ Next /\ UNCHANGED <<text, row, starved, at, held>>
  BY DEF dfs_solve, reading, ProgramInv, SolverBlocks
<1>2. /\ UNCHANGED <<start_index, finish_index>>
      /\ pc' \notin {"main", "frontier_init"}
      /\ heap' \subseteq {"frontier", "visitarray", "rows"}
      /\ pc' = "create_visitarray" => heap' = {"frontier"}
      /\ outcome' \in {"none", "length", "NOT_FOUND", "ERROR", "assert"}
      /\ pc' # "done" <=> outcome' = "none"
      /\ outcome' \in {"length", "NOT_FOUND"} => heap' = {}
      /\ outcome' = "ERROR" => "visitarray" \notin heap'
  BY <1>1, SolverStep DEF ProgramInv
<1>3. Reading'
  BY <1>1 DEF ProgramInv, Reading
<1>4. SolverBlocks'
  BY <1>1, <1>2 DEF ProgramInv, SolverBlocks, Holds
<1>5. ReadRight'
  BY <1>1, <1>2 DEF ReadRight
<1>6. Posed' => IInv'
  <2> SUFFICES ASSUME Posed' PROVE IInv'
    OBVIOUS
  <2>1. IInv
    BY <1>1, <1>2 DEF ProgramInv, Posed
  <2> QED
    BY <1>1, <2>1, NextKeeps
<1> QED
  BY <1>1, <1>2, <1>3, <1>4, <1>5, <1>6 DEF ProgramInv

\* A step after which the variables of the solver and of the text are the same.
LEMMA ProgramKept ==
  ASSUME ProgramInv, UNCHANGED <<vars, reading>>, SolverBlocks', ReadRight',
         at' = at \/ at' = "exit"
  PROVE  ProgramInv'
<1>1. /\ UNCHANGED <<text, row, starved, start_index, finish_index, pc, stackVars,
                     search, walk>>
  BY DEF vars, searchVars, reading, input
<1>2. Reading'
  <2>1. ncols' = ncols
    BY <1>1 DEF ncols, getline
  <2>2. maze' = maze
    BY DEF vars, searchVars
  <2>3. RowsRead(row)' <=> RowsRead(row)
    BY <1>1, <2>2 DEF RowsRead, LastMark, PlacesAbove, FullLine, CharAt
  <2>4. getline(row + 1)' = getline(row + 1)
    BY <1>1 DEF getline
  <2> QED
    BY <1>1, <2>1, <2>3, <2>4 DEF ProgramInv, Reading
<1>3. pc' = "main" => Untouched'
  BY <1>1 DEF ProgramInv, Untouched, L!Init, search, walk, stackVars
<1>4. pc' # "main" /\ Posed' => IInv'
  <2> SUFFICES ASSUME pc # "main", Posed PROVE IInv'
    BY <1>1 DEF Posed
  <2>1. IInv
    BY DEF ProgramInv
  <2> QED
    BY <2>1, StutterKeeps
<1> QED
  BY <1>1, <1>2, <1>3, <1>4 DEF ProgramInv

LEMMA ReportKeeps == ASSUME ProgramInv, Report PROVE ProgramInv'
<1>1. /\ at = "dfs_solve" /\ outcome \in {"length", "NOT_FOUND", "ERROR"}
      /\ at' = "exit" /\ held' = held \ {"maze", "data"}
      /\ UNCHANGED <<vars, reading>>
  BY DEF Report
<1>2. pc = "done" /\ held = {"maze", "data"} /\ UNCHANGED <<pc, outcome, heap>>
  BY <1>1 DEF ProgramInv, SolverBlocks, Holds, vars, searchVars
<1>3. held' = Holds(at)'
  BY <1>1, <1>2 DEF Holds
<1>4. SolverBlocks'
  BY <1>1, <1>2, <1>3 DEF ProgramInv, SolverBlocks
<1>5. ReadRight'
  BY <1>1, <1>2 DEF ReadRight
<1> QED
  BY <1>1, <1>4, <1>5, ProgramKept

LEMMA ProgramStutterKeeps == ASSUME ProgramInv, UNCHANGED programVars PROVE ProgramInv'
<1>1. UNCHANGED <<vars, reading, at, held>>
  BY DEF programVars
<1>2. UNCHANGED <<text, row, starved, start_index, finish_index, pc, maze, outcome,
                  heap, at, held>>
  BY <1>1 DEF vars, searchVars, reading, input
<1>3. SolverBlocks'
  BY <1>2 DEF ProgramInv, SolverBlocks, Holds
<1>4. ReadRight'
  BY <1>2 DEF ProgramInv, ReadRight, Square, FullLine, getline, Walls, Places,
     CharAt, line
<1> QED
  BY <1>1, <1>3, <1>4, ProgramKept

\* The invariant of the program holds throughout, for every text.
LEMMA ProgramInvariance == ProgramSpec => []ProgramInv
<1>1. ProgramInit => ProgramInv
  BY ProgramInitInv
<1>2. ProgramInv /\ [ProgramNext]_programVars => ProgramInv'
  BY ReadFirstKeeps, MazeInitKeeps, MazeDataKeeps, ReadRowKeeps, ReadRowFailsKeeps,
     TooManyRowsKeeps, EndOfTextKeeps, DfsSolveKeeps, ReportKeeps,
     ProgramStutterKeeps DEF ProgramNext
<1> QED
  BY <1>1, <1>2, PTL DEF ProgramSpec

\* What the program searches is what the text shows, and it refuses a text only if
\* it is no square or memory is short: for every text and every width.
THEOREM TextIsReadRight == ProgramSpec => []ReadRight
<1>1. ProgramInv => ReadRight
  BY DEF ProgramInv
<1> QED
  BY <1>1, ProgramInvariance, PTL

\* On every way out main has freed its line buffer and its maze, and the solver all
\* its blocks unless memory was short.
THEOREM ProgramFreesAll == ProgramSpec => []ProgramFrees
<1>1. ProgramInv => ProgramFrees
  BY DEF ProgramInv, SolverBlocks, ProgramFrees, Holds
<1> QED
  BY <1>1, ProgramInvariance, PTL

\* In whatever maze the text shows, no assertion of maze.c fails but for a start on
\* the border or at the destination, and for any other start the search forgets
\* nothing, returns the length of the path it marks, and is right about NOT_FOUND.
THEOREM ProgramSearchesRight ==
  ProgramSpec =>
    [](/\ NoAssertion
       /\ start_index \in Indices /\ Inside(start_index) /\ start_index # finish_index
             => /\ NothingForgotten /\ NotFoundIsRight
                /\ VisitTree /\ BacktrackCounts /\ LengthIsPath)
<1> DEFINE Inner == /\ start_index \in Indices
                    /\ Inside(start_index)
                    /\ start_index # finish_index
           Right == /\ NothingForgotten /\ NotFoundIsRight
                    /\ VisitTree /\ BacktrackCounts /\ LengthIsPath
<1>1. ProgramInv => NoAssertion /\ (Inner => Right)
  <2> SUFFICES ASSUME ProgramInv PROVE NoAssertion /\ (Inner => Right)
    OBVIOUS
  <2>1. CASE pc = "main"
    <3>1. outcome = "none"
      BY <2>1 DEF ProgramInv, SolverBlocks
    <3>2. Tree = {}
      BY <2>1 DEF ProgramInv, Untouched, Tree
    <3> QED
      BY <2>1, <3>1, <3>2 DEF NoAssertion, NothingForgotten, NotFoundIsRight,
         VisitTree, BacktrackCounts, LengthIsPath
  <2>2. CASE pc # "main"
    <3>1. ASSUME Inner PROVE Posed
      <4>1. CASE finish_index \in Indices
        BY <3>1, <4>1 DEF Posed
      <4>2. CASE finish_index = default_finish
        <5>1. PICK q \in 0..(N - 1) : q > 0 /\ q < N - 1
          BY <3>1, IndexToRowCol DEF Inside, maze_valid_move
        <5>2. N - 2 \in 0..(N - 1)
          BY <5>1, MazeAssumption
        <5>3. default_finish \in Indices
          BY <5>2, RowColToIndex DEF default_finish
        <5> QED
          BY <3>1, <4>2, <5>3 DEF Posed
      <4> QED
        BY <2>2, <4>1, <4>2 DEF ProgramInv
    <3>2. ASSUME Inner PROVE Right /\ outcome # "assert"
      <4>1. IInv
        BY <2>2, <3>1, <3>2 DEF ProgramInv
      <4> QED
        BY <4>1, IInvImplies, SInvImplies DEF IInv, SInv
    <3> QED
      BY <3>2 DEF NoAssertion
  <2> QED
    BY <2>1, <2>2
<1> QED
  BY <1>1, ProgramInvariance, PTL
=============================================================================
