------------------------- MODULE FindContourProofs -------------------------
(***************************************************************************)
(* Proofs about FindContour::setupCurrentTaskList for every grid: the      *)
(* type invariant, and that the in-place move of the index vector is       *)
(* always undone before the next dimension is searched.                    *)
(***************************************************************************)
EXTENDS FindContour, TLAPS

\* The loop facts that make IndexRestored inductive: inside the inner loop
\* the point is a grid point and the wrap flag is down.
IInv ==
  /\ TypeOK
  /\ pc = "dir" => /\ i < NPoints
                   /\ ind = GetIndices(i)
                   /\ ~edge

LEMMA NPointsType == NPoints \in Nat \ {0}
BY RankAssumption, StrideAssumption DEF NPoints

\* getIndices yields an index vector of naturals below the bin counts.
LEMMA IndicesType ==
  ASSUME NEW k \in Nat
  PROVE  GetIndices(k) \in [Dims -> Nat]
<1>1. ASSUME NEW d \in Dims
      PROVE  (k \div PointStride[d]) % NBin[d] \in Nat
  <2>1. PointStride[d] \in Nat \ {0}
    BY StrideAssumption, RankAssumption DEF Dims
  <2>2. NBin[d] \in Nat \ {0}
    BY GridAssumption
  <2>3. k \div PointStride[d] \in Nat
    BY <2>1
  <2>. QED  BY <2>2, <2>3
<1>. QED  BY <1>1 DEF GetIndices

LEMMA IInvInit == Init => IInv
<1>. SUFFICES ASSUME Init PROVE IInv
  OBVIOUS
<1>1. NPoints \in Nat
  BY NPointsType
<1>2. i \in 0..NPoints /\ j \in 0..Rank
  BY <1>1, RankAssumption DEF Init
<1>3. ind \in [Dims -> Nat]
  BY DEF Init
<1>4. tasks \subseteq 0..(Rank * NPoints - 1)
  BY DEF Init
<1>5. TypeOK
  BY <1>2, <1>3, <1>4, Zenon DEF Init, TypeOK
<1>6. pc # "dir"
  BY DEF Init
<1>. QED  BY <1>5, <1>6 DEF IInv

\* The conjuncts of TypeOK, one by one, for the steps that use them.
LEMMA TypeFacts ==
  ASSUME TypeOK
  PROVE  /\ grid \in [Points -> Values]
         /\ i \in 0..NPoints
         /\ j \in 0..Rank
         /\ ind \in [Dims -> Nat]
         /\ edge \in BOOLEAN
         /\ tasks \subseteq 0..(Rank * NPoints - 1)
         /\ pc \in {"point", "dir", "done"}
BY Zenon DEF TypeOK

\* The else branch of SearchDirection leaves ind as it found it.
LEMMA SearchRestores ==
  ASSUME NEW x \in [Dims -> Nat], NEW d \in Dims, NEW e \in BOOLEAN, ~e,
         ~(~Periodic[d] /\ x[d] + 1 = NBin[d]),
         NEW wrap, wrap = (x[d] + 1 = NBin[d]),
         NEW moved, moved = [x EXCEPT ![d] = IF wrap THEN 0 ELSE x[d] + 1]
  PROVE  /\ Restore(moved, e \/ wrap, d) = x
         /\ ((e \/ wrap) /\ ~Periodic[d]) = FALSE
<1>1. NBin[d] \in Nat \ {0} /\ Periodic[d] \in BOOLEAN
  BY GridAssumption
<1>2. CASE x[d] + 1 = NBin[d]
  <2>1. wrap /\ Periodic[d]
    BY <1>1, <1>2, Zenon
  <2>2. Restore(moved, e \/ wrap, d) = [moved EXCEPT ![d] = NBin[d] - 1]
    BY <2>1, Zenon DEF Restore
  <2>3. NBin[d] - 1 = x[d]
    BY <1>1, <1>2
  <2>4. [moved EXCEPT ![d] = NBin[d] - 1] = x
    BY <2>1, <2>3
  <2>. QED  BY <2>1, <2>2, <2>4, Zenon
<1>3. CASE x[d] + 1 # NBin[d]
  <2>1. ~wrap /\ moved = [x EXCEPT ![d] = x[d] + 1]
    BY <1>3, Zenon
  <2>2. Restore(moved, e \/ wrap, d) = [moved EXCEPT ![d] = moved[d] - 1]
    BY <2>1, Zenon DEF Restore
  <2>3. moved[d] - 1 = x[d]
    BY <2>1
  <2>4. [moved EXCEPT ![d] = moved[d] - 1] = [moved EXCEPT ![d] = x[d]]
    BY <2>3, Zenon
  <2>5. [moved EXCEPT ![d] = x[d]] = x
    BY <2>1, Zenon
  <2>. QED  BY <2>1, <2>2, <2>4, <2>5, Zenon
<1>. QED  BY <1>2, <1>3

LEMMA IInvNext == IInv /\ [Next]_vars => IInv'
<1>. SUFFICES ASSUME IInv, [Next]_vars PROVE IInv'
  OBVIOUS
<1>0. NPoints \in Nat \ {0} /\ Rank \in Nat \ {0}
  BY NPointsType, RankAssumption
<1>t. /\ grid \in [Points -> Values]
      /\ i \in 0..NPoints
      /\ j \in 0..Rank
      /\ ind \in [Dims -> Nat]
      /\ edge \in BOOLEAN
      /\ tasks \subseteq 0..(Rank * NPoints - 1)
      /\ pc \in {"point", "dir", "done"}
  BY TypeFacts DEF IInv
<1>d. pc = "dir" => i < NPoints /\ ind = GetIndices(i) /\ ~edge
  BY Zenon DEF IInv
<1>1. CASE StartPoint
  <2>1. i \in 0..(NPoints - 1)
    BY <1>0, <1>1, <1>t DEF StartPoint
  <2>2. GetIndices(i) \in [Dims -> Nat]
    BY <2>1, IndicesType
  <2>3. 0 \in 0..Rank
    BY <1>0
  <2>4. TypeOK'
    BY <1>1, <1>t, <2>2, <2>3, Zenon DEF StartPoint, TypeOK
  <2>. QED  BY <1>1, <2>1, <2>4, Zenon DEF StartPoint, IInv
<1>2. CASE EndPoints
  BY <1>2, <1>t, Zenon DEF EndPoints, IInv, TypeOK
<1>3. CASE SearchDirection
  <2>1. j \in Dims /\ i \in 0..(NPoints - 1) /\ ind = GetIndices(i) /\ ~edge
    <3>1. pc = "dir" /\ j < Rank
      BY <1>3 DEF SearchDirection
    <3>. QED  BY <1>0, <1>t, <1>d, <3>1 DEF Dims
  <2>2. Rank * i + j \in 0..(Rank * NPoints - 1)
    <3>1. Rank * i <= Rank * (NPoints - 1)
      BY <1>0, <2>1
    <3>. QED  BY <1>0, <2>1, <3>1 DEF Dims
  <2>3. j' \in 0..Rank /\ UNCHANGED <<grid, i, pc>>
    BY <1>0, <1>3, <2>1 DEF SearchDirection, Dims
  <2>4. CASE ~Periodic[j] /\ ind[j] + 1 = NBin[j]
    <3>1. UNCHANGED <<ind, edge, tasks>>
      BY <1>3, <2>4 DEF SearchDirection
    <3>. QED  BY <1>t, <2>1, <2>3, <3>1, Zenon DEF IInv, TypeOK
  <2>5. CASE ~(~Periodic[j] /\ ind[j] + 1 = NBin[j])
    <3>. DEFINE wrap == ind[j] + 1 = NBin[j]
                moved == [ind EXCEPT ![j] = IF wrap THEN 0 ELSE ind[j] + 1]
    <3>1. ind' = Restore(moved, edge \/ wrap, j)
          /\ edge' = ((edge \/ wrap) /\ ~Periodic[j])
          /\ tasks' \in {tasks, tasks \cup {Rank * i + j}}
      BY <1>3, <2>5, Zenon DEF SearchDirection
    <3>2. Restore(moved, edge \/ wrap, j) = ind
          /\ ((edge \/ wrap) /\ ~Periodic[j]) = FALSE
      BY <1>t, <2>1, <2>5, SearchRestores
    <3>3. tasks' \subseteq 0..(Rank * NPoints - 1)
      BY <1>t, <2>2, <3>1
    <3>. QED  BY <1>t, <2>1, <2>3, <3>1, <3>2, <3>3, Zenon DEF IInv, TypeOK
  <2>. QED  BY <2>4, <2>5
<1>4. CASE EndDirections
  <2>1. i' \in 0..NPoints
    BY <1>0, <1>4, <1>t, <1>d DEF EndDirections
  <2>2. pc' = "point" /\ UNCHANGED <<grid, j, ind, edge, tasks>>
    BY <1>4 DEF EndDirections
  <2>. QED  BY <1>t, <2>1, <2>2, Zenon DEF IInv, TypeOK
<1>5. CASE Finished
  BY <1>5, <1>t, Zenon DEF Finished, vars, IInv, TypeOK
<1>6. CASE UNCHANGED vars
  BY <1>6, <1>t, <1>d, Zenon DEF vars, IInv, TypeOK
<1>. QED  BY <1>1, <1>2, <1>3, <1>4, <1>5, <1>6 DEF Next

\* Every variable of setupCurrentTaskList keeps its type, on every grid.
THEOREM TypeCorrect == Spec => []TypeOK
<1>1. IInv => TypeOK
  BY DEF IInv
<1>. QED  BY IInvInit, IInvNext, <1>1, PTL DEF Spec

\* On every grid, each dimension's neighbour lookup in setupCurrentTaskList
\* starts from the current point's own index vector: the wrap to 0 on a
\* periodic dimension and the step up on any other are always undone.
THEOREM IndexRestoredCorrect == Spec => []IndexRestored
<1>1. IInv => IndexRestored
  BY DEF IInv, IndexRestored
<1>. QED  BY IInvInit, IInvNext, <1>1, PTL DEF Spec

-----------------------------------------------------------------------------
(* The task list: the loops add exactly the crossing edges they pass.      *)

\* The edges the loops have passed: every dimension of the points before
\* i, and, inside the inner loop, the dimensions of point i before j.
Visited(k, d) == k < i \/ (pc = "dir" /\ k = i /\ d < j)

\* The passed edges along which f - contour changes sign strictly.
Found == {e \in Points \X Dims : Visited(e[1], e[2]) /\ CrossesAt(e[1], e[2])}

\* The loop invariant of setupCurrentTaskList: the task list numbers the
\* crossing edges passed so far, and the outer loop stops after the last
\* grid point.
TInv ==
  /\ IInv
  /\ tasks = {Rank * e[1] + e[2] : e \in Found}
  /\ pc = "done" => i = NPoints

\* getIndices yields an index vector of the grid.
LEMMA IndicesInBox ==
  ASSUME NEW k \in Nat
  PROVE  GetIndices(k) \in IndexBox
<1>1. ASSUME NEW d \in Dims
      PROVE  GetIndices(k)[d] \in 0..(NBin[d] - 1)
  <2>1. PointStride[d] \in Nat \ {0} /\ NBin[d] \in Nat \ {0}
    BY StrideAssumption, GridAssumption, RankAssumption DEF Dims
  <2>. QED  BY <2>1 DEF GetIndices
<1>2. GetIndices(k) \in [Dims -> UNION {0..(NBin[d] - 1) : d \in Dims}]
  BY <1>1, Zenon DEF GetIndices
<1>3. \A d \in Dims : GetIndices(k)[d] < NBin[d]
  BY <1>1, GridAssumption
<1>. QED  BY <1>2, <1>3 DEF IndexBox

\* The field at an index vector is the field at its flat point.
LEMMA FieldAtIndex ==
  ASSUME NEW x \in IndexBox
  PROVE  FieldAt(x) = grid[GetIndex(x)]
<1>1. GetIndex(x) \in Points /\ GetIndices(GetIndex(x)) = x
  BY GridNumberingAssumption
<1>. DEFINE c == CHOOSE k \in Points : GetIndices(k) = x
<1>2. c \in Points /\ GetIndices(c) = x
  BY <1>1, Zenon
<1>3. c = GetIndex(x)
  BY <1>2, GridNumberingAssumption, Zenon
<1>. QED  BY <1>3, Zenon DEF FieldAt

\* The neighbour along d exists exactly when the code does not skip the
\* last point of a non-periodic dimension, and it is the vector the code
\* moves ind to: one point up, or 0 after a wrap.
LEMMA NeighbourMove ==
  ASSUME NEW x \in IndexBox, NEW d \in Dims
  PROVE  /\ HasNeighbour(x, d) = ~(~Periodic[d] /\ x[d] + 1 = NBin[d])
         /\ Neighbour(x, d) =
              [x EXCEPT ![d] = IF x[d] + 1 = NBin[d] THEN 0 ELSE x[d] + 1]
         /\ Neighbour(x, d) \in IndexBox
<1>1. NBin[d] \in Nat \ {0} /\ Periodic[d] \in BOOLEAN
  BY GridAssumption
<1>2. x \in [Dims -> UNION {0..(NBin[e] - 1) : e \in Dims}]
      /\ \A e \in Dims : x[e] < NBin[e]
  BY DEF IndexBox
<1>3. x[d] \in 0..(NBin[d] - 1)
  <2>1. x[d] \in Int /\ x[d] >= 0
    BY <1>2
  <2>. QED  BY <1>1, <1>2, <2>1
<1>4. HasNeighbour(x, d) = ~(~Periodic[d] /\ x[d] + 1 = NBin[d])
  BY <1>1, <1>3 DEF HasNeighbour
<1>5. (x[d] + 1) % NBin[d] = IF x[d] + 1 = NBin[d] THEN 0 ELSE x[d] + 1
  BY <1>1, <1>3
<1>6. Neighbour(x, d) =
        [x EXCEPT ![d] = IF x[d] + 1 = NBin[d] THEN 0 ELSE x[d] + 1]
  BY <1>5 DEF Neighbour
<1>7. Neighbour(x, d) \in IndexBox
  <2>. DEFINE v == (x[d] + 1) % NBin[d]
  <2>1. v \in 0..(NBin[d] - 1)
    BY <1>1, <1>3
  <2>2. v \in UNION {0..(NBin[e] - 1) : e \in Dims}
    BY <2>1
  <2>3. [x EXCEPT ![d] = v] \in [Dims -> UNION {0..(NBin[e] - 1) : e \in Dims}]
    BY <1>2, <2>2
  <2>4. \A e \in Dims : [x EXCEPT ![d] = v][e] < NBin[e]
    BY <1>1, <1>2, <2>1, GridAssumption
  <2>. QED  BY <2>3, <2>4 DEF Neighbour, IndexBox
<1>. QED  BY <1>4, <1>6, <1>7

\* The field does not change, so neither do the crossing edges.
LEMMA CrossesUnchanged ==
  ASSUME grid' = grid
  PROVE  \A k, d : CrossesAt(k, d)' = CrossesAt(k, d)
BY DEF CrossesAt, FieldAt, HasNeighbour, Neighbour

\* A step that passes no new crossing edge keeps Found.
LEMMA FoundUnchanged ==
  ASSUME grid' = grid,
         \A e \in Points \X Dims :
           (Visited(e[1], e[2]) /\ CrossesAt(e[1], e[2]))'
             = (Visited(e[1], e[2]) /\ CrossesAt(e[1], e[2]))
  PROVE  Found' = Found
BY Zenon DEF Found

LEMMA TInvInit == Init => TInv
<1>. SUFFICES ASSUME Init PROVE TInv
  OBVIOUS
<1>1. \A e \in Points \X Dims : ~Visited(e[1], e[2])
  BY NPointsType DEF Init, Visited, Points
<1>2. Found = {}
  BY <1>1, Zenon DEF Found
<1>. QED  BY <1>2, IInvInit DEF Init, TInv

LEMMA TInvNext == TInv /\ [Next]_vars => TInv'
<1>. SUFFICES ASSUME TInv, [Next]_vars PROVE TInv'
  OBVIOUS
<1>0. NPoints \in Nat \ {0} /\ Rank \in Nat \ {0}
  BY NPointsType, RankAssumption
<1>t. /\ i \in 0..NPoints
      /\ j \in 0..Rank
      /\ pc \in {"point", "dir", "done"}
      /\ pc = "dir" => i < NPoints /\ ind = GetIndices(i) /\ ~edge
  BY TypeFacts, Zenon DEF TInv, IInv
<1>i. IInv'
  BY IInvNext DEF TInv
<1>1. CASE StartPoint
  <2>1. \A e \in Points \X Dims : Visited(e[1], e[2])' = Visited(e[1], e[2])
    BY <1>1 DEF StartPoint, Visited, Dims
  <2>2. Found' = Found
    BY <1>1, <2>1, CrossesUnchanged, FoundUnchanged DEF StartPoint
  <2>. QED  BY <1>1, <1>i, <2>2 DEF StartPoint, TInv
<1>2. CASE EndPoints
  <2>1. \A e \in Points \X Dims : Visited(e[1], e[2])' = Visited(e[1], e[2])
    BY <1>2 DEF EndPoints, Visited
  <2>2. Found' = Found
    BY <1>2, <2>1, CrossesUnchanged, FoundUnchanged DEF EndPoints
  <2>. QED  BY <1>2, <1>i, <2>2 DEF EndPoints, TInv
<1>3. CASE SearchDirection
  <2>1. pc = "dir" /\ j \in Dims /\ i \in Points /\ ind = GetIndices(i)
    BY <1>0, <1>3, <1>t DEF SearchDirection, Dims, Points
  <2>2. grid' = grid /\ i' = i /\ pc' = pc /\ j' = j + 1
    BY <1>3 DEF SearchDirection
  <2>3. GetIndices(i) \in IndexBox
    BY <1>0, <2>1, IndicesInBox DEF Points
  <2>4. \A e \in Points \X Dims :
          Visited(e[1], e[2])' = (Visited(e[1], e[2]) \/ e = <<i, j>>)
    BY <2>1, <2>2 DEF Visited, Dims, Points
  <2>5. Found' = IF CrossesAt(i, j) THEN Found \cup {<<i, j>>} ELSE Found
    <3>1. \A e \in Points \X Dims : CrossesAt(e[1], e[2])' = CrossesAt(e[1], e[2])
      BY <2>2, CrossesUnchanged
    <3>2. <<i, j>> \in Points \X Dims
      BY <2>1
    <3>. QED  BY <2>4, <3>1, <3>2, Zenon DEF Found
  <2>6. tasks' = IF CrossesAt(i, j) THEN tasks \cup {Rank * i + j} ELSE tasks
    <3>. DEFINE x == GetIndices(i)
                wrap == ind[j] + 1 = NBin[j]
                moved == [ind EXCEPT ![j] = IF wrap THEN 0 ELSE ind[j] + 1]
    <3>1. /\ HasNeighbour(x, j) = ~(~Periodic[j] /\ x[j] + 1 = NBin[j])
          /\ Neighbour(x, j) = moved
          /\ Neighbour(x, j) \in IndexBox
      BY <2>1, <2>3, NeighbourMove
    <3>2. CASE ~Periodic[j] /\ ind[j] + 1 = NBin[j]
      <4>1. ~CrossesAt(i, j)
        BY <2>1, <3>1, <3>2 DEF CrossesAt
      <4>2. tasks' = tasks
        BY <1>3, <3>2 DEF SearchDirection
      <4>. QED  BY <4>1, <4>2
    <3>3. CASE ~(~Periodic[j] /\ ind[j] + 1 = NBin[j])
      <4>1. tasks' = IF Crossing(grid[i], grid[GetIndex(moved)])
                       THEN tasks \cup {Rank * i + j} ELSE tasks
        BY <1>3, <3>3, Zenon DEF SearchDirection
      <4>2. FieldAt(Neighbour(x, j)) = grid[GetIndex(moved)]
        BY <3>1, FieldAtIndex
      <4>3. HasNeighbour(x, j)
        BY <2>1, <3>1, <3>3
      <4>4. CrossesAt(i, j) <=> Crossing(grid[i], grid[GetIndex(moved)])
        <5>1. CrossesAt(i, j) <=> grid[i] * FieldAt(Neighbour(x, j)) < 0
          BY <4>3, Zenon DEF CrossesAt
        <5>. QED  BY <4>2, <5>1, Zenon DEF Crossing
      <4>. QED  BY <4>1, <4>4
    <3>. QED  BY <3>2, <3>3
  <2>7. tasks' = {Rank * e[1] + e[2] : e \in Found'}
    <3>1. Rank * <<i, j>>[1] + <<i, j>>[2] = Rank * i + j
      OBVIOUS
    <3>2. {Rank * e[1] + e[2] : e \in Found \cup {<<i, j>>}}
            = {Rank * e[1] + e[2] : e \in Found} \cup {Rank * i + j}
      BY <3>1, Zenon
    <3>. QED  BY <2>5, <2>6, <3>2, Zenon DEF TInv
  <2>. QED  BY <1>i, <2>1, <2>2, <2>7 DEF TInv
<1>4. CASE EndDirections
  <2>1. pc = "dir" /\ j = Rank /\ i' = i + 1 /\ pc' = "point"
    BY <1>4 DEF EndDirections
  <2>2. \A e \in Points \X Dims : Visited(e[1], e[2])' = Visited(e[1], e[2])
    BY <1>t, <2>1 DEF Visited, Dims, Points
  <2>3. Found' = Found
    BY <1>4, <2>2, CrossesUnchanged, FoundUnchanged DEF EndDirections
  <2>. QED  BY <1>4, <1>i, <2>1, <2>3 DEF EndDirections, TInv
<1>5. CASE Finished \/ UNCHANGED vars
  <2>1. UNCHANGED vars
    BY <1>5 DEF Finished
  <2>2. \A e \in Points \X Dims : Visited(e[1], e[2])' = Visited(e[1], e[2])
    BY <2>1 DEF Visited, vars
  <2>3. Found' = Found
    BY <2>1, <2>2, CrossesUnchanged, FoundUnchanged DEF vars
  <2>. QED  BY <1>i, <2>1, <2>3 DEF vars, TInv
<1>. QED  BY <1>1, <1>2, <1>3, <1>4, <1>5 DEF Next

\* On every grid of every rank, bin counts and periodicity, and for every
\* field, setupCurrentTaskList returns with exactly the edges along which
\* f - contour changes sign strictly, numbered Rank*point + dimension: no
\* edge is missed at a wrap or a skipped last point, and none is added.
THEOREM TasksMatchReferenceCorrect == Spec => []TasksMatchReference
<1>1. TInv => TasksMatchReference
  <2>. SUFFICES ASSUME TInv, pc = "done" PROVE tasks = ContourEdges
    BY DEF TasksMatchReference
  <2>1. i = NPoints
    BY DEF TInv
  <2>2. \A e \in Points \X Dims : Visited(e[1], e[2])
    BY <2>1, NPointsType DEF Visited, Points
  <2>3. Found = {e2 \in Points \X Dims : CrossesAt(e2[1], e2[2])}
    BY <2>2, Zenon DEF Found
  <2>. QED  BY <2>3, Zenon DEF TInv, ContourEdges
<1>. QED  BY TInvInit, TInvNext, <1>1, PTL DEF Spec
=============================================================================
