---------------------------- MODULE FindContour ----------------------------
(***************************************************************************)
(* FindContour::setupCurrentTaskList (src/unnamed/part_000, lines          *)
(* 136-171): before each step FIND_CONTOUR restricts its tasks to the grid *)
(* edges along which the field crosses the isovalue.  For every grid point *)
(* i and every dimension j it moves the index vector ind one point up      *)
(* along j in place (wrapping on a periodic dimension, skipping the last   *)
(* point of a non-periodic one), compares the signs of f - contour at the  *)
(* two ends, adds task Rank*i + j on a strict sign change, and moves ind   *)
(* back.  One step of the model is one iteration of a loop; the field is   *)
(* any function on the grid, abstracted to the value of f - contour in a   *)
(* small set of integers (only its sign matters to the code).             *)
(***************************************************************************)
EXTENDS Naturals, Integers

CONSTANTS
  Rank,       \* gval->getRank(): the dimension of the grid
  NBin,       \* NBin[d]: getNbin(false)[d], the grid points along d
  Periodic,   \* Periodic[d]: getGridObject().isPeriodic(d)
  Values      \* the values f - contour can take at a grid point

Dims == 0..(Rank - 1)

ASSUME RankAssumption == Rank \in Nat \ {0}
ASSUME GridAssumption ==
  /\ NBin \in [Dims -> Nat \ {0}]
  /\ Periodic \in [Dims -> BOOLEAN]
ASSUME ValuesAssumption == Values \subseteq Int

\* Number of points below one step along d in the flat numbering, where the
\* first index runs fastest (GridBase::getIndex/getIndices).
PointStride[d \in 0..Rank] == IF d = 0 THEN 1 ELSE PointStride[d - 1] * NBin[d - 1]

\* The product of positive bin counts is positive: a fact about the
\* constants that TLC evaluates and the provers, which cannot unfold a
\* recursive function by induction, take from here.
ASSUME StrideAssumption == \A d \in 0..Rank : PointStride[d] \in Nat \ {0}

NPoints == PointStride[Rank]
Points == 0..(NPoints - 1)

\* GridBase::getIndices: the index vector of flat point k.
GetIndices(k) == [d \in Dims |-> (k \div PointStride[d]) % NBin[d]]

\* GridBase::getIndex: the flat point of an index vector.
GetIndex(x) ==
  LET partial[n \in 0..Rank] ==
        IF n = 0 THEN 0 ELSE partial[n - 1] + x[n - 1] * PointStride[n - 1]
  IN  partial[Rank]

\* The index vectors of the grid: one index below the bin count per
\* dimension.
IndexBox ==
  {x \in [Dims -> UNION {0..(NBin[d] - 1) : d \in Dims}] :
     \A d \in Dims : x[d] < NBin[d]}

\* getIndex and getIndices are inverse numberings of the grid points and
\* the index vectors: a fact about the constants, which TLC evaluates and
\* the provers, which cannot unfold the recursive sums and products by
\* induction on Rank, take from here.
ASSUME GridNumberingAssumption ==
  /\ \A k \in Points : GetIndex(GetIndices(k)) = k
  /\ \A x \in IndexBox : GetIndex(x) \in Points /\ GetIndices(GetIndex(x)) = x

VARIABLES
  grid,   \* grid[k]: getPntrToArgument(0)->get(k) - contour
  i,      \* the grid point of the outer loop
  j,      \* the dimension of the inner loop
  ind,    \* the index vector, moved in place along j
  edge,   \* the flag that ind[j] was wrapped to 0
  tasks,  \* the current task list of the output
  pc      \* "point": outer loop head; "dir": inner loop head; "done"

vars == <<grid, i, j, ind, edge, tasks, pc>>

TypeOK ==
  /\ grid \in [Points -> Values]
  /\ i \in 0..NPoints
  /\ j \in 0..Rank
  /\ ind \in [Dims -> Nat]
  /\ edge \in BOOLEAN
  /\ tasks \subseteq 0..(Rank * NPoints - 1)
  /\ pc \in {"point", "dir", "done"}

\* The task list is rebuilt from nothing, for any field on the grid.
Init ==
  /\ grid \in [Points -> Values]
  /\ i = 0
  /\ j = 0
  /\ ind = [d \in Dims |-> 0]
  /\ edge = FALSE
  /\ tasks = {}
  /\ pc = "point"

\* Head of the outer loop: getIndices(i, ind); bool edge=false.
StartPoint ==
  /\ pc = "point"
  /\ i < NPoints
  /\ ind' = GetIndices(i)
  /\ edge' = FALSE
  /\ j' = 0
  /\ pc' = "dir"
  /\ UNCHANGED <<grid, i, tasks>>

\* The outer loop is over.
EndPoints ==
  /\ pc = "point"
  /\ i = NPoints
  /\ pc' = "done"
  /\ UNCHANGED <<grid, i, j, ind, edge, tasks>>

\* val1*val2<0: a strict sign change of f - contour between the two ends.
CrossingNonStrict(v1, v2) == v1 * v2 <= 0
Crossing(v1, v2) == v1 * v2 < 0

\* Moving ind back along d after the comparison: to the last point when
\* the move wrapped on a periodic dimension, else one point down.
RestoreAlwaysDown(x, e, d) == [x EXCEPT ![d] = x[d] - 1]
RestoreForgetWrap(x, e, d) ==
  IF Periodic[d] /\ e THEN x ELSE [x EXCEPT ![d] = x[d] - 1]
Restore(x, e, d) ==
  IF Periodic[d] /\ e THEN [x EXCEPT ![d] = NBin[d] - 1]
                      ELSE [x EXCEPT ![d] = x[d] - 1]

\* One iteration of the inner loop over the dimensions.
SearchDirection ==
  /\ pc = "dir"
  /\ j < Rank
  /\ IF ~Periodic[j] /\ ind[j] + 1 = NBin[j]
       THEN UNCHANGED <<ind, edge, tasks>>
       ELSE LET wrap   == ind[j] + 1 = NBin[j]
                moved  == [ind EXCEPT ![j] = IF wrap THEN 0 ELSE ind[j] + 1]
                edge1  == edge \/ wrap
            IN  /\ tasks' = IF Crossing(grid[i], grid[GetIndex(moved)])
                              THEN tasks \cup {Rank * i + j}
                              ELSE tasks
                /\ ind' = Restore(moved, edge1, j)
                /\ edge' = (edge1 /\ ~Periodic[j])
  /\ j' = j + 1
  /\ UNCHANGED <<grid, i, pc>>

\* The inner loop is over: on to the next grid point.
EndDirections ==
  /\ pc = "dir"
  /\ j = Rank
  /\ i' = i + 1
  /\ pc' = "point"
  /\ UNCHANGED <<grid, j, ind, edge, tasks>>

\* setupCurrentTaskList returned.
Finished ==
  /\ pc = "done"
  /\ UNCHANGED vars

Next ==
  \/ StartPoint
  \/ EndPoints
  \/ SearchDirection
  \/ EndDirections
  \/ Finished

Spec == Init /\ [][Next]_vars

-----------------------------------------------------------------------------
(* Reference: the edges of the grid with a strict sign change, written     *)
(* from the index vectors directly (spec: "for every grid cell edge        *)
(* connecting neighbor grid points i and j along dimension d ... the edge  *)
(* is a candidate crossing iff s_i * s_j < 0").                            *)

\* The neighbour of index vector x one point up along d, if there is one.
HasNeighbour(x, d) == Periodic[d] \/ x[d] + 1 < NBin[d]
Neighbour(x, d) == [x EXCEPT ![d] = (x[d] + 1) % NBin[d]]

\* The value of the field at an index vector.
FieldAt(x) == grid[CHOOSE k \in Points : GetIndices(k) = x]

\* Edge <<k, d>> joins point k to its neighbour along d across the isovalue.
CrossesAt(k, d) ==
  /\ HasNeighbour(GetIndices(k), d)
  /\ grid[k] * FieldAt(Neighbour(GetIndices(k), d)) < 0

ContourEdges ==
  {Rank * e[1] + e[2] : e \in {e2 \in Points \X Dims : CrossesAt(e2[1], e2[2])}}

-----------------------------------------------------------------------------
(* Properties.                                                             *)

\* The in-place move of ind is undone: at the head of every iteration of
\* the inner loop ind is again the index vector of the current point, so
\* the neighbour looked up along the next dimension is the right one.
IndexRestored == pc = "dir" => ind = GetIndices(i)

\* When setupCurrentTaskList returns, the task list holds exactly the grid
\* edges along which f - contour changes sign strictly, each numbered
\* Rank*point + dimension.
TasksMatchReference == pc = "done" => tasks = ContourEdges
=============================================================================
