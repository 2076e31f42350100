-------------------------- MODULE TaskDerivatives --------------------------
(***************************************************************************)
(* The derivatives and active indices of one task of a chain (the          *)
(* MultiValue of the task), followed through two actions:                  *)
(*                                                                         *)
(*  - a multicolvar (MultiColvarBase::performTask, MultiColvarBase.cpp     *)
(*    365-400) whose compute() adds atom derivatives to the blocks of the  *)
(*    task and, through setBoxDerivativesNoPbc (402-417), the virial; it   *)
(*    then marks three indices per distinct atom and the nine virial       *)
(*    indices active;                                                      *)
(*  - a function of its vectors in the chain (FunctionOfVector::           *)
(*    performTask, part_004 181-233) whose arguments are the multicolvar's *)
(*    components (streamed) and the values of a vector stored for it       *)
(*    (getArgumentPositionInStream, PbcAction.cpp 3191-3204).  The         *)
(*    function's derivatives go to arg_deriv_starts[j] + k, the starts     *)
(*    being those requestArguments lays out (module ArgumentChain).        *)
(*                                                                         *)
(* Numbers are small integers standing for the reals the code adds: the    *)
(* derivatives compute() gives each block (G), the positions (Pos) and the *)
(* function's partial derivatives (FD).  Positive values keep a slot that  *)
(* received a contribution from summing to zero.  A streamed value's       *)
(* derivative index space is 3 * NAtoms + 9; every stream is given the     *)
(* consumer's larger one, unused slots staying 0.                          *)
(*                                                                         *)
(* MultiValue::updateIndex appends to the active list without looking at   *)
(* what it holds (MultiValue is not among the sources: the callers' own    *)
(* checks "to avoid double counting" are what this relies on).             *)
(***************************************************************************)
EXTENDS Naturals, Sequences, SequencesExt, FiniteSets

CONSTANTS
  Mcv,         \* the multicolvar action
  St,          \* an action whose one vector is stored for the function
  NAtoms,      \* getNumberOfAtoms() of the multicolvar
  NBlocks,     \* ablocks.size(): atoms per colvar
  NComp,       \* components of the multicolvar
  CompBlocks,  \* CompBlocks[c]: the blocks compute() gives a derivative in component c
  BoxNoPbc,    \* BoxNoPbc[c]: compute() calls setBoxDerivativesNoPbc(c)
  G,           \* G[c][i]: the derivative compute() adds for block i of component c
  Pos,         \* Pos[a]: the position of atom a
  NTasks,      \* the number of tasks (vector length, stored values)
  NArgs,       \* the function's arguments
  FD,          \* FD[j]: the function's derivative in its argument j
  ArgLists     \* the argument lists considered

Atoms == 0..(NAtoms - 1)
NVir == 3 * NAtoms                          \* nvir: the first virial index
NDerMcv == NVir + 9                         \* the multicolvar's derivatives
Vals == {<<Mcv, c>> : c \in 1..NComp} \cup {<<St, 1>>}
StoredVals == {<<St, 1>>}

ASSUME TaskAssumption ==
  /\ NAtoms \in Nat \ {0} /\ NBlocks \in Nat \ {0} /\ NComp \in Nat \ {0}
  /\ CompBlocks \in [1..NComp -> SUBSET (1..NBlocks)]
  /\ BoxNoPbc \in [1..NComp -> BOOLEAN]
  /\ G \in [1..NComp -> [1..NBlocks -> Nat \ {0}]]
  /\ Pos \in [Atoms -> Nat \ {0}]
  /\ NTasks \in Nat \ {0} /\ NArgs \in Nat \ {0}
  /\ FD \in [1..NArgs -> Nat \ {0}]
  /\ ArgLists \subseteq [1..NArgs -> Vals]

NDerOut == NDerMcv + NTasks                 \* the function's derivatives
Slots == 0..(NDerOut - 1)
Out == <<"out", 1>>                         \* the function's output
\* The MultiValue positions: the multicolvar's components, the stored
\* value's stash and the output.
Streams == Vals \cup {Out}

VARIABLES
  blocks,  \* blocks[i]: ablocks[i][task_index], the atom of block i
  task,    \* myvals.getTaskIndex()
  args,    \* the function's arguments
  deriv,   \* deriv[s][k]: myvals.getDerivative(s, k)
  active,  \* active[s]: the active list of s (getActiveIndex)
  pc       \* "mcv", "function" or "done"

vars == <<blocks, task, args, deriv, active, pc>>

\* The layout of the function's derivatives, from requestArguments.
AC == INSTANCE ArgumentChain WITH
  Acts <- {Mcv, St},
  NComp <- [a \in {Mcv, St} |-> IF a = Mcv THEN NComp ELSE 1],
  NDer <- [a \in {Mcv, St} |-> IF a = Mcv THEN NDerMcv ELSE NTasks],
  IsAverage <- [a \in {Mcv, St} |-> FALSE],
  NVals <- [v \in Vals |-> NTasks],
  Rank0 <- [v \in Vals |-> FALSE],
  Constant <- [v \in Vals |-> FALSE],
  Ones <- [v \in Vals |-> FALSE],
  ArgStart <- 0,
  args <- args,
  stored <- StoredVals,
  distinct <- <<>>, starts <- <<>>, nder <- 0, nderivs <- 0,
  offsets <- <<>>, start <- 0, pc <- "request"

\* Block i of the task holds an atom no earlier block holds (performTask's
\* and setBoxDerivativesNoPbc's "newi").
NewBlock(b, i) == \A j \in 1..(i - 1) : b[j] # b[i]

AtomIndices(a) == {3 * a, 3 * a + 1, 3 * a + 2}

\* compute(): each block's atom derivatives for component c are added in
\* the atom's three slots (addAtomsDerivatives), repeated atoms summing.
AtomDerivs(c) ==
  [k \in Slots |->
     LET bs == {i \in CompBlocks[c] : k \in AtomIndices(blocks[i])}
     IN  MapThenSumSet(LAMBDA i : G[c][i], bs)]

\* Mutant: every block counted in the virial, repeated atoms included.
SetBoxDerivativesNoPbcAllBlocks(d) ==
  LET vir == MapThenSumSet(LAMBDA i : Pos[blocks[i]] * d[3 * blocks[i]], 1..NBlocks)
  IN  [k \in Slots |-> IF k \in NVir..(NVir + 8) THEN d[k] + vir ELSE d[k]]

\* setBoxDerivativesNoPbc: the virial takes position times derivative once
\* for every distinct atom, and is added to the nine box slots.
SetBoxDerivativesNoPbc(d) ==
  LET vir == MapThenSumSet(LAMBDA i : Pos[blocks[i]] * d[3 * blocks[i]],
                           {i \in 1..NBlocks : NewBlock(blocks, i)})
  IN  [k \in Slots |-> IF k \in NVir..(NVir + 8) THEN d[k] + vir ELSE d[k]]

Compute(c) ==
  IF BoxNoPbc[c] THEN SetBoxDerivativesNoPbc(AtomDerivs(c)) ELSE AtomDerivs(c)

\* Mutant: the indices of a repeated atom marked again.
McvActiveAllBlocks ==
  FoldLeftDomain(LAMBDA acc, i : acc \o <<3 * blocks[i], 3 * blocks[i] + 1, 3 * blocks[i] + 2>>,
                 <<>>, blocks)
    \o [m \in 1..9 |-> NVir + m - 1]

\* The indices performTask marks active in each component: three per
\* distinct atom, in block order, then the nine virial indices.
McvActive ==
  LET atomIdx(i) == IF NewBlock(blocks, i)
                      THEN <<3 * blocks[i], 3 * blocks[i] + 1, 3 * blocks[i] + 2>>
                      ELSE <<>>
  IN  FoldLeftDomain(LAMBDA acc, i : acc \o atomIdx(i), <<>>, blocks)
        \o [m \in 1..9 |-> NVir + m - 1]

\* MultiColvarBase::performTask for this task.
MultiColvarPerformTask ==
  /\ pc = "mcv"
  /\ deriv' = [s \in Streams |-> IF s[1] = Mcv THEN Compute(s[2]) ELSE deriv[s]]
  /\ active' = [s \in Streams |-> IF s[1] = Mcv THEN McvActive ELSE active[s]]
  /\ pc' = "function"
  /\ UNCHANGED <<blocks, task, args>>

\* arg_deriv_starts of the function.
Starts == AC!Layout[NArgs].s

\* getArgumentPositionInStream(j): a stored argument gets derivative 1 at
\* the task index of its stash, added on every call, and that index is
\* made active if nothing is; the stream position is returned.
ArgumentPositionInStream(r, j) ==
  LET v == args[j] IN
  IF v \in StoredVals
    THEN [r EXCEPT !.d[v][task] = @ + 1,
                   !.a[v] = IF @ = <<>> THEN <<task>> ELSE @]
    ELSE r

\* Mutant: the derivatives of an argument sharing its start with an earlier
\* one are skipped along with its indices.
VisitArgSkipsShared(r, j) ==
  LET r1    == ArgumentPositionInStream(r, j)
      istrn == args[j]
      kinds == r1.a[istrn]
      add(dd, kd) == [dd EXCEPT ![Starts[j] + kd] = @ + FD[j] * r1.d[istrn][kd]]
      shared == \E k \in 1..(j - 1) : Starts[k] = Starts[j]
  IN  IF shared THEN r1
      ELSE [r1 EXCEPT !.d[Out] = FoldLeft(add, @, kinds),
                      !.a[Out] = @ \o [k \in 1..Len(kinds) |-> Starts[j] + kinds[k]]]

\* One argument of the chained branch of FunctionOfVector::performTask:
\* for each active index of the argument, its derivative times the
\* function's is added at arg_deriv_starts[j] + index; the indices are
\* marked only for the first argument with this start.
VisitArg(r, j) ==
  LET r1    == ArgumentPositionInStream(r, j)
      istrn == args[j]
      kinds == r1.a[istrn]
      add(dd, kd) == [dd EXCEPT ![Starts[j] + kd] = @ + FD[j] * r1.d[istrn][kd]]
      shared == \E k \in 1..(j - 1) : Starts[k] = Starts[j]
      r2 == [r1 EXCEPT !.d[Out] = FoldLeft(add, @, kinds)]
  IN  IF shared THEN r2
      ELSE [r2 EXCEPT !.a[Out] = @ \o [k \in 1..Len(kinds) |-> Starts[j] + kinds[k]]]

\* FunctionOfVector::performTask in the chain.
FunctionOfVectorPerformTask ==
  /\ pc = "function"
  /\ LET r == FoldLeftDomain(VisitArg, [d |-> deriv, a |-> active], args)
     IN  /\ deriv' = r.d
         /\ active' = r.a
  /\ pc' = "done"
  /\ UNCHANGED <<blocks, task, args>>

Finished ==
  /\ pc = "done"
  /\ UNCHANGED vars

\* Any atoms in the blocks of the task (an ANGLE given three atoms a, b, c
\* has, from useFourAtomsForEachCV, the blocks a, b, b, c), any task index
\* and any argument list; the MultiValue is clear when the task starts.
Init ==
  /\ blocks \in [1..NBlocks -> Atoms]
  /\ task \in 0..(NTasks - 1)
  /\ args \in ArgLists
  /\ deriv = [s \in Streams |-> [k \in Slots |-> 0]]
  /\ active = [s \in Streams |-> <<>>]
  /\ pc = "mcv"

Next ==
  \/ MultiColvarPerformTask
  \/ FunctionOfVectorPerformTask
  \/ Finished

Spec == Init /\ [][Next]_vars

-----------------------------------------------------------------------------
(* Properties.                                                             *)

\* The start of the block of action a: the start its first argument got.
BlockStart(a) ==
  Starts[CHOOSE j \in 1..NArgs : args[j][1] = a /\ \A i \in 1..(j - 1) : args[i][1] # a]

\* The derivative of argument j in index m of its own space: for a
\* component of the multicolvar what compute() gave it, for the stored
\* vector 1 in the element of this task.
ArgDeriv(j, m) ==
  IF args[j] \in StoredVals THEN IF m = task THEN 1 ELSE 0
  ELSE IF m \in 0..(NDerMcv - 1) THEN deriv[args[j]][m] ELSE 0

\* Every stream of the task lists each index once, and lists every index
\* it holds a derivative in: what a consumer of the stream iterates over
\* (getActiveIndex) is exactly the sparse pattern, so no derivative is
\* dropped and none counted twice, repeated atoms of a colvar included.
SparsePatternSound ==
  pc # "mcv" =>
    \A s \in Streams :
      /\ IsInjective(active[s])
      /\ {k \in Slots : deriv[s][k] # 0} \subseteq Range(active[s])

\* The virial of a component that compute() builds with
\* setBoxDerivativesNoPbc is minus the sum, over the atoms of the colvar,
\* of the position times the derivative in that atom: an atom in two
\* blocks counts once.
VirialFromDistinctAtoms ==
  pc # "mcv" =>
    \A c \in 1..NComp : BoxNoPbc[c] =>
      \A m \in 0..8 :
        deriv[<<Mcv, c>>][NVir + m] =
          MapThenSumSet(LAMBDA a : Pos[a] * deriv[<<Mcv, c>>][3 * a],
                        {blocks[i] : i \in 1..NBlocks})

\* The chain rule through the chain: after FunctionOfVector's task, the
\* derivative of the output in each index of an argument's block is the
\* sum over the arguments from that block of the function's derivative
\* times the argument's derivative, each argument counted once.
ChainRuleExact ==
  pc = "done" =>
    \A k \in Slots :
      deriv[Out][k] =
        MapThenSumSet(LAMBDA j : FD[j] * ArgDeriv(j, k - BlockStart(args[j][1])),
                      {j \in 1..NArgs : k >= BlockStart(args[j][1])})
=============================================================================
