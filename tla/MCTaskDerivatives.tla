------------------------- MODULE MCTaskDerivatives -------------------------
(* One task of an ANGLE-like multicolvar with four blocks over three atoms *)
(* and two components, followed by a function of three arguments taken    *)
(* from its components and from a stored vector of two elements; or, in   *)
(* the other part, a FunctionOfVector outside a chain whose three         *)
(* arguments are scalars, vectors of three and time series of two; or a  *)
(* histogram of two arguments, scalars or vectors of one or two values,   *)
(* with or without HEIGHTS and UNORMALIZED.                               *)
(* Init picks the part; the others keep one initial state.               *)
EXTENDS TaskDerivatives

CONSTANTS m, st

VARIABLES part, fargs, ntasks, done, fderiv, factive, fpc,
  hkeys, hargs, harg, chain, hvals, actions, hcfg, norm, weight,
  hdone, hpc

MCCompBlocks == <<{1, 2, 3, 4}, {1, 4}>>
MCBoxNoPbc == <<TRUE, TRUE>>
MCG == <<<<1, 2, 3, 4>>, <<5, 6, 7, 8>>>>
MCPos == [a \in 0..2 |-> a + 1]
MCFD == <<1, 10, 100>>

\* Argument lists with a component of the multicolvar (so that the
\* function is in its chain).
Chained(l) == \E j \in DOMAIN l : l[j][1] = m

\* ... and with the stored vector at most once.
MCArgLists ==
  {l \in [1..3 -> Vals] : Chained(l) /\ Cardinality({j \in 1..3 : l[j][1] = st}) <= 1}

\* All of them.
MCAllArgLists == {l \in [1..3 -> Vals] : Chained(l)}

\* A scalar, a vector of three values and a time series of two.
MCKinds == {[rank |-> 0, len |-> 1, ts |-> FALSE],
            [rank |-> 1, len |-> 3, ts |-> FALSE],
            [rank |-> 1, len |-> 2, ts |-> TRUE]}

FV == INSTANCE FunctionOfVectorTasks WITH
  Kinds <- MCKinds, NArgs <- NArgs, FD <- FD,
  fargs <- fargs, ntasks <- ntasks, done <- done, deriv <- fderiv,
  active <- factive, pc <- fpc

ASSUME MCVectorTasksAssumption == FV!VectorTasksAssumption

\* A scalar, a vector of one value and a vector of two.
MCHKinds == {[rank |-> 0, len |-> 1], [rank |-> 1, len |-> 1],
             [rank |-> 1, len |-> 2]}

H == INSTANCE HistogramTasks WITH HKinds <- MCHKinds, NHArgs <- 2, MaxH <- 1

ASSUME MCHistogramAssumption == H!HistogramAssumption

fvVars == <<fargs, ntasks, done, fderiv, factive, fpc>>

hVars == <<hkeys, hargs, harg, chain, hvals, actions, hcfg, norm,
           weight, hdone, hpc>>

\* The first part with its block atoms, task and arguments fixed.
TDPinned ==
  /\ Init
  /\ blocks = [i \in 1..NBlocks |-> 0]
  /\ task = 0
  /\ args = CHOOSE l \in ArgLists : TRUE

\* The second part with scalar arguments.
FVPinned ==
  /\ FV!Init
  /\ fargs = [j \in 1..NArgs |-> CHOOSE a \in MCKinds : a.rank = 0]

\* The third part with two scalars and no keys.
HPinned ==
  /\ hkeys = [heights |-> FALSE, unorm |-> FALSE]
  /\ hargs = [j \in 1..2 |-> [rank |-> 0, len |-> 1]]
  /\ harg = [rank |-> 0, len |-> 1]
  /\ chain = FALSE
  /\ hvals = [t \in H!HTasks |-> 0]
  /\ actions = <<>>
  /\ hcfg = [ntasks |-> 0, unorm |-> FALSE, heights |-> FALSE, ends |-> <<>>]
  /\ norm = 0
  /\ weight = [n |-> 0, d |-> 1]
  /\ hdone = {}
  /\ hpc = "shortcut"

\* Init picks the part; the parts that do not run keep one initial state.
MCInit ==
  \/ part = "chain" /\ Init /\ FVPinned /\ HPinned
  \/ part = "nochain" /\ TDPinned /\ FV!Init /\ HPinned
  \/ part = "hist" /\ TDPinned /\ FVPinned /\ H!Init

MCNext ==
  \/ part = "chain" /\ Next /\ UNCHANGED <<part, fvVars, hVars>>
  \/ part = "nochain" /\ FV!Next /\ UNCHANGED <<part, vars, hVars>>
  \/ part = "hist" /\ H!Next /\ UNCHANGED <<part, vars, fvVars>>

MCSpec == MCInit /\ [][MCNext]_<<part, vars, fvVars, hVars>>

\* FunctionOfVectorTasks's properties, on the second part.
NonChainDerivativesExact == FV!NonChainDerivativesExact
FinalTasksFollowShortestSeries == FV!FinalTasksFollowShortestSeries

\* HistogramTasks's property, on the third part.
TasksCoverValues == H!TasksCoverValues
=============================================================================
