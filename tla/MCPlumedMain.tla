---------------------------- MODULE MCPlumedMain ----------------------------
(***************************************************************************)
(* A small input for the PlumedMain step cycle:                            *)
(*   1  pos: positions put by the MD engine (input)                        *)
(*   2  Charges: put by the MD engine, used by no action (input)           *)
(*   3  d: DISTANCE ATOMS=...                    depends on 1              *)
(*   4  RESTRAINT ARG=d       STRIDE=2 (a bias)  depends on 3              *)
(*   5  UPDATE_IF ARG=d       STRIDE=3           depends on 3              *)
(*   6  PRINT ARG=d           STRIDE=3           depends on 3              *)
(*   7  UPDATE_IF ARG=d END   STRIDE=3                                     *)
(*   8  UPDATE_IF ARG=d END   STRIDE=5, closing no block                   *)
(* With steps 0..3 there are steps where every pilot is on step, steps     *)
(* where only the bias is, and a step where none is.  Action 8 empties    *)
(* the flag stack: at step 0 it is active and reads the top of the empty  *)
(* stack; at other steps the stack is left empty.                          *)
(*                                                                         *)
(* The same input is given to both copies of PlumedMain: Init picks the   *)
(* copy the host links against (`copy'), and the other one stays in its    *)
(* initial state.  In the first copy Charges is fixed and Atoms is empty. *)
(***************************************************************************)
EXTENDS PlumedMain

MCDeps == [a \in 1..8 |-> CASE a \in {1, 2, 7} -> {}
                            [] a = 3 -> {1}
                            [] OTHER -> {3}]

MCStride == [p \in {4, 5, 6, 7, 8} |-> CASE p = 4 -> 2
                                        [] p = 8 -> 5
                                        [] OTHER -> 3]

CONSTANTS
  OldNatoms   \* atoms.getNatoms() of the first copy

VARIABLES
  copy, oInitialized, oStep, oActive, oIsActive, oPc, oCursor, oWithUpdate,
  oCycle, oFirststep, oInputFirst, oConstCycles, oCalculated, oForces,
  oUpdateFlags, oStopFlag, oFailed

oVars == <<oInitialized, oStep, oActive, oIsActive, oPc, oCursor, oWithUpdate,
           oCycle, oFirststep, oInputFirst, oConstCycles, oCalculated, oForces,
           oUpdateFlags, oStopFlag, oFailed>>

MCFixed == {2}

Old == INSTANCE PlumedMainOldProofs WITH
  Fixed <- MCFixed, Natoms <- OldNatoms,
  initialized <- oInitialized, step <- oStep, active <- oActive,
  isActive <- oIsActive, pc <- oPc, cursor <- oCursor,
  withUpdate <- oWithUpdate, cycle <- oCycle, firststep <- oFirststep,
  inputFirst <- oInputFirst, constCycles <- oConstCycles,
  calculated <- oCalculated, forces <- oForces, updateFlags <- oUpdateFlags,
  stopFlag <- oStopFlag, failed <- oFailed

\* The first copy's constants: PlumedMain's, its fixed inputs among the
\* inputs, Atoms a count.
ASSUME OldStepAssumption == Old!ConstantsAssumption

MCInit == Init /\ Old!Init /\ copy \in {"new", "old"}

MCNext ==
  \/ copy = "new" /\ Next /\ UNCHANGED <<copy, oVars>>
  \/ copy = "old" /\ Old!Next /\ UNCHANGED <<copy, vars>>

MCSpec == MCInit /\ [][MCNext]_<<copy, vars, oVars>>

\* The loops of the copy that runs are fair, as in FairSpec.
MCFairSpec ==
  /\ MCSpec
  /\ WF_<<copy, vars, oVars>>(copy = "new" /\ LoopStep /\ UNCHANGED <<copy, oVars>>)
  /\ WF_<<copy, vars, oVars>>(copy = "old" /\ Old!LoopStep /\ UNCHANGED <<copy, vars>>)

\* The first copy's backwardPropagate applies exactly this cycle's forces.
OldForcesExact == Old!ForcesExact

\* The first copy's justCalculate runs an action after its dependencies.
OldCalculatedAfterDeps == Old!CalculatedAfterDeps

\* The first copy, read through the same mapping, implements StepSchedule.
OldImplementsSchedule == Old!ImplementsSchedule
=============================================================================
