--------------------------- MODULE PlumedMainOld ---------------------------
(***************************************************************************)
(* The step cycle of the first copy of PlumedMain (src/src/core/           *)
(* PbcAction.cpp, lines 136-1195), the copy that keeps the MD data in      *)
(* Atoms.  Its loops are those of the second copy, line for line, and are  *)
(* taken from PlumedMain; what differs is written here:                    *)
(*   - prepareDependencies writes 1 through stopFlag when no pilot is on   *)
(*     step and Atoms holds no atom (the second copy asks the inputs);     *)
(*   - justCalculate sets up the constants when some input that is fixed   *)
(*     (masses, charges) has not calculated yet (the second copy drops     *)
(*     the test on fixed).                                                 *)
(* The variables are PlumedMain's, with the same meaning.                  *)
(***************************************************************************)
EXTENDS Naturals, Sequences, FiniteSets

CONSTANTS
  NActions, Deps, Pilots, Stride, Inputs, Biases, UpdateIfBegin, UpdateIfEnd,
  MaxStep, MaxCycles,
  Fixed,   \* the inputs whose ActionToPutData::fixed is true
  Natoms   \* atoms.getNatoms(), set by the host before init

VARIABLES
  initialized, step, active, isActive, pc, cursor, withUpdate, cycle,
  firststep, inputFirst, constCycles, calculated, forces, updateFlags,
  stopFlag, failed

vars == <<initialized, step, active, isActive, pc, cursor, withUpdate, cycle,
          firststep, inputFirst, constCycles, calculated, forces, updateFlags,
          stopFlag, failed>>

\* The second copy, over the same state, with what PlumedMainProofs shows
\* of it.  DomainDecomp, which only its inputsAreActive reads, has no
\* counterpart here.
P == INSTANCE PlumedMainProofs WITH DomainDecomp <- {}

\* What the constants can be: what PlumedMain assumes of them, the fixed
\* inputs among the inputs, and Atoms a count.  MCPlumedMain assumes it of
\* its constants.
ConstantsAssumption ==
  /\ P!NActionsAssumption /\ P!DepsAssumption /\ P!PilotsAssumption
  /\ P!InputsAssumption /\ P!ActionKindsAssumption /\ P!BoundsAssumption
  /\ Fixed \subseteq Inputs
  /\ Natoms \in Nat

Init == P!Init

-----------------------------------------------------------------------------
(* cmd() calls of the host (lines 313-353, 463-466, 582-586).              *)

\* cmd("init").
InitCmd == P!InitCmd

\* cmd("setStep") and cmd("setStepLong").
SetStep(s) == P!SetStep(s)

\* cmd("setStopFlag").
SetStopFlag == P!SetStopFlag

\* Mutant: activation that switches on the pilots alone.
PrepareDependenciesEffectNoDeps ==
  LET on == {p \in Pilots : P!OnStep(p)}
  IN  /\ isActive' = P!ActivatedNoDeps(on)
      /\ active' = (on # {})
      /\ IF on = {} /\ Natoms = 0
           THEN IF stopFlag = "NULL"
                  THEN failed' = "nullStopFlag" /\ stopFlag' = stopFlag
                  ELSE stopFlag' = "one" /\ failed' = failed
           ELSE UNCHANGED <<stopFlag, failed>>

\* prepareDependencies: deactivate all, activate the pilots on step, and
\* write 1 through stopFlag, NULL or not, when none is and Atoms is empty.
PrepareDependenciesEffect ==
  LET on == {p \in Pilots : P!OnStep(p)}
  IN  /\ isActive' = P!Activated(on)
      /\ active' = (on # {})
      /\ IF on = {} /\ Natoms = 0
           THEN IF stopFlag = "NULL"
                  THEN failed' = "nullStopFlag" /\ stopFlag' = stopFlag
                  ELSE stopFlag' = "one" /\ failed' = failed
           ELSE UNCHANGED <<stopFlag, failed>>

\* cmd("prepareDependencies"), and cmd("shareData") and cmd("prepareCalc"),
\* whose atoms.share() moves data only.
PrepareDependencies ==
  /\ P!HostMayCall
  /\ initialized
  /\ PrepareDependenciesEffect
  /\ UNCHANGED <<initialized, step, pc, cursor, withUpdate, cycle, firststep,
                 inputFirst, constCycles, calculated, forces, updateFlags>>

\* Mutant: a forward loop that starts at the second action.
StartForwardSkipFirst(upd) ==
  /\ pc' = "calc"
  /\ cursor' = 2
  /\ withUpdate' = upd
  /\ cycle' = cycle + 1
  /\ firststep' = \E i \in Inputs \cap Fixed : inputFirst[i]

\* The head of justCalculate: firststep when a fixed input has not yet
\* calculated.
StartForward(upd) ==
  /\ pc' = "calc"
  /\ cursor' = 1
  /\ withUpdate' = upd
  /\ cycle' = cycle + 1
  /\ firststep' = \E i \in Inputs \cap Fixed : inputFirst[i]

\* cmd("calc"): prepareCalc() then performCalc().
Calc ==
  /\ P!HostMayCall
  /\ initialized
  /\ cycle < MaxCycles
  /\ PrepareDependenciesEffect
  /\ IF active'
       THEN StartForward(TRUE)
       ELSE UNCHANGED <<pc, cursor, withUpdate, cycle, firststep>>
  /\ UNCHANGED <<initialized, step, inputFirst, constCycles, calculated,
                 forces, updateFlags>>

\* cmd("performCalc") and cmd("performCalcNoUpdate"); waitData only waits
\* for the inputs and for Atoms.
PerformCalc(upd) ==
  /\ P!HostMayCall
  /\ initialized
  /\ active
  /\ cycle < MaxCycles
  /\ StartForward(upd)
  /\ UNCHANGED <<initialized, step, active, isActive, inputFirst, constCycles,
                 calculated, forces, updateFlags, stopFlag, failed>>

\* cmd("update").
UpdateCmd == P!UpdateCmd

-----------------------------------------------------------------------------
(* The loops inside one cmd() call (lines 956-1085).                       *)

\* Mutant: a forward loop that does not clear the input forces.
JustCalculateStepNoClear ==
  /\ pc = "calc"
  /\ failed = "none"
  /\ cursor \in P!Acts
  /\ IF cursor \in isActive
       THEN /\ calculated' = [calculated EXCEPT ![cursor] = cycle]
            /\ inputFirst' = IF cursor \in Inputs
                               THEN [inputFirst EXCEPT ![cursor] = FALSE]
                               ELSE inputFirst
            /\ constCycles' = IF firststep THEN constCycles \cup {cycle}
                                           ELSE constCycles
       ELSE UNCHANGED <<calculated, inputFirst, constCycles>>
  /\ cursor' = cursor + 1
  /\ UNCHANGED <<initialized, step, active, isActive, pc, withUpdate, cycle,
                 firststep, forces, updateFlags, stopFlag, failed>>

JustCalculateStep == P!JustCalculateStep
JustCalculateEnd == P!JustCalculateEnd
BackwardPropagateStep == P!BackwardPropagateStep
BackwardPropagateEnd == P!BackwardPropagateEnd
UpdateStep == P!UpdateStep
UpdateEnd == P!UpdateEnd
Stopped == P!Stopped

Next ==
  \/ InitCmd
  \/ \E s \in 0..MaxStep : SetStep(s)
  \/ SetStopFlag
  \/ PrepareDependencies
  \/ Calc
  \/ \E upd \in BOOLEAN : PerformCalc(upd)
  \/ UpdateCmd
  \/ JustCalculateStep
  \/ JustCalculateEnd
  \/ BackwardPropagateStep
  \/ BackwardPropagateEnd
  \/ UpdateStep
  \/ UpdateEnd
  \/ Stopped

Spec == Init /\ [][Next]_vars

LoopStep ==
  \/ JustCalculateStep
  \/ JustCalculateEnd
  \/ BackwardPropagateStep
  \/ BackwardPropagateEnd
  \/ UpdateStep
  \/ UpdateEnd

\* As in the second copy, the loops are plain for loops of the calling
\* thread.
FairSpec == Spec /\ WF_vars(LoopStep)

-----------------------------------------------------------------------------
(* Properties: those of the second copy, read on this one.                 *)

\* When an active action is about to apply, its input forces are exactly
\* this cycle's deposits of its active consumers that had a force.
ForcesExact == P!ForcesExact

\* When an active action calculates, all it depends on has calculated in
\* the same forward loop.
CalculatedAfterDeps == P!CalculatedAfterDeps

\* The first copy too runs a legal schedule of StepSchedule, and ends every
\* step it begins.
ImplementsSchedule == P!ImplementsSchedule
=============================================================================
