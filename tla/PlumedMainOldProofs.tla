----------------------- MODULE PlumedMainOldProofs ------------------------
(***************************************************************************)
(* Proofs about the step cycle of the first copy of PlumedMain, for every  *)
(* value of the constants.  Most of its steps are those of the second     *)
(* copy, and what PlumedMainProofs shows of them (SharedNext) is taken    *)
(* from there; prepareDependencies, calc and performCalc, which differ,   *)
(* are shown here to keep the same invariants.                            *)
(***************************************************************************)
EXTENDS PlumedMainOld, TLAPS

\* The invariants of the second copy, read on this one.
OldInv == P!TInv /\ P!FInv /\ P!OInv

\* The assumptions of PlumedMain, as its proofs cite them.
LEMMA PlumedMainAssumptions ==
  ASSUME ConstantsAssumption
  PROVE  /\ P!NActionsAssumption /\ P!DepsAssumption /\ P!PilotsAssumption
         /\ P!InputsAssumption /\ P!ActionKindsAssumption /\ P!BoundsAssumption
BY DEF ConstantsAssumption

LEMMA OldInvInit ==
  ASSUME ConstantsAssumption
  PROVE  Init => OldInv
<1>1. P!Init => P!TInv /\ P!OInv
  BY PlumedMainAssumptions, P!OInvInit
<1>2. P!Init => P!FInv
  BY PlumedMainAssumptions, P!IInvInit DEF P!IInv
<1>. QED BY <1>1, <1>2 DEF Init, OldInv

\* The steps this copy takes from the second one are its SharedNext.
LEMMA SharedSteps ==
  \/ InitCmd \/ \E s \in 0..MaxStep : SetStep(s) \/ SetStopFlag \/ UpdateCmd
  \/ JustCalculateStep \/ JustCalculateEnd \/ BackwardPropagateStep
  \/ BackwardPropagateEnd \/ UpdateStep \/ UpdateEnd \/ Stopped
  => P!SharedNext
BY DEF InitCmd, SetStep, SetStopFlag, UpdateCmd, JustCalculateStep,
       JustCalculateEnd, BackwardPropagateStep, BackwardPropagateEnd,
       UpdateStep, UpdateEnd, Stopped, P!SharedNext

\* prepareDependencies of this copy switches on the same closed set of
\* actions as the second copy's; what it writes through stopFlag differs,
\* not its type.
LEMMA PrepareDependenciesEffectOK ==
  ASSUME ConstantsAssumption, P!TypeOK, PrepareDependenciesEffect
  PROVE  /\ isActive' \subseteq P!Acts
         /\ P!DepClosed(isActive')
         /\ active' \in BOOLEAN
         /\ stopFlag' \in {"NULL", "zero", "one"}
         /\ failed' \in {"none", "nullStopFlag", "emptyUpdateFlags"}
<1>1. {p \in Pilots : P!OnStep(p)} \in SUBSET P!Acts
  BY DEF ConstantsAssumption, P!PilotsAssumption
<1>2. P!DepClosed(isActive')
  BY <1>1, PlumedMainAssumptions, P!ActivatedClosed DEF PrepareDependenciesEffect
<1>3. isActive' \subseteq P!Acts
  BY DEF PrepareDependenciesEffect, P!Activated, P!Needs
<1>. QED BY <1>2, <1>3 DEF PrepareDependenciesEffect, P!TypeOK

\* A forward loop started by calc or performCalc: the loop is at its first
\* action in a cycle within the bound, with nothing passed yet.
LEMMA StartForwardOK ==
  ASSUME ConstantsAssumption, P!TInv, NEW upd \in BOOLEAN, StartForward(upd),
         cycle < MaxCycles,
         isActive' \subseteq P!Acts, P!DepClosed(isActive')
  PROVE  /\ pc' = "calc" /\ cursor' = 1 /\ withUpdate' \in BOOLEAN
         /\ firststep' \in BOOLEAN /\ cycle' \in 1..MaxCycles
         /\ P!FInv' /\ P!OInv'
<1>1. pc' = "calc" /\ cursor' = 1 /\ withUpdate' \in BOOLEAN
      /\ firststep' \in BOOLEAN /\ cycle' \in 1..MaxCycles
  BY PlumedMainAssumptions DEF StartForward, P!TInv, P!TypeOK, P!Cycles,
                                P!BoundsAssumption
<1>2. \A a \in isActive' : ~(a < cursor')
  BY <1>1 DEF P!Acts
<1>. QED BY <1>1, <1>2 DEF P!FInv, P!OInv

LEMMA OldInvNext ==
  ASSUME ConstantsAssumption
  PROVE  OldInv /\ [Next]_vars => OldInv'
<1> SUFFICES ASSUME OldInv, [Next]_vars PROVE OldInv'
  OBVIOUS
<1>0. NActions \in Nat \ {0} /\ MaxCycles \in Nat
  BY PlumedMainAssumptions DEF P!NActionsAssumption, P!BoundsAssumption
<1>. USE <1>0, PlumedMainAssumptions
<1>1. CASE P!SharedNext
  <2>1. P!TInv'
    BY <1>1, P!TInvShared DEF OldInv
  <2>2. P!FInv'
    BY <1>1, P!FInvShared DEF OldInv, P!IInv
  <2>3. P!OInv'
    BY <1>1, P!OInvShared DEF OldInv
  <2>. QED BY <2>1, <2>2, <2>3 DEF OldInv
<1>2. CASE PrepareDependencies
  <2>1. /\ isActive' \subseteq P!Acts /\ P!DepClosed(isActive')
        /\ active' \in BOOLEAN
        /\ stopFlag' \in {"NULL", "zero", "one"}
        /\ failed' \in {"none", "nullStopFlag", "emptyUpdateFlags"}
    BY <1>2, PrepareDependenciesEffectOK DEF PrepareDependencies, OldInv, P!TInv
  <2>2. pc = "idle" /\ pc' = pc
    BY <1>2 DEF PrepareDependencies, P!HostMayCall
  <2>. QED BY <1>2, <2>1, <2>2
           DEF PrepareDependencies, OldInv, P!TInv, P!TypeOK, P!FInv, P!OInv
<1>3. CASE Calc
  <2>1. /\ isActive' \subseteq P!Acts /\ P!DepClosed(isActive')
        /\ active' \in BOOLEAN
        /\ stopFlag' \in {"NULL", "zero", "one"}
        /\ failed' \in {"none", "nullStopFlag", "emptyUpdateFlags"}
    BY <1>3, PrepareDependenciesEffectOK DEF Calc, OldInv, P!TInv
  <2>2. CASE active'
    <3>1. /\ pc' = "calc" /\ cursor' = 1 /\ withUpdate' \in BOOLEAN
          /\ firststep' \in BOOLEAN /\ cycle' \in 1..MaxCycles
          /\ P!FInv' /\ P!OInv'
      BY <1>3, <2>1, <2>2, StartForwardOK DEF Calc, OldInv
    <3>. QED BY <1>3, <2>1, <3>1 DEF Calc, OldInv, P!TInv, P!TypeOK, P!Cycles
  <2>3. CASE ~active'
    <3>1. pc = "idle" /\ pc' = pc
      BY <1>3, <2>3 DEF Calc, P!HostMayCall
    <3>. QED BY <1>3, <2>1, <2>3, <3>1
             DEF Calc, OldInv, P!TInv, P!TypeOK, P!FInv, P!OInv
  <2>. QED BY <2>2, <2>3
<1>4. ASSUME NEW upd \in BOOLEAN, PerformCalc(upd) PROVE OldInv'
  <2>1. /\ pc' = "calc" /\ cursor' = 1 /\ withUpdate' \in BOOLEAN
        /\ firststep' \in BOOLEAN /\ cycle' \in 1..MaxCycles
        /\ P!FInv' /\ P!OInv'
    <3>1. isActive' \subseteq P!Acts /\ P!DepClosed(isActive')
      BY <1>4 DEF PerformCalc, OldInv, P!TInv, P!TypeOK, P!OInv
    <3>. QED BY <1>4, <3>1, StartForwardOK DEF PerformCalc, OldInv
  <2>. QED BY <1>4, <2>1 DEF PerformCalc, OldInv, P!TInv, P!TypeOK, P!Cycles
<1>5. CASE UNCHANGED vars
  <2>1. P!TInv'
    BY <1>5 DEF vars, OldInv, P!TInv, P!TypeOK
  <2>2. P!FInv'
    BY <1>5 DEF vars, OldInv, P!FInv, P!Passed, P!HasForce, P!Consumers
  <2>3. P!OInv'
    BY <1>5 DEF vars, OldInv, P!OInv, P!DepClosed
  <2>. QED BY <2>1, <2>2, <2>3 DEF OldInv
<1>. QED BY <1>1, <1>2, <1>3, <1>4, <1>5, SharedSteps DEF Next


\* Every behaviour of the first copy keeps the invariants of the second.
LEMMA OldInvariant ==
  ASSUME ConstantsAssumption
  PROVE  Spec => []OldInv
BY OldInvInit, OldInvNext, PTL DEF Spec

\* Type correctness of the first copy's step cycle, whatever the host
\* calls in whatever order.
THEOREM OldTypeCorrect ==
  ASSUME ConstantsAssumption
  PROVE  Spec => []P!TypeOK
BY OldInvariant, PTL DEF OldInv, P!TInv

\* Force completeness of the first copy's backwardPropagate: when an
\* active action is about to apply, its input forces are exactly this
\* cycle's deposits of its active consumers that had a force.
THEOREM OldForcesExactCorrect ==
  ASSUME ConstantsAssumption
  PROVE  Spec => []ForcesExact
<1>1. OldInv => ForcesExact
  BY PlumedMainAssumptions, P!IInvForcesExact DEF OldInv, P!IInv, ForcesExact
<1>. QED BY <1>1, OldInvariant, PTL

\* Forward order of the first copy's justCalculate, whose firststep test
\* differs from the second copy's: every action an active action depends
\* on has calculated in the same forward loop.
THEOREM OldCalculatedAfterDepsCorrect ==
  ASSUME ConstantsAssumption
  PROVE  Spec => []CalculatedAfterDeps
<1>1. OldInv => CalculatedAfterDeps
  BY PlumedMainAssumptions, P!OInvCalculatedAfterDeps
  DEF OldInv, CalculatedAfterDeps
<1>. QED BY <1>1, OldInvariant, PTL


\* Each step of the first copy is a step of StepSchedule or a stutter under
\* the second copy's mapping.
LEMMA OldSchedNext ==
  ASSUME ConstantsAssumption
  PROVE  OldInv /\ [Next]_vars => [P!Sched!Next]_(P!Sched!vars)
<1> SUFFICES ASSUME OldInv, [Next]_vars PROVE [P!Sched!Next]_(P!Sched!vars)
  OBVIOUS
<1>. USE PlumedMainAssumptions
<1>1. CASE P!SharedNext
  BY <1>1, P!SchedShared DEF OldInv
<1>2. CASE PrepareDependencies
  <2>1. pc = "idle" /\ pc' = pc
    BY <1>2 DEF PrepareDependencies, P!HostMayCall
  <2>. QED BY <2>1, P!IdleStutter
<1>3. CASE Calc
  <2>1. isActive' \subseteq P!Acts /\ P!DepClosed(isActive')
    BY <1>3, PrepareDependenciesEffectOK DEF Calc, OldInv, P!TInv
  <2>2. CASE active'
    <3>1. pc = "idle" /\ pc' = "calc" /\ cursor' = 1
      BY <1>3, <2>2 DEF Calc, StartForward, P!HostMayCall
    <3>. QED BY <2>1, <3>1, P!BeginStep DEF P!Sched!Next
  <2>3. CASE ~active'
    <3>1. pc = "idle" /\ pc' = pc
      BY <1>3, <2>3 DEF Calc, P!HostMayCall
    <3>. QED BY <3>1, P!IdleStutter
  <2>. QED BY <2>2, <2>3
<1>4. ASSUME NEW upd \in BOOLEAN, PerformCalc(upd)
      PROVE  [P!Sched!Next]_(P!Sched!vars)
  <2>1. isActive' \subseteq P!Acts /\ P!DepClosed(isActive')
    BY <1>4 DEF PerformCalc, OldInv, P!TInv, P!TypeOK, P!OInv
  <2>2. pc = "idle" /\ pc' = "calc" /\ cursor' = 1
    BY <1>4 DEF PerformCalc, StartForward, P!HostMayCall
  <2>. QED BY <2>1, <2>2, P!BeginStep DEF P!Sched!Next
<1>5. CASE UNCHANGED vars
  BY <1>5 DEF vars, P!Sched!vars, P!SchedPhase, P!SchedScheduled,
              P!SchedFwdDone, P!SchedBwdDone
<1>. QED BY <1>1, <1>2, <1>3, <1>4, <1>5, SharedSteps DEF Next

\* Safety of ImplementsSchedule for the first copy: mapped as the second
\* copy is, every behaviour of it is a behaviour of StepSchedule.
THEOREM OldScheduleRefinement ==
  ASSUME ConstantsAssumption
  PROVE  Spec => P!Sched!Spec
<1>1. Init => P!Sched!Init
  BY PlumedMainAssumptions, P!SchedInit DEF Init
<1>. QED BY <1>1, OldInvariant, OldSchedNext, PTL DEF Spec, P!Sched!Spec

=============================================================================
