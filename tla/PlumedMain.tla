----------------------------- MODULE PlumedMain -----------------------------
(***************************************************************************)
(* The step cycle of PlumedMain (src/src/core/PbcAction.cpp, the second    *)
(* copy of PlumedMain.cpp, lines 1197-2420): the host drives it through    *)
(* cmd(); prepareDependencies activates the pilots on step and,            *)
(* recursively, what they depend on; justCalculate runs the active         *)
(* actions forward in input order, backwardPropagate runs apply() on them  *)
(* in reverse order, and update runs the update() pass under the stack of  *)
(* UPDATE_IF flags.                                                        *)
(*                                                                         *)
(* Actions are the numbers 1..NActions in actionSet order.  The numbers    *)
(* carried by values are abstracted away; what is kept is, for every       *)
(* action, which consumers deposited a force on its input and in which     *)
(* forward loop, and in which forward loop it last calculated.             *)
(***************************************************************************)
EXTENDS Naturals, Sequences, FiniteSets

CONSTANTS
  NActions,       \* actionSet.size(); action a is the a-th line of the input
  Deps,           \* Deps[a]: the actions a depends on (getDependencies())
  Pilots,         \* the pilots vector: actions that are ActionPilot
  Stride,         \* Stride[p]: the STRIDE of pilot p
  Inputs,         \* the inputs vector built by setupInterfaceActions()
  DomainDecomp,   \* inputs whose onStep() is true (DOMAIN_DECOMPOSITION, natoms > 0)
  Biases,         \* actions whose own values carry a force (bias actions)
  UpdateIfBegin,  \* UPDATE_IF actions that open a block in beforeUpdate()
  UpdateIfEnd,    \* UPDATE_IF ... END actions that close one
  MaxStep,        \* largest step number the host passes to setStep
  MaxCycles       \* bound on the number of forward loops

Acts == 1..NActions

ASSUME NActionsAssumption == NActions \in Nat \ {0}

\* requestArguments adds a dependency only on an action created earlier,
\* and requestAtoms only on the interface actions created at setNatoms.
ASSUME DepsAssumption ==
  /\ Deps \in [Acts -> SUBSET Acts]
  /\ \A a \in Acts : \A d \in Deps[a] : d < a

ASSUME PilotsAssumption ==
  /\ Pilots \subseteq Acts
  /\ Stride \in [Pilots -> Nat \ {0}]

\* setupInterfaceActions keeps the interface actions with no dependency.
ASSUME InputsAssumption ==
  /\ Inputs \subseteq Acts \ Pilots
  /\ DomainDecomp \subseteq Inputs
  /\ \A i \in Inputs : Deps[i] = {}

ASSUME ActionKindsAssumption ==
  /\ Biases \subseteq Acts
  /\ UpdateIfBegin \subseteq Acts
  /\ UpdateIfEnd \subseteq Acts
  /\ UpdateIfBegin \cap UpdateIfEnd = {}

ASSUME BoundsAssumption == MaxStep \in Nat /\ MaxCycles \in Nat

VARIABLES
  initialized,  \* PlumedMain::initialized
  step,         \* PlumedMain::step
  active,       \* PlumedMain::active: some pilot is on step
  isActive,     \* the set of actions a with a->isActive()
  pc,           \* "idle" between cmd calls, else the loop in progress
  cursor,       \* the action that loop visits next
  withUpdate,   \* the loop was started by calc or performCalc: update follows
  cycle,        \* number of forward loops started so far
  firststep,    \* the local firststep of the running justCalculate
  inputFirst,   \* inputFirst[i]: ActionForInterface::firststep of input i
  constCycles,  \* forward loops in which setupConstantValues(true) ran
  calculated,   \* calculated[a]: the forward loop in which a last calculated
  forces,       \* forces[a]: deposits <<c, k>> on a since its clearInputForces
  updateFlags,  \* PlumedMain::updateFlags, top of the stack last
  stopFlag,     \* "NULL"; "zero"/"one": the value of the host's int it points at
  failed        \* "none", or the fatal outcome that ended the process

vars == <<initialized, step, active, isActive, pc, cursor, withUpdate, cycle,
          firststep, inputFirst, constCycles, calculated, forces, updateFlags,
          stopFlag, failed>>

Cycles == 0..MaxCycles
Deposit == Acts \X (1..MaxCycles)
Consumers(a) == {c \in Acts : a \in Deps[c]}

\* ActionPilot::onStep: the step is a multiple of the pilot's stride.
OnStep(p) == step % Stride[p] = 0

\* A set of actions that holds everything its members depend on.
DepClosed(S) == \A x \in S : Deps[x] \subseteq S

\* Action::activate switches an action on and, recursively, its
\* dependencies.  What the calls on the pilots P switch on is the least
\* set that holds P and is closed under dependencies: every set with both
\* properties holds it.
Needs(P) ==
  {a \in Acts : \A S \in SUBSET Acts : P \subseteq S /\ DepClosed(S) => a \in S}
ActivatedNoDeps(P) == P
Activated(P) == Needs(P)

\* ActionWithValue::getForcesFromValues: some value of a carries a force.
HasForce(a) == a \in Biases \/ forces[a] # {}

TypeOK ==
  /\ initialized \in BOOLEAN
  /\ step \in 0..MaxStep
  /\ active \in BOOLEAN
  /\ isActive \subseteq Acts
  /\ pc \in {"idle", "calc", "apply", "update"}
  /\ cursor \in 0..(NActions + 1)
  /\ withUpdate \in BOOLEAN
  /\ cycle \in Cycles
  /\ firststep \in BOOLEAN
  /\ inputFirst \in [Inputs -> BOOLEAN]
  /\ constCycles \subseteq 1..MaxCycles
  /\ calculated \in [Acts -> Cycles]
  /\ forces \in [Acts -> SUBSET Deposit]
  /\ updateFlags \in Seq(BOOLEAN)
  /\ stopFlag \in {"NULL", "zero", "one"}
  /\ failed \in {"none", "nullStopFlag", "emptyUpdateFlags"}

Init ==
  /\ initialized = FALSE
  /\ step = 0
  /\ active = FALSE
  /\ isActive = {}
  /\ pc = "idle"
  /\ cursor = 0
  /\ withUpdate = FALSE
  /\ cycle = 0
  /\ firststep = FALSE
  /\ inputFirst = [i \in Inputs |-> TRUE]
  /\ constCycles = {}
  /\ calculated = [a \in Acts |-> 0]
  /\ forces = [a \in Acts |-> {}]
  /\ updateFlags = << >>
  /\ stopFlag = "NULL"
  /\ failed = "none"

-----------------------------------------------------------------------------
(* cmd() calls of the host.  The host calls one at a time, between loops,  *)
(* and stops calling once the process failed or the stop flag reads 1.     *)

HostMayCall == pc = "idle" /\ failed = "none" /\ stopFlag # "one"

\* cmd("init"): init() reads the input; the actions are the constants.
InitCmd ==
  /\ HostMayCall
  /\ ~initialized
  /\ initialized' = TRUE
  /\ UNCHANGED <<step, active, isActive, pc, cursor, withUpdate, cycle,
                 firststep, inputFirst, constCycles, calculated, forces,
                 updateFlags, stopFlag, failed>>

\* cmd("setStep"): step=*val; startStep() only resets dataCanBeSet.
SetStep(s) ==
  /\ HostMayCall
  /\ initialized
  /\ step' = s
  /\ UNCHANGED <<initialized, active, isActive, pc, cursor, withUpdate, cycle,
                 firststep, inputFirst, constCycles, calculated, forces,
                 updateFlags, stopFlag, failed>>

\* cmd("setStopFlag"): stopFlag points at the host's int, which holds 0.
SetStopFlag ==
  /\ HostMayCall
  /\ initialized
  /\ stopFlag = "NULL"
  /\ stopFlag' = "zero"
  /\ UNCHANGED <<initialized, step, active, isActive, pc, cursor, withUpdate,
                 cycle, firststep, inputFirst, constCycles, calculated, forces,
                 updateFlags, failed>>

\* PlumedMain::inputsAreActive: some input has onStep() true.
InputsAreActive == DomainDecomp # {}

\* PlumedMain::prepareDependencies, as a relation on isActive, active,
\* stopFlag and failed: deactivate all, activate the pilots on step, and
\* write 1 through stopFlag when nothing is active, NULL or not.
PrepareDependenciesEffect ==
  LET on == {p \in Pilots : OnStep(p)}
  IN  /\ isActive' = Activated(on)
      /\ active' = (on # {})
      /\ IF on = {} /\ ~InputsAreActive
           THEN IF stopFlag = "NULL"
                  THEN failed' = "nullStopFlag" /\ stopFlag' = stopFlag
                  ELSE stopFlag' = "one" /\ failed' = failed
           ELSE UNCHANGED <<stopFlag, failed>>

\* cmd("prepareDependencies"), and cmd("prepareCalc") whose shareData()
\* only calls the no-op ActionToPutData::share.
PrepareDependencies ==
  /\ HostMayCall
  /\ initialized
  /\ PrepareDependenciesEffect
  /\ UNCHANGED <<initialized, step, pc, cursor, withUpdate, cycle, firststep,
                 inputFirst, constCycles, calculated, forces, updateFlags>>

\* The head of justCalculate: bias=0, firststep from the inputs' flags.
StartForward(upd) ==
  /\ pc' = "calc"
  /\ cursor' = 1
  /\ withUpdate' = upd
  /\ cycle' = cycle + 1
  /\ firststep' = \E i \in Inputs : inputFirst[i]

\* cmd("calc"): prepareCalc() then performCalc(); the loops run only when
\* prepareDependencies found a pilot on step.
Calc ==
  /\ HostMayCall
  /\ initialized
  /\ cycle < MaxCycles
  /\ PrepareDependenciesEffect
  /\ IF active'
       THEN StartForward(TRUE)
       ELSE UNCHANGED <<pc, cursor, withUpdate, cycle, firststep>>
  /\ UNCHANGED <<initialized, step, inputFirst, constCycles, calculated,
                 forces, updateFlags>>

\* cmd("performCalc") (upd) and cmd("performCalcNoUpdate") (~upd);
\* waitData only copies input data.  When ~active every phase returns.
PerformCalc(upd) ==
  /\ HostMayCall
  /\ initialized
  /\ active
  /\ cycle < MaxCycles
  /\ StartForward(upd)
  /\ UNCHANGED <<initialized, step, active, isActive, inputFirst, constCycles,
                 calculated, forces, updateFlags, stopFlag, failed>>

\* The head of update(): firstUpdate() then updateFlags.push(true).
StartUpdate ==
  /\ pc' = "update"
  /\ cursor' = 1
  /\ updateFlags' = Append(updateFlags, TRUE)

\* cmd("update").
UpdateCmd ==
  /\ HostMayCall
  /\ initialized
  /\ active
  /\ StartUpdate
  /\ UNCHANGED <<initialized, step, active, isActive, withUpdate, cycle,
                 firststep, inputFirst, constCycles, calculated, forces,
                 stopFlag, failed>>

-----------------------------------------------------------------------------
(* The loops PLUMED runs inside one cmd() call, one action per iteration.  *)

\* ActionWithValue::clearInputForces, called first for each active action.
ClearInputForcesNoop(a) == forces
ClearInputForces(a) == [forces EXCEPT ![a] = {}]

\* One iteration of the forward loop of justCalculate over actionSet.
JustCalculateStep ==
  /\ pc = "calc"
  /\ failed = "none"
  /\ cursor \in Acts
  /\ IF cursor \in isActive
       THEN /\ forces' = ClearInputForces(cursor)
            /\ calculated' = [calculated EXCEPT ![cursor] = cycle]
            /\ inputFirst' = IF cursor \in Inputs
                               THEN [inputFirst EXCEPT ![cursor] = FALSE]
                               ELSE inputFirst
            /\ constCycles' = IF firststep THEN constCycles \cup {cycle}
                                           ELSE constCycles
       ELSE UNCHANGED <<forces, calculated, inputFirst, constCycles>>
  /\ cursor' = cursor + 1
  /\ UNCHANGED <<initialized, step, active, isActive, pc, withUpdate, cycle,
                 firststep, updateFlags, stopFlag, failed>>

\* The forward loop is over: backwardPropagate starts from the last action.
JustCalculateEnd ==
  /\ pc = "calc"
  /\ failed = "none"
  /\ cursor = NActions + 1
  /\ pc' = "apply"
  /\ cursor' = NActions
  /\ UNCHANGED <<initialized, step, active, isActive, withUpdate, cycle,
                 firststep, inputFirst, constCycles, calculated, forces,
                 updateFlags, stopFlag, failed>>

\* A reverse loop whose end test lets the iterator run one step past the
\* first action.
InBackwardLoopPastFirst == cursor \in 0..NActions

\* The reverse iterator of backwardPropagate still points into actionSet.
InBackwardLoop == cursor \in Acts

\* One iteration of backwardPropagate: an active action with a force on its
\* values passes it on to the actions it depends on (apply()).
BackwardPropagateStep ==
  /\ pc = "apply"
  /\ failed = "none"
  /\ InBackwardLoop
  /\ forces' = IF cursor \in isActive /\ HasForce(cursor)
                 THEN [d \in Acts |-> IF d \in Deps[cursor]
                                        THEN forces[d] \cup {<<cursor, cycle>>}
                                        ELSE forces[d]]
                 ELSE forces
  /\ cursor' = cursor - 1
  /\ UNCHANGED <<initialized, step, active, isActive, pc, withUpdate, cycle,
                 firststep, inputFirst, constCycles, calculated, updateFlags,
                 stopFlag, failed>>

\* The backward loop is over: performCalc goes on with update(),
\* performCalcNoUpdate returns to the host.
BackwardPropagateEnd ==
  /\ pc = "apply"
  /\ failed = "none"
  /\ cursor = 0
  /\ IF withUpdate
       THEN StartUpdate
       ELSE pc' = "idle" /\ UNCHANGED <<cursor, updateFlags>>
  /\ UNCHANGED <<initialized, step, active, isActive, withUpdate, cycle,
                 firststep, inputFirst, constCycles, calculated, forces,
                 stopFlag, failed>>

\* The stack after beforeUpdate() of action a: an UPDATE_IF pushes whether
\* its condition holds, an UPDATE_IF ... END pops.
FlagsAfter(a, on) ==
  CASE a \in UpdateIfBegin -> Append(updateFlags, on)
    [] a \in UpdateIfEnd   -> SubSeq(updateFlags, 1, Len(updateFlags) - 1)
    [] OTHER               -> updateFlags

\* std::stack::pop or top on an empty stack: the process is undefined.
EmptyStackUsed(a, on) ==
  \/ a \in UpdateIfEnd /\ updateFlags = << >>
  \/ a \in isActive /\ FlagsAfter(a, on) = << >>

\* One iteration of the update loop: beforeUpdate(), then update() when the
\* action is active and the top of updateFlags is true.
UpdateStep ==
  /\ pc = "update"
  /\ failed = "none"
  /\ cursor \in Acts
  /\ \E on \in BOOLEAN :
       IF EmptyStackUsed(cursor, on)
         THEN failed' = "emptyUpdateFlags" /\ UNCHANGED <<updateFlags, cursor>>
         ELSE /\ updateFlags' = FlagsAfter(cursor, on)
              /\ cursor' = cursor + 1
              /\ UNCHANGED failed
  /\ UNCHANGED <<initialized, step, active, isActive, pc, withUpdate, cycle,
                 firststep, inputFirst, constCycles, calculated, forces,
                 stopFlag>>

\* The end of update(): the stack is emptied, after which the check for
\* "non matching changes in the update flags" cannot fire.
UpdateEnd ==
  /\ pc = "update"
  /\ failed = "none"
  /\ cursor = NActions + 1
  /\ updateFlags' = << >>
  /\ pc' = "idle"
  /\ cursor' = 0
  /\ UNCHANGED <<initialized, step, active, isActive, withUpdate, cycle,
                 firststep, inputFirst, constCycles, calculated, forces,
                 stopFlag, failed>>

\* The process ended: a fatal error, or the host left its loop on stop.
Stopped ==
  /\ failed # "none" \/ (stopFlag = "one" /\ pc = "idle")
  /\ UNCHANGED vars

Next ==
  \/ InitCmd
  \/ \E s \in 0..MaxStep : SetStep(s)
  \/ SetStopFlag
  \/ PrepareDependencies
  \/ Calc
  \/ \E upd \in BOOLEAN : PerformCalc(upd)
  \/ UpdateCmd
  \/ JustCalculateStep
  \/ JustCalculateEnd
  \/ BackwardPropagateStep
  \/ BackwardPropagateEnd
  \/ UpdateStep
  \/ UpdateEnd
  \/ Stopped

Spec == Init /\ [][Next]_vars

-----------------------------------------------------------------------------
(* Properties.                                                             *)

\* Force completeness of backwardPropagate: when an active action is about
\* to apply, the forces on its input are exactly those deposited in this
\* cycle by each of its active consumers that had a force, none left over
\* from an earlier step and none still missing.
ForcesExact ==
  pc = "apply" /\ cursor \in isActive =>
    forces[cursor] = {<<c, cycle>> : c \in {x \in isActive \cap Consumers(cursor) :
                                               HasForce(x)}}

\* Forward order of justCalculate: when an active action calculates, every
\* action it depends on has already calculated in the same forward loop.
CalculatedAfterDeps ==
  pc = "calc" /\ cursor \in isActive =>
    \A d \in Deps[cursor] : calculated[d] = cycle

\* prepareDependencies writes through stopFlag only after the host gave one.
StopFlagNeverNull == failed # "nullStopFlag"

\* The constants that depend on masses and charges are set up in the first
\* forward loop only (comment in justCalculate; spec: "computed once").
ConstantsSetupOnce == Cardinality(constCycles) <= 1

\* update() reports UPDATE_IF blocks left open or closed twice ("non
\* matching changes in the update flags").
UnbalancedUpdateIfReported ==
  [][pc = "update" /\ cursor = NActions + 1 /\ Len(updateFlags) # 1
       => failed' = "updateFlags"]_vars

-----------------------------------------------------------------------------
(* Liveness and refinement.                                                *)

\* The iterations of the loops PLUMED runs inside one cmd() call.
LoopStep ==
  \/ JustCalculateStep
  \/ JustCalculateEnd
  \/ BackwardPropagateStep
  \/ BackwardPropagateEnd
  \/ UpdateStep
  \/ UpdateEnd

\* The loops are plain for loops of the thread that called cmd(): nothing
\* they wait on, and the host cannot call again before they return.  The
\* host itself owes nothing: no fairness on its calls.
FairSpec == Spec /\ WF_vars(LoopStep)

\* The forward pass, the backward pass and the update pass seen as a step
\* of StepSchedule: the actions scheduled are the active ones, those with a
\* smaller number than the cursor have calculated, those with a larger one
\* have applied.
SchedPhase ==
  CASE pc = "calc"  -> "forward"
    [] pc = "apply" -> "backward"
    [] OTHER        -> "idle"

SchedScheduled == IF pc \in {"calc", "apply"} THEN isActive ELSE {}

SchedFwdDone ==
  CASE pc = "calc"  -> {a \in isActive : a < cursor}
    [] pc = "apply" -> isActive
    [] OTHER        -> {}

SchedBwdDone == IF pc = "apply" THEN {a \in isActive : a > cursor} ELSE {}

Sched == INSTANCE StepSchedule WITH
  phase <- SchedPhase, scheduled <- SchedScheduled,
  fwdDone <- SchedFwdDone, bwdDone <- SchedBwdDone

\* The order of the input is a legal schedule: prepareDependencies
\* activates a set closed under dependencies, justCalculate calculates each
\* active action after what it depends on, and backwardPropagate applies
\* each after every active action that consumes it; and, the loops being
\* fair, every scheduled action is calculated and applied and the step
\* ends.
ImplementsSchedule == Sched!FairSpec
=============================================================================
