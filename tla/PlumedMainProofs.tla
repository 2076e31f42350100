------------------------- MODULE PlumedMainProofs -------------------------
(***************************************************************************)
(* Proofs about the PlumedMain step cycle, for every number of actions,    *)
(* every dependency relation pointing to earlier actions, every set of     *)
(* pilots and strides and every bound.                                     *)
(***************************************************************************)
EXTENDS PlumedMain, SequenceTheorems, TLAPS

(* The type invariant strengthened with the one fact it needs: inside the *)
(* forward and backward loops a forward loop has been started, so the     *)
(* stamp <<a, cycle>> written by apply() lies in 1..MaxCycles.            *)
TInv ==
  /\ TypeOK
  /\ pc \in {"calc", "apply"} => cycle \in 1..MaxCycles


\* The stack after beforeUpdate() is a stack of flags, unless the action
\* pops an empty stack.
LEMMA FlagsAfterType ==
  ASSUME updateFlags \in Seq(BOOLEAN), NEW a, NEW on \in BOOLEAN,
         ~(a \in UpdateIfEnd /\ updateFlags = << >>)
  PROVE  FlagsAfter(a, on) \in Seq(BOOLEAN)
<1>1. CASE a \in UpdateIfBegin
  <2>1. FlagsAfter(a, on) = Append(updateFlags, on)
    BY <1>1, ActionKindsAssumption DEF FlagsAfter
  <2>. QED BY <2>1, AppendProperties
<1>2. CASE a \notin UpdateIfBegin /\ a \in UpdateIfEnd
  <2>1. Len(updateFlags) \in Nat /\ Len(updateFlags) # 0
    BY <1>2, LenProperties, EmptySeq
  <2>2. \A i \in 1..(Len(updateFlags) - 1) : updateFlags[i] \in BOOLEAN
    BY <2>1, LenProperties
  <2>3. SubSeq(updateFlags, 1, Len(updateFlags) - 1) \in Seq(BOOLEAN)
    BY <2>1, <2>2, SubSeqProperties
  <2>. QED BY <1>2, <2>3, ActionKindsAssumption DEF FlagsAfter
<1>3. CASE a \notin UpdateIfBegin /\ a \notin UpdateIfEnd
  BY <1>3 DEF FlagsAfter
<1>. QED BY <1>1, <1>2, <1>3

\* prepareDependencies leaves the typed variables it writes well typed.
LEMMA PrepareDependenciesType ==
  ASSUME TypeOK, PrepareDependenciesEffect
  PROVE  /\ isActive' \subseteq Acts
         /\ active' \in BOOLEAN
         /\ stopFlag' \in {"NULL", "zero", "one"}
         /\ failed' \in {"none", "nullStopFlag", "emptyUpdateFlags"}
BY DEF PrepareDependenciesEffect, Activated, Needs, TypeOK

LEMMA TInvInit == Init => TInv
<1> SUFFICES ASSUME Init PROVE TInv
  OBVIOUS
<1>1. calculated \in [Acts -> Cycles]
  BY BoundsAssumption DEF Init, Cycles
<1>2. forces \in [Acts -> SUBSET Deposit]
  BY DEF Init
<1>3. updateFlags \in Seq(BOOLEAN)
  BY EmptySeq DEF Init
<1>4. inputFirst \in [Inputs -> BOOLEAN] /\ cycle \in Cycles
  BY BoundsAssumption DEF Init, Cycles
<1>5. cursor \in 0..(NActions + 1) /\ step \in 0..MaxStep
  BY BoundsAssumption, NActionsAssumption DEF Init
<1>. QED BY <1>1, <1>2, <1>3, <1>4, <1>5 DEF Init, TInv, TypeOK

\* The steps the two copies of PlumedMain share: every host call but those
\* that prepare the dependencies and start a forward loop, and every loop.
SharedNext ==
  \/ InitCmd
  \/ \E s \in 0..MaxStep : SetStep(s)
  \/ SetStopFlag
  \/ UpdateCmd
  \/ JustCalculateStep
  \/ JustCalculateEnd
  \/ BackwardPropagateStep
  \/ BackwardPropagateEnd
  \/ UpdateStep
  \/ UpdateEnd
  \/ Stopped

LEMMA TInvShared == TInv /\ SharedNext => TInv'
<1> SUFFICES ASSUME TInv, SharedNext PROVE TInv'
  OBVIOUS
<1>. USE BoundsAssumption, NActionsAssumption DEF TInv, TypeOK, Cycles, Deposit, Acts
<1>1. CASE InitCmd
  BY <1>1 DEF InitCmd
<1>2. ASSUME NEW s \in 0..MaxStep, SetStep(s) PROVE TInv'
  BY <1>2 DEF SetStep
<1>3. CASE SetStopFlag
  BY <1>3 DEF SetStopFlag
<1>4. CASE UpdateCmd
  <2>1. Append(updateFlags, TRUE) \in Seq(BOOLEAN)
    BY AppendProperties
  <2>. QED BY <1>4, <2>1 DEF UpdateCmd, StartUpdate
<1>5. CASE JustCalculateStep
  <2>1. cursor \in Acts /\ cycle \in 1..MaxCycles /\ pc' = "calc"
    BY <1>5 DEF JustCalculateStep
  <2>2. CASE cursor \in isActive
    <3>0. /\ forces' = ClearInputForces(cursor)
          /\ calculated' = [calculated EXCEPT ![cursor] = cycle]
          /\ inputFirst' = IF cursor \in Inputs
                             THEN [inputFirst EXCEPT ![cursor] = FALSE]
                             ELSE inputFirst
          /\ constCycles' = IF firststep THEN constCycles \cup {cycle}
                                         ELSE constCycles
      BY <1>5, <2>2 DEF JustCalculateStep
    <3>1. forces' \in [Acts -> SUBSET Deposit]
      BY <2>1, <3>0 DEF ClearInputForces
    <3>2. calculated' \in [Acts -> Cycles]
      BY <2>1, <3>0
    <3>3. inputFirst' \in [Inputs -> BOOLEAN]
      BY <3>0
    <3>4. constCycles' \subseteq 1..MaxCycles
      BY <2>1, <3>0
    <3>5. UNCHANGED <<initialized, step, active, isActive, withUpdate, cycle,
                      firststep, updateFlags, stopFlag, failed>>
          /\ cursor' = cursor + 1
      BY <1>5 DEF JustCalculateStep
    <3>. QED BY <2>1, <3>1, <3>2, <3>3, <3>4, <3>5
  <2>3. CASE cursor \notin isActive
    <3>1. UNCHANGED <<initialized, step, active, isActive, withUpdate, cycle,
                      firststep, updateFlags, stopFlag, failed, forces,
                      calculated, inputFirst, constCycles>>
          /\ cursor' = cursor + 1
      BY <1>5, <2>3 DEF JustCalculateStep
    <3>. QED BY <2>1, <3>1
  <2>. QED BY <2>2, <2>3
<1>6. CASE JustCalculateEnd
  BY <1>6 DEF JustCalculateEnd
<1>7. CASE BackwardPropagateStep
  <2>1. cursor \in Acts /\ cycle \in 1..MaxCycles /\ pc' = "apply"
    BY <1>7 DEF BackwardPropagateStep, InBackwardLoop
  <2>2. <<cursor, cycle>> \in Deposit
    BY <2>1
  <2>3. forces' \in [Acts -> SUBSET Deposit]
    BY <1>7, <2>2 DEF BackwardPropagateStep
  <2>. QED BY <1>7, <2>1, <2>3 DEF BackwardPropagateStep
<1>8. CASE BackwardPropagateEnd
  <2>1. CASE withUpdate
    <3>1. Append(updateFlags, TRUE) \in Seq(BOOLEAN)
      BY AppendProperties
    <3>2. /\ pc' = "update" /\ cursor' = 1
          /\ updateFlags' = Append(updateFlags, TRUE)
          /\ UNCHANGED <<initialized, step, active, isActive, withUpdate, cycle,
                         firststep, inputFirst, constCycles, calculated, forces,
                         stopFlag, failed>>
      BY <1>8, <2>1 DEF BackwardPropagateEnd, StartUpdate
    <3>. QED BY <3>1, <3>2
  <2>2. CASE ~withUpdate
    BY <1>8, <2>2 DEF BackwardPropagateEnd
  <2>. QED BY <2>1, <2>2
<1>9. CASE UpdateStep
  <2>1. PICK on \in BOOLEAN :
          IF EmptyStackUsed(cursor, on)
            THEN failed' = "emptyUpdateFlags" /\ UNCHANGED <<updateFlags, cursor>>
            ELSE /\ updateFlags' = FlagsAfter(cursor, on)
                 /\ cursor' = cursor + 1
                 /\ UNCHANGED failed
    BY <1>9 DEF UpdateStep
  <2>2. CASE EmptyStackUsed(cursor, on)
    BY <1>9, <2>1, <2>2 DEF UpdateStep
  <2>3. CASE ~EmptyStackUsed(cursor, on)
    <3>1. updateFlags' \in Seq(BOOLEAN)
      BY <2>1, <2>3, FlagsAfterType DEF EmptyStackUsed
    <3>2. cursor' = cursor + 1 /\ failed' = failed
      BY <2>1, <2>3
    <3>3. cursor \in Acts /\ pc' = "update"
      BY <1>9 DEF UpdateStep
    <3>. QED BY <1>9, <3>1, <3>2, <3>3 DEF UpdateStep
  <2>. QED BY <2>2, <2>3
<1>10. CASE UpdateEnd
  BY <1>10 DEF UpdateEnd
<1>11. CASE Stopped
  BY <1>11 DEF Stopped, vars
<1>. QED
  BY <1>1, <1>2, <1>3, <1>4, <1>5, <1>6, <1>7, <1>8, <1>9, <1>10, <1>11
  DEF SharedNext

LEMMA TInvNext == TInv /\ [Next]_vars => TInv'
<1> SUFFICES ASSUME TInv, [Next]_vars PROVE TInv'
  OBVIOUS
<1>. USE BoundsAssumption, NActionsAssumption DEF TInv, TypeOK, Cycles, Deposit, Acts
<1>1. CASE PrepareDependencies
  BY <1>1, PrepareDependenciesType DEF PrepareDependencies
<1>2. CASE Calc
  <2>1. /\ isActive' \subseteq Acts
        /\ active' \in BOOLEAN
        /\ stopFlag' \in {"NULL", "zero", "one"}
        /\ failed' \in {"none", "nullStopFlag", "emptyUpdateFlags"}
    BY <1>2, PrepareDependenciesType DEF Calc
  <2>2. CASE active'
    BY <1>2, <2>1, <2>2 DEF Calc, StartForward
  <2>3. CASE ~active'
    BY <1>2, <2>1, <2>3 DEF Calc
  <2>. QED BY <2>2, <2>3
<1>3. ASSUME NEW upd \in BOOLEAN, PerformCalc(upd) PROVE TInv'
  BY <1>3 DEF PerformCalc, StartForward
<1>4. CASE UNCHANGED vars
  BY <1>4 DEF vars
<1>. QED BY <1>1, <1>2, <1>3, <1>4, TInvShared DEF Next, SharedNext

\* Type correctness of the step cycle: whatever the host calls in whatever
\* order, every variable keeps its type.
THEOREM TypeCorrect == Spec => []TypeOK
<1>1. Spec => []TInv
  BY TInvInit, TInvNext, PTL DEF Spec
<1>. QED BY <1>1, PTL DEF TInv

-----------------------------------------------------------------------------
(* Force completeness.  The backward loop at cursor k has visited exactly  *)
(* the actions above k, so the forces on an active action a <= k are the  *)
(* deposits of its active consumers above k that had a force; the forward *)
(* loop has cleared every active action it passed.                        *)

\* The consumers of a that have passed a force on in the running backward loop.
Passed(a) == {x \in isActive \cap Consumers(a) : x > cursor /\ HasForce(x)}

FInv ==
  /\ pc = "calc" => \A a \in isActive : a < cursor => forces[a] = {}
  /\ pc = "apply" => \A a \in isActive : a <= cursor =>
                       forces[a] = {<<c, cycle>> : c \in Passed(a)}

IInv == TInv /\ FInv

LEMMA IInvInit == Init => IInv
BY TInvInit DEF Init, IInv, FInv

\* One step of the backward loop at cursor k leaves the forces of every
\* action at or above k alone: apply() writes only to dependencies, which
\* are below k.
LEMMA BackwardFrame ==
  ASSUME TInv, BackwardPropagateStep,
         NEW x \in Acts, x >= cursor
  PROVE  forces'[x] = forces[x]
<1>1. cursor \in Acts
  BY DEF BackwardPropagateStep, InBackwardLoop
<1>2. x \notin Deps[cursor]
  BY <1>1, DepsAssumption DEF Acts
<1>. QED BY <1>2, DepsAssumption DEF BackwardPropagateStep, TInv, TypeOK

LEMMA FInvBackward ==
  ASSUME TInv, FInv, BackwardPropagateStep
  PROVE  FInv'
<1>1. /\ pc = "apply" /\ pc' = "apply"
      /\ cursor \in Acts /\ cursor' = cursor - 1
      /\ isActive' = isActive /\ cycle' = cycle
  BY DEF BackwardPropagateStep, InBackwardLoop
<1>. DEFINE k == cursor
            cond == k \in isActive /\ HasForce(k)
<1>2. SUFFICES ASSUME NEW a \in isActive, a <= k - 1
               PROVE  forces'[a] = {<<c, cycle>> :
                          c \in {x \in isActive \cap Consumers(a) :
                                   x > k - 1 /\ (x \in Biases \/ forces'[x] # {})}}
  BY <1>1 DEF FInv, Passed, HasForce
<1>3. a \in Acts /\ k \in Acts /\ a < k
  BY <1>1, <1>2 DEF TInv, TypeOK, Acts
<1>4. forces'[a] = IF cond /\ a \in Deps[k] THEN forces[a] \cup {<<k, cycle>>}
                                             ELSE forces[a]
  BY <1>3 DEF BackwardPropagateStep, TInv, TypeOK
<1>5. \A x \in Acts : x >= k => forces'[x] = forces[x]
  BY BackwardFrame
<1>6. {x \in isActive \cap Consumers(a) :
         x > k - 1 /\ (x \in Biases \/ forces'[x] # {})}
      = Passed(a) \cup (IF cond /\ a \in Deps[k] THEN {k} ELSE {})
  BY <1>3, <1>5 DEF Passed, HasForce, Consumers, Acts
<1>7. forces[a] = {<<c, cycle>> : c \in Passed(a)}
  BY <1>1, <1>2, <1>3 DEF FInv, Acts
<1>. QED BY <1>4, <1>6, <1>7

LEMMA FInvShared == IInv /\ SharedNext => FInv'
<1> SUFFICES ASSUME IInv, SharedNext PROVE FInv'
  OBVIOUS
<1>. USE DEF IInv
<1>1. CASE InitCmd
  BY <1>1 DEF InitCmd, HostMayCall, FInv
<1>2. ASSUME NEW s \in 0..MaxStep, SetStep(s) PROVE FInv'
  BY <1>2 DEF SetStep, HostMayCall, FInv
<1>3. CASE SetStopFlag
  BY <1>3 DEF SetStopFlag, HostMayCall, FInv
<1>4. CASE UpdateCmd
  BY <1>4 DEF UpdateCmd, StartUpdate, HostMayCall, FInv
<1>5. CASE JustCalculateStep
  <2>1. /\ pc = "calc" /\ pc' = "calc" /\ cursor \in Acts
        /\ cursor' = cursor + 1 /\ isActive' = isActive
    BY <1>5 DEF JustCalculateStep
  <2>2. SUFFICES ASSUME NEW a \in isActive, a < cursor + 1
                 PROVE  forces'[a] = {}
    BY <2>1 DEF FInv
  <2>3. CASE a = cursor
    BY <1>5, <2>2, <2>3 DEF JustCalculateStep, ClearInputForces, TInv, TypeOK
  <2>4. CASE a # cursor
    <3>1. a < cursor /\ a \in Acts
      BY <2>1, <2>2, <2>4 DEF TInv, TypeOK, Acts
    <3>2. forces'[a] = forces[a]
      BY <1>5, <3>1 DEF JustCalculateStep, ClearInputForces, TInv, TypeOK
    <3>. QED BY <2>1, <3>1, <3>2 DEF FInv
  <2>. QED BY <2>3, <2>4
<1>6. CASE JustCalculateEnd
  <2>1. /\ pc = "calc" /\ pc' = "apply" /\ cursor = NActions + 1
        /\ cursor' = NActions /\ UNCHANGED <<isActive, forces, cycle>>
    BY <1>6 DEF JustCalculateEnd
  <2>2. SUFFICES ASSUME NEW a \in isActive, a <= NActions
                 PROVE  forces[a] = {<<c, cycle>> : c \in Passed(a)}'
    BY <2>1 DEF FInv
  <2>3. forces[a] = {}
    BY <2>1, <2>2, NActionsAssumption DEF FInv, TInv, TypeOK, Acts
  <2>4. Passed(a)' = {}
    BY <2>1, NActionsAssumption DEF Passed, Consumers, Acts
  <2>. QED BY <2>1, <2>3, <2>4
<1>7. CASE BackwardPropagateStep
  BY <1>7, FInvBackward
<1>8. CASE BackwardPropagateEnd
  BY <1>8 DEF BackwardPropagateEnd, StartUpdate, FInv
<1>9. CASE UpdateStep
  BY <1>9 DEF UpdateStep, FInv
<1>10. CASE UpdateEnd
  BY <1>10 DEF UpdateEnd, FInv
<1>11. CASE Stopped
  BY <1>11 DEF Stopped, vars, FInv, Passed, HasForce, Consumers
<1>. QED
  BY <1>1, <1>2, <1>3, <1>4, <1>5, <1>6, <1>7, <1>8, <1>9, <1>10, <1>11
  DEF SharedNext

LEMMA IInvNext == IInv /\ [Next]_vars => IInv'
<1> SUFFICES ASSUME IInv, [Next]_vars PROVE IInv'
  OBVIOUS
<1>1. TInv'
  BY TInvNext DEF IInv
<1>2. FInv'
  <2>. USE DEF IInv
  <2>1. CASE PrepareDependencies
    BY <2>1 DEF PrepareDependencies, HostMayCall, FInv
  <2>2. CASE Calc
    <3>1. CASE active'
      <4>1. pc' = "calc" /\ cursor' = 1
        BY <2>2, <3>1 DEF Calc, StartForward
      <4>2. isActive' \subseteq 1..NActions
        BY <1>1 DEF TInv, TypeOK, Acts
      <4>. QED BY <4>1, <4>2 DEF FInv
    <3>2. CASE ~active'
      BY <2>2, <3>2 DEF Calc, HostMayCall, FInv
    <3>. QED BY <3>1, <3>2
  <2>3. ASSUME NEW upd \in BOOLEAN, PerformCalc(upd) PROVE FInv'
    BY <1>1, <2>3 DEF PerformCalc, StartForward, HostMayCall, FInv, TInv, TypeOK, Acts
  <2>4. CASE UNCHANGED vars
    BY <2>4 DEF vars, FInv, Passed, HasForce, Consumers
  <2>. QED BY <2>1, <2>2, <2>3, <2>4, FInvShared DEF Next, SharedNext
<1>. QED BY <1>1, <1>2 DEF IInv

\* The inductive invariant gives force completeness: the consumers of the
\* action at the cursor all lie above it.
LEMMA IInvForcesExact == IInv => ForcesExact
<1> SUFFICES ASSUME IInv, pc = "apply", cursor \in isActive
             PROVE  forces[cursor] =
                      {<<c, cycle>> : c \in {x \in isActive \cap Consumers(cursor) :
                                               HasForce(x)}}
  BY DEF ForcesExact
<1>1. cursor \in Acts
  BY DEF IInv, TInv, TypeOK
<1>2. \A x \in Consumers(cursor) : x > cursor
  BY <1>1, DepsAssumption DEF Consumers, Acts
<1>3. Passed(cursor) = {x \in isActive \cap Consumers(cursor) : HasForce(x)}
  BY <1>2 DEF Passed
<1>4. forces[cursor] = {<<c, cycle>> : c \in Passed(cursor)}
  BY <1>1 DEF IInv, FInv, TInv, TypeOK, Acts
<1>. QED BY <1>3, <1>4

\* Force completeness of backwardPropagate: for every input, every host
\* call sequence and every bound, when an active action is about to apply,
\* its input forces are exactly this cycle's deposits of its active
\* consumers that had a force.
THEOREM ForcesExactCorrect == Spec => []ForcesExact
<1>1. Spec => []IInv
  BY IInvInit, IInvNext, PTL DEF Spec
<1>. QED BY <1>1, IInvForcesExact, PTL

-----------------------------------------------------------------------------
(* Forward order.  prepareDependencies switches on a set closed under     *)
(* dependencies, and the forward loop at cursor k has stamped every       *)
(* active action below k with the running cycle.  Dependencies point to   *)
(* earlier actions, so when an active action calculates, all it depends  *)
(* on is active, below it, and stamped.                                   *)

\* What prepareDependencies switches on holds everything its members
\* depend on.
LEMMA ActivatedClosed ==
  ASSUME NEW P \in SUBSET Acts
  PROVE  DepClosed(Activated(P))
<1> SUFFICES ASSUME NEW x \in Activated(P), NEW d \in Deps[x]
             PROVE  d \in Activated(P)
  BY DEF DepClosed
<1>1. x \in Acts /\ d \in Acts
  BY DepsAssumption DEF Activated, Needs
<1>2. \A S \in SUBSET Acts : P \subseteq S /\ DepClosed(S) => d \in S
  BY DEF Activated, Needs, DepClosed
<1>. QED BY <1>1, <1>2 DEF Activated, Needs

\* The forward loop has stamped every active action it has passed.
OInv ==
  /\ DepClosed(isActive)
  /\ pc = "calc" => \A a \in isActive : a < cursor => calculated[a] = cycle

LEMMA OInvInit == Init => TInv /\ OInv
BY TInvInit DEF Init, OInv, DepClosed

\* prepareDependencies leaves isActive closed under dependencies.
LEMMA PrepareDependenciesClosed ==
  ASSUME PrepareDependenciesEffect
  PROVE  DepClosed(isActive')
<1>1. {p \in Pilots : OnStep(p)} \in SUBSET Acts
  BY PilotsAssumption
<1>. QED BY <1>1, ActivatedClosed DEF PrepareDependenciesEffect

LEMMA OInvShared == TInv /\ OInv /\ SharedNext => OInv'
<1> SUFFICES ASSUME TInv, OInv, SharedNext PROVE OInv'
  OBVIOUS
<1>1. CASE InitCmd
  BY <1>1 DEF InitCmd, HostMayCall, OInv
<1>2. ASSUME NEW s \in 0..MaxStep, SetStep(s) PROVE OInv'
  BY <1>2 DEF SetStep, HostMayCall, OInv
<1>3. CASE SetStopFlag
  BY <1>3 DEF SetStopFlag, HostMayCall, OInv
<1>4. CASE UpdateCmd
  BY <1>4 DEF UpdateCmd, StartUpdate, HostMayCall, OInv
<1>5. CASE JustCalculateStep
  <2>1. /\ pc = "calc" /\ pc' = "calc" /\ cursor \in Acts
        /\ cursor' = cursor + 1 /\ isActive' = isActive /\ cycle' = cycle
    BY <1>5 DEF JustCalculateStep
  <2>2. calculated' = IF cursor \in isActive
                        THEN [calculated EXCEPT ![cursor] = cycle]
                        ELSE calculated
    BY <1>5 DEF JustCalculateStep
  <2>3. SUFFICES ASSUME NEW a \in isActive, a < cursor + 1
                 PROVE  calculated'[a] = cycle
    BY <2>1 DEF OInv
  <2>4. a \in Acts /\ calculated \in [Acts -> Cycles]
    BY DEF TInv, TypeOK
  <2>5. CASE a = cursor
    BY <2>2, <2>4, <2>5
  <2>6. CASE a # cursor
    <3>1. a < cursor
      BY <2>1, <2>3, <2>4, <2>6 DEF Acts
    <3>2. calculated'[a] = calculated[a]
      BY <2>2, <2>4, <2>6
    <3>. QED BY <2>1, <3>1, <3>2 DEF OInv
  <2>. QED BY <2>5, <2>6
<1>6. CASE JustCalculateEnd
  BY <1>6 DEF JustCalculateEnd, OInv
<1>7. CASE BackwardPropagateStep
  BY <1>7 DEF BackwardPropagateStep, OInv
<1>8. CASE BackwardPropagateEnd
  BY <1>8 DEF BackwardPropagateEnd, StartUpdate, OInv
<1>9. CASE UpdateStep
  BY <1>9 DEF UpdateStep, OInv
<1>10. CASE UpdateEnd
  BY <1>10 DEF UpdateEnd, OInv
<1>11. CASE Stopped
  BY <1>11 DEF Stopped, vars, OInv, DepClosed
<1>. QED
  BY <1>1, <1>2, <1>3, <1>4, <1>5, <1>6, <1>7, <1>8, <1>9, <1>10, <1>11
  DEF SharedNext

LEMMA OInvNext == TInv /\ OInv /\ [Next]_vars => OInv'
<1> SUFFICES ASSUME TInv, OInv, [Next]_vars PROVE OInv'
  OBVIOUS
<1>1. CASE PrepareDependencies
  BY <1>1, PrepareDependenciesClosed DEF PrepareDependencies, HostMayCall, OInv
<1>2. CASE Calc
  <2>1. DepClosed(isActive')
    BY <1>2, PrepareDependenciesClosed DEF Calc
  <2>2. CASE active'
    <3>1. pc' = "calc" /\ cursor' = 1
      BY <1>2, <2>2 DEF Calc, StartForward
    <3>2. isActive' \subseteq Acts
      BY <1>2, PrepareDependenciesType DEF Calc, TInv
    <3>. QED BY <2>1, <3>1, <3>2 DEF OInv, Acts
  <2>3. CASE ~active'
    BY <1>2, <2>1, <2>3 DEF Calc, HostMayCall, OInv
  <2>. QED BY <2>2, <2>3
<1>3. ASSUME NEW upd \in BOOLEAN, PerformCalc(upd) PROVE OInv'
  BY <1>3 DEF PerformCalc, StartForward, OInv, TInv, TypeOK, Acts
<1>4. CASE UNCHANGED vars
  BY <1>4 DEF vars, OInv, DepClosed
<1>. QED BY <1>1, <1>2, <1>3, <1>4, OInvShared DEF Next, SharedNext

\* The inductive invariant gives the forward order: what the action at the
\* cursor depends on is active and below it.
LEMMA OInvCalculatedAfterDeps == TInv /\ OInv => CalculatedAfterDeps
<1> SUFFICES ASSUME TInv, OInv, pc = "calc", cursor \in isActive,
                    NEW d \in Deps[cursor]
             PROVE  calculated[d] = cycle
  BY DEF CalculatedAfterDeps
<1>1. cursor \in Acts
  BY DEF TInv, TypeOK
<1>2. d \in isActive
  BY DEF OInv, DepClosed
<1>3. d < cursor
  BY <1>1, DepsAssumption
<1>. QED BY <1>2, <1>3 DEF OInv

\* Forward order of justCalculate: for every input, every host call
\* sequence and every bound, when an active action calculates, every action
\* it depends on has calculated in the same forward loop.
THEOREM CalculatedAfterDepsCorrect == Spec => []CalculatedAfterDeps
<1>1. Spec => [](TInv /\ OInv)
  BY OInvInit, OInvNext, TInvNext, PTL DEF Spec
<1>. QED BY <1>1, OInvCalculatedAfterDeps, PTL

-----------------------------------------------------------------------------
(* The order of the input is a legal schedule: the safety part of         *)
(* ImplementsSchedule.  Under the mapping Sched, a step that leaves pc    *)
(* outside the forward and backward loops is a stutter; calc and          *)
(* performCalc begin a step with the active set, which OInv keeps closed; *)
(* an iteration of the forward loop on an active action is Forward of it, *)
(* its dependencies being active and below it; an iteration of the        *)
(* backward loop on an active action is Backward of it, its consumers     *)
(* being above it; the ends of the loops end the passes.                  *)

\* Outside the loops the mapping shows an idle schedule.
LEMMA IdleStutter ==
  ASSUME pc \notin {"calc", "apply"}, pc' \notin {"calc", "apply"}
  PROVE  UNCHANGED Sched!vars
BY DEF Sched!vars, SchedPhase, SchedScheduled, SchedFwdDone, SchedBwdDone

LEMMA SchedInit == Init => Sched!Init
BY DEF Init, Sched!Init, SchedPhase, SchedScheduled, SchedFwdDone, SchedBwdDone

\* A forward loop begun by calc or performCalc begins a step of the
\* schedule with the active set.
LEMMA BeginStep ==
  ASSUME pc = "idle", pc' = "calc", cursor' = 1,
         isActive' \subseteq Acts, DepClosed(isActive')
  PROVE  Sched!Begin
<1>1. Sched!Closed(isActive')
  BY DEF DepClosed, Sched!Closed
<1>2. \A a \in isActive' : ~(a < 1)
  BY NActionsAssumption DEF Acts
<1>3. SchedFwdDone' = {} /\ SchedFwdDone = {}
  BY <1>2 DEF SchedFwdDone
<1>4. SchedBwdDone' = {} /\ SchedBwdDone = {}
  BY DEF SchedBwdDone
<1>5. /\ SchedPhase = "idle" /\ SchedPhase' = "forward"
      /\ SchedScheduled' = isActive'
  BY DEF SchedPhase, SchedScheduled
<1>. QED BY <1>1, <1>3, <1>4, <1>5 DEF Sched!Begin, Sched!Acts, Acts

\* An iteration of the forward loop on an active action calculates it
\* after all it depends on; on an inactive one the schedule stutters.
LEMMA ForwardIteration ==
  ASSUME TInv, OInv, JustCalculateStep
  PROVE  [Sched!Next]_(Sched!vars)
<1>1. /\ pc = "calc" /\ pc' = "calc" /\ cursor \in Acts
      /\ cursor' = cursor + 1 /\ isActive' = isActive
  BY DEF JustCalculateStep
<1>2. /\ SchedPhase = "forward" /\ SchedPhase' = "forward"
      /\ SchedScheduled = isActive /\ SchedScheduled' = isActive
      /\ SchedFwdDone = {a \in isActive : a < cursor}
      /\ SchedFwdDone' = {a \in isActive : a < cursor + 1}
      /\ SchedBwdDone = {} /\ SchedBwdDone' = {}
  BY <1>1 DEF SchedPhase, SchedScheduled, SchedFwdDone, SchedBwdDone
<1>3. \A a \in isActive : a < cursor + 1 <=> a < cursor \/ a = cursor
  BY <1>1, NActionsAssumption DEF TInv, TypeOK, Acts
<1>4. CASE cursor \in isActive
  <2>1. \A d \in Deps[cursor] : d \in isActive /\ d < cursor
    BY <1>1, <1>4, DepsAssumption DEF OInv, DepClosed
  <2>2. Deps[cursor] \subseteq SchedFwdDone
    BY <1>2, <2>1
  <2>3. SchedFwdDone' = SchedFwdDone \cup {cursor}
    BY <1>2, <1>3, <1>4, Zenon
  <2>4. cursor \notin SchedFwdDone
    BY <1>2, <1>1 DEF Acts
  <2>5. Sched!Forward(cursor)
    BY <1>2, <1>4, <2>2, <2>3, <2>4 DEF Sched!Forward
  <2>. QED BY <1>1, <2>5 DEF Sched!Next, Sched!Acts, Acts
<1>5. CASE cursor \notin isActive
  <2>1. SchedFwdDone' = SchedFwdDone
    BY <1>2, <1>3, <1>5, Zenon
  <2>. QED BY <1>2, <2>1 DEF Sched!vars
<1>. QED BY <1>4, <1>5

\* An iteration of the backward loop on an active action applies it after
\* every active action that consumes it; on an inactive one the schedule
\* stutters.
LEMMA BackwardIteration ==
  ASSUME TInv, BackwardPropagateStep
  PROVE  [Sched!Next]_(Sched!vars)
<1>1. /\ pc = "apply" /\ pc' = "apply" /\ cursor \in Acts
      /\ cursor' = cursor - 1 /\ isActive' = isActive
  BY DEF BackwardPropagateStep, InBackwardLoop
<1>2. /\ SchedPhase = "backward" /\ SchedPhase' = "backward"
      /\ SchedScheduled = isActive /\ SchedScheduled' = isActive
      /\ SchedFwdDone = isActive /\ SchedFwdDone' = isActive
      /\ SchedBwdDone = {a \in isActive : a > cursor}
      /\ SchedBwdDone' = {a \in isActive : a > cursor - 1}
  BY <1>1 DEF SchedPhase, SchedScheduled, SchedFwdDone, SchedBwdDone
<1>3. \A a \in isActive : a > cursor - 1 <=> a > cursor \/ a = cursor
  BY <1>1, NActionsAssumption DEF TInv, TypeOK, Acts
<1>4. CASE cursor \in isActive
  <2>1. \A c \in isActive : cursor \in Deps[c] => c > cursor
    BY <1>1, DepsAssumption DEF TInv, TypeOK
  <2>2. \A c \in SchedScheduled : cursor \in Deps[c] => c \in SchedBwdDone
    BY <1>2, <2>1
  <2>3. SchedBwdDone' = SchedBwdDone \cup {cursor}
    BY <1>2, <1>3, <1>4, Zenon
  <2>4. cursor \notin SchedBwdDone
    BY <1>2, <1>1 DEF Acts
  <2>5. Sched!Backward(cursor)
    BY <1>2, <1>4, <2>2, <2>3, <2>4 DEF Sched!Backward
  <2>. QED BY <1>1, <2>5 DEF Sched!Next, Sched!Acts, Acts
<1>5. CASE cursor \notin isActive
  <2>1. SchedBwdDone' = SchedBwdDone
    BY <1>2, <1>3, <1>5, Zenon
  <2>. QED BY <1>2, <2>1 DEF Sched!vars
<1>. QED BY <1>4, <1>5

LEMMA SchedShared ==
  TInv /\ OInv /\ SharedNext => [Sched!Next]_(Sched!vars)
<1> SUFFICES ASSUME TInv, OInv, SharedNext PROVE [Sched!Next]_(Sched!vars)
  OBVIOUS
<1>1. CASE InitCmd \/ (\E s \in 0..MaxStep : SetStep(s)) \/ SetStopFlag
  <2>1. pc = "idle" /\ pc' = pc
    BY <1>1 DEF InitCmd, SetStep, SetStopFlag, HostMayCall
  <2>. QED BY <2>1, IdleStutter
<1>2. CASE UpdateCmd
  <2>1. pc = "idle" /\ pc' = "update"
    BY <1>2 DEF UpdateCmd, StartUpdate, HostMayCall
  <2>. QED BY <2>1, IdleStutter
<1>3. CASE JustCalculateStep
  BY <1>3, ForwardIteration
<1>4. CASE JustCalculateEnd
  <2>1. /\ pc = "calc" /\ pc' = "apply" /\ cursor = NActions + 1
        /\ cursor' = NActions /\ isActive' = isActive
    BY <1>4 DEF JustCalculateEnd
  <2>2. \A a \in isActive : a < NActions + 1 /\ ~(a > NActions)
    BY NActionsAssumption DEF TInv, TypeOK, Acts
  <2>3. /\ SchedPhase = "forward" /\ SchedPhase' = "backward"
        /\ SchedScheduled = isActive /\ SchedScheduled' = isActive
        /\ SchedFwdDone = isActive /\ SchedFwdDone' = isActive
        /\ SchedBwdDone = {} /\ SchedBwdDone' = {}
    BY <2>1, <2>2 DEF SchedPhase, SchedScheduled, SchedFwdDone, SchedBwdDone
  <2>. QED BY <2>3 DEF Sched!Next, Sched!EndForward
<1>5. CASE BackwardPropagateStep
  BY <1>5, BackwardIteration
<1>6. CASE BackwardPropagateEnd
  <2>1. /\ pc = "apply" /\ pc' \in {"update", "idle"} /\ cursor = 0
    BY <1>6 DEF BackwardPropagateEnd, StartUpdate
  <2>2. \A a \in isActive : a > 0
    BY DEF TInv, TypeOK, Acts
  <2>3. /\ SchedPhase = "backward" /\ SchedPhase' = "idle"
        /\ SchedScheduled = isActive /\ SchedScheduled' = {}
        /\ SchedFwdDone' = {}
        /\ SchedBwdDone = isActive /\ SchedBwdDone' = {}
    BY <2>1, <2>2 DEF SchedPhase, SchedScheduled, SchedFwdDone, SchedBwdDone
  <2>. QED BY <2>3 DEF Sched!Next, Sched!EndBackward
<1>7. CASE UpdateStep \/ UpdateEnd
  <2>1. pc = "update" /\ pc' \in {"update", "idle"}
    BY <1>7 DEF UpdateStep, UpdateEnd
  <2>. QED BY <2>1, IdleStutter
<1>8. CASE Stopped
  BY <1>8 DEF Stopped, vars, Sched!vars, SchedPhase, SchedScheduled,
              SchedFwdDone, SchedBwdDone
<1>. QED BY <1>1, <1>2, <1>3, <1>4, <1>5, <1>6, <1>7, <1>8 DEF SharedNext

LEMMA SchedNext == TInv /\ OInv /\ [Next]_vars => [Sched!Next]_(Sched!vars)
<1> SUFFICES ASSUME TInv, OInv, [Next]_vars PROVE [Sched!Next]_(Sched!vars)
  OBVIOUS
<1>1. CASE PrepareDependencies
  <2>1. pc = "idle" /\ pc' = pc
    BY <1>1 DEF PrepareDependencies, HostMayCall
  <2>. QED BY <2>1, IdleStutter
<1>2. CASE Calc
  <2>1. isActive' \subseteq Acts /\ DepClosed(isActive')
    BY <1>2, PrepareDependenciesType, PrepareDependenciesClosed DEF Calc, TInv
  <2>2. CASE active'
    <3>1. pc = "idle" /\ pc' = "calc" /\ cursor' = 1
      BY <1>2, <2>2 DEF Calc, StartForward, HostMayCall
    <3>. QED BY <2>1, <3>1, BeginStep DEF Sched!Next
  <2>3. CASE ~active'
    <3>1. pc = "idle" /\ pc' = pc
      BY <1>2, <2>3 DEF Calc, HostMayCall
    <3>. QED BY <3>1, IdleStutter
  <2>. QED BY <2>2, <2>3
<1>3. ASSUME NEW upd \in BOOLEAN, PerformCalc(upd) PROVE [Sched!Next]_(Sched!vars)
  <2>1. isActive' \subseteq Acts /\ DepClosed(isActive')
    BY <1>3 DEF PerformCalc, TInv, TypeOK, OInv
  <2>2. pc = "idle" /\ pc' = "calc" /\ cursor' = 1
    BY <1>3 DEF PerformCalc, StartForward, HostMayCall
  <2>. QED BY <2>1, <2>2, BeginStep DEF Sched!Next
<1>4. CASE UNCHANGED vars
  BY <1>4 DEF vars, Sched!vars, SchedPhase, SchedScheduled, SchedFwdDone,
              SchedBwdDone
<1>. QED BY <1>1, <1>2, <1>3, <1>4, SchedShared DEF Next, SharedNext

\* Safety of ImplementsSchedule: every behaviour of the step cycle, mapped
\* through Sched, is a behaviour of StepSchedule; prepareDependencies,
\* justCalculate and backwardPropagate run a legal schedule of the actions.
THEOREM ScheduleRefinement == Spec => Sched!Spec
<1>1. Spec => [](TInv /\ OInv)
  BY OInvInit, OInvNext, TInvNext, PTL DEF Spec
<1>. QED BY <1>1, SchedInit, SchedNext, PTL DEF Spec, Sched!Spec

=============================================================================
