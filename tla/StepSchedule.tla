---------------------------- MODULE StepSchedule ----------------------------
(***************************************************************************)
(* What a step of PLUMED promises, independently of the order of the       *)
(* input file (spec, "DependencyGraph/Scheduler" and "Ordering             *)
(* guarantee"): the actions needed this step form a set closed under       *)
(* dependencies; the forward pass calculates each of them once, after      *)
(* everything it depends on; the backward pass applies each of them once,  *)
(* after every scheduled action that consumes it.  Any such order is       *)
(* allowed here; PlumedMain fixes one, the order of the input.             *)
(***************************************************************************)
EXTENDS Naturals

CONSTANTS
  NActions,  \* the actions are 1..NActions
  Deps       \* Deps[a]: the actions a depends on

Acts == 1..NActions

VARIABLES
  phase,      \* "idle", "forward" or "backward"
  scheduled,  \* the actions needed in the step in progress
  fwdDone,    \* scheduled actions calculated so far in this step
  bwdDone     \* scheduled actions applied so far in this step

vars == <<phase, scheduled, fwdDone, bwdDone>>

\* A set of actions that holds everything its members depend on.
Closed(S) == \A a \in S : Deps[a] \subseteq S

Init ==
  /\ phase = "idle"
  /\ scheduled = {}
  /\ fwdDone = {}
  /\ bwdDone = {}

\* A step starts with any dependency-closed set of actions.
Begin ==
  /\ phase = "idle"
  /\ \E S \in SUBSET Acts : Closed(S) /\ scheduled' = S
  /\ phase' = "forward"
  /\ UNCHANGED <<fwdDone, bwdDone>>

\* A scheduled action calculates once all it depends on has.
Forward(a) ==
  /\ phase = "forward"
  /\ a \in scheduled \ fwdDone
  /\ Deps[a] \subseteq fwdDone
  /\ fwdDone' = fwdDone \cup {a}
  /\ UNCHANGED <<phase, scheduled, bwdDone>>

EndForward ==
  /\ phase = "forward"
  /\ fwdDone = scheduled
  /\ phase' = "backward"
  /\ UNCHANGED <<scheduled, fwdDone, bwdDone>>

\* A scheduled action applies once all scheduled actions that consume it
\* have.
Backward(a) ==
  /\ phase = "backward"
  /\ a \in scheduled \ bwdDone
  /\ \A c \in scheduled : a \in Deps[c] => c \in bwdDone
  /\ bwdDone' = bwdDone \cup {a}
  /\ UNCHANGED <<phase, scheduled, fwdDone>>

EndBackward ==
  /\ phase = "backward"
  /\ bwdDone = scheduled
  /\ phase' = "idle"
  /\ scheduled' = {}
  /\ fwdDone' = {}
  /\ bwdDone' = {}

Next ==
  \/ Begin
  \/ \E a \in Acts : Forward(a) \/ Backward(a)
  \/ EndForward
  \/ EndBackward

Spec == Init /\ [][Next]_vars

\* The passes of a step, once begun, are carried to their end.
FairSpec ==
  /\ Spec
  /\ WF_vars(EndForward) /\ WF_vars(EndBackward)
  /\ \A a \in Acts : WF_vars(Forward(a)) /\ WF_vars(Backward(a))

\* Every step that begins ends.
StepEnds == phase # "idle" ~> phase = "idle"
=============================================================================
