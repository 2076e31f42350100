------------------------ MODULE MCPlumedMainProofs -------------------------
(***************************************************************************)
(* The invariants of the step_cycle run, proved of the model it checks:    *)
(* the two copies of PlumedMain composed, one of them picked at the start *)
(* and the other left in its initial state.  Each copy's steps leave the  *)
(* other alone, so each copy runs its own specification and keeps what   *)
(* PlumedMainProofs and PlumedMainOldProofs prove of it.                  *)
(***************************************************************************)
EXTENDS MCPlumedMain, PlumedMainProofs, TLAPS

\* Seen from the second copy, the composed model is a run of PlumedMain.
LEMMA NewCopyRuns == MCSpec => Spec
<1>1. MCInit => Init
  BY DEF MCInit
<1>2. [MCNext]_<<copy, vars, oVars>> => [Next]_vars
  BY DEF MCNext
<1>. QED BY <1>1, <1>2, PTL DEF MCSpec, Spec

\* Seen from the first copy, the composed model is a run of PlumedMainOld.
LEMMA OldCopyRuns == MCSpec => Old!Spec
<1>1. MCInit => Old!Init
  BY DEF MCInit
<1>2. [MCNext]_<<copy, vars, oVars>> => [Old!Next]_(Old!vars)
  BY DEF MCNext, oVars, Old!vars
<1>. QED BY <1>1, <1>2, PTL DEF MCSpec, Old!Spec

\* In the model the run checks, the first copy's backwardPropagate applies
\* exactly this cycle's forces of its active consumers that had a force.
THEOREM MCOldForcesExactCorrect == MCSpec => []OldForcesExact
BY OldCopyRuns, OldStepAssumption, Old!OldForcesExactCorrect, PTL
   DEF OldForcesExact

\* In the model the run checks, the first copy's justCalculate runs an
\* action only after everything it depends on, in the same forward loop.
THEOREM MCOldCalculatedAfterDepsCorrect == MCSpec => []OldCalculatedAfterDeps
BY OldCopyRuns, OldStepAssumption, Old!OldCalculatedAfterDepsCorrect, PTL
   DEF OldCalculatedAfterDeps
=============================================================================
