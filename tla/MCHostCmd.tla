----------------------------- MODULE MCHostCmd -----------------------------
(***************************************************************************)
(* Both copies of PlumedMain for TLC.  The host links against one of them, *)
(* chosen at the start (`copy'), and then drives it with any sequence of   *)
(* cmd calls: HostCmd with two engine names, atom counts 0 and 2 and a     *)
(* plumed.dat that defines the colvar and the PBC action; HostCmdOld with  *)
(* a plumed.dat that defines the colvar and at most two clears.  The state *)
(* of the copy not chosen stays at its initial value.                      *)
(***************************************************************************)
EXTENDS HostCmd

CONSTANTS mdcode, gromacs, OldMaxClears

VARIABLES
  copy,                   \* "new" or "old": the PlumedMain the host uses
  oInitialized, oNatoms, oNovirial, oKbt, oActionSet, oInputs,
  oBoxNoforce, oPlumedDat, oClears, oRes

MCEngines == {mdcode, gromacs}
MCDatLines == <<"cv", "Box">>
MCOldDatLines == <<"cv">>

Old == INSTANCE HostCmdOld WITH
  DatLines <- MCOldDatLines, MaxClears <- OldMaxClears,
  initialized <- oInitialized, natoms <- oNatoms, novirial <- oNovirial,
  kbt <- oKbt, actionSet <- oActionSet, inputs <- oInputs,
  boxNoforce <- oBoxNoforce, plumedDat <- oPlumedDat, clears <- oClears,
  res <- oRes

\* What HostCmdOld takes of its constants.
ASSUME OldHostAssumption ==
  /\ MCOldDatLines \in Seq(Old!HostLines)
  /\ OldMaxClears \in Nat

oVars == <<oInitialized, oNatoms, oNovirial, oKbt, oActionSet, oInputs,
           oBoxNoforce, oPlumedDat, oClears, oRes>>

MCInit == Init /\ Old!Init /\ copy \in {"new", "old"}

MCNext ==
  \/ copy = "new" /\ Next /\ UNCHANGED <<copy, oVars>>
  \/ copy = "old" /\ Old!Next /\ UNCHANGED <<copy, vars>>

MCSpec == MCInit /\ [][MCNext]_<<copy, vars, oVars>>

\* The properties of HostCmdOld, on the earlier copy's state.
OldInputsPointToLiveActions == Old!InputsPointToLiveActions
OldNoVirialHonoured == Old!NoVirialHonoured
OldClearKeepsMDInputs == Old!ClearKeepsMDInputs
====
