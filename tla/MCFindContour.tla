---------------------------- MODULE MCFindContour ----------------------------
(***************************************************************************)
(* A 3 x 2 grid, periodic along the first dimension and not along the      *)
(* second, with f - contour in {-1, 0, 1}: every field on it is checked,   *)
(* which includes wraps, skipped last points and values exactly on the     *)
(* isovalue.                                                               *)
(***************************************************************************)
EXTENDS FindContour

MCNBin == [d \in 0..1 |-> IF d = 0 THEN 3 ELSE 2]
MCPeriodic == [d \in 0..1 |-> d = 0]
MCValues == {-1, 0, 1}
=============================================================================
