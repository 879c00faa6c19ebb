------------------------- MODULE MCOperatorConsole -------------------------
(***************************************************************************)
(* OperatorConsole for TLC: one mission, there from the start or created,  *)
(* one change by the platform itself or the first of an incident, one      *)
(* event on its way, two refreshes at once and one fault.                  *)
(***************************************************************************)
EXTENDS OperatorConsole

CONSTANTS m1
=============================================================================
