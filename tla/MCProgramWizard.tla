--------------------------- MODULE MCProgramWizard ---------------------------
(***************************************************************************)
(* Instances of ProgramWizard: two lines; numbers below 0, up to 100 and   *)
(* above (0 is what a change of type leaves); ranges from 0 and from 5.    *)
(***************************************************************************)
EXTENDS ProgramWizard

MCNumber == {-1, 10, 150}
=============================================================================
