----------------------------- MODULE MCDashboard -----------------------------
(***************************************************************************)
(* Instances of Dashboard: two rows and two handlers under way at once:    *)
(* an action on each row, or one action and the reload of another.         *)
(***************************************************************************)
EXTENDS Dashboard, TLC

Symmetry == Permutations(Row) \cup Permutations(Call)
=============================================================================
