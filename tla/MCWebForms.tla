----------------------------- MODULE MCWebForms -----------------------------
(***************************************************************************)
(* Instances of WebForms: two visits and two submissions, so that a late   *)
(* answer of the first visit meets a submission of the second.             *)
(***************************************************************************)
EXTENDS WebForms, TLC
=============================================================================
