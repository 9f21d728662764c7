------------------------------- MODULE MCSignIn -------------------------------
(***************************************************************************)
(* Instances of SignIn: one tab of each application in one browser.        *)
(***************************************************************************)
EXTENDS SignIn
=============================================================================
