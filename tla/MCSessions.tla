----------------------------- MODULE MCSessions -----------------------------
(***************************************************************************)
(* Instances of Sessions; sessions, tokens and requests are interchangeable. *)
(***************************************************************************)
EXTENDS Sessions, TLC

Symmetry == Permutations(Session) \cup Permutations(Token) \cup Permutations(Request)
=============================================================================
