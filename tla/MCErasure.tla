----------------------------- MODULE MCErasure -----------------------------
(***************************************************************************)
(* Instances of Erasure; requests, calls, leads and consents are           *)
(* interchangeable.                                                        *)
(***************************************************************************)
EXTENDS Erasure, TLC

Symmetry == Permutations(Request) \cup Permutations(Call)
                \cup Permutations(Lead) \cup Permutations(Consent)
=============================================================================
