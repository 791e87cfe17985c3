---------------------------- MODULE MCOnboarding ----------------------------
(* Instances of Onboarding. Calls are interchangeable, tokens are ordered. *)
EXTENDS Onboarding, TLC

Symmetry == Permutations(Calls)
=============================================================================
