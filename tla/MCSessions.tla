----------------------------- MODULE MCSessions -----------------------------
(* Instances of Sessions. Tokens, calls and users are interchangeable. *)
EXTENDS Sessions, TLC

Symmetry == Permutations(Users) \cup Permutations(Tokens) \cup Permutations(Calls)
=============================================================================
