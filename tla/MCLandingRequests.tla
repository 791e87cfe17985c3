------------------------- MODULE MCLandingRequests -------------------------
(* Instances of LandingRequests. The sets of calls are interchangeable.      *)
EXTENDS LandingRequests, TLC

Symmetry == Permutations(Reviews) \cup Permutations(Removals)
=============================================================================
