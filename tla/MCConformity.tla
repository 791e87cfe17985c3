---------------------------- MODULE MCConformity ----------------------------
(***************************************************************************)
(* Instances of Conformity. An arrival of r2 can be conformant: with       *)
(* Window = 1 the request is on the edge of the window of an arrival at    *)
(* time 2 and outside the window of one at time 3. One of r1 cannot.       *)
(***************************************************************************)
EXTENDS Conformity, TLC

CONSTANTS r1, r2, SBBR

OneRequest == {[registration |-> r2, icao |-> SBBR, requestDate |-> 1]}

Symmetry == Permutations(Movements) \cup Permutations(Evaluations) \cup Permutations(Edits)
=============================================================================
