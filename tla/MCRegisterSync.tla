--------------------------- MODULE MCRegisterSync ---------------------------
\* A register of three keys: the second version drops a row and adds one.
EXTENDS RegisterSync

MCKeys == 1..3
MCHolds == [v \in Versions |-> IF v = 1 THEN {1, 2} ELSE {2, 3}]
=============================================================================
