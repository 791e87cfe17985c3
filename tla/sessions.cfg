\* Two users, four calls, four tokens, one call that breaks off.
CONSTANTS
  Null = Null
  Users = {u1, u2}
  Tokens = {t1, t2, t3, t4}
  Calls = {c1, c2, c3, c4}
  MaxFaults = 1
SPECIFICATION Spec
SYMMETRY Symmetry
\* The supply of calls runs out.
CHECK_DEADLOCK FALSE
INVARIANTS TypeOK SessionsCut OneLivePerLogin RotationChain
PROPERTY SessionEndsForItsUser
