\* Five calls of any kind, three tokens, one call that breaks off.
CONSTANTS
  Null = Null
  MaxTokens = 3
  Calls = {c1, c2, c3, c4, c5}
  MaxFaults = 1
SPECIFICATION Spec
SYMMETRY Symmetry
\* The supply of calls runs out.
CHECK_DEADLOCK FALSE
INVARIANTS TypeOK OneUse OneOpenLink AcceptedOnce DeadLinksStayDead
