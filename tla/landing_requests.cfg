\* One request, decided by three calls and removed by two; one call breaks off. No
\* symmetry: a liveness property is checked.
CONSTANTS
  Null = Null
  Requests = {q1}
  Reviews = {v1, v2, v3}
  Removals = {x1, x2}
  MaxFaults = 1
SPECIFICATION FairSpec
\* The supply of calls runs out.
CHECK_DEADLOCK FALSE
INVARIANTS TypeOK TrailMatchesRows
PROPERTIES ImplementsBook ReceiptOrRemoval
