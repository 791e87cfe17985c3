\* One request, two decisions and two removals, without failures.
CONSTANTS
  Null = Null
  Requests = {q1}
  Reviews = {v1, v2}
  Removals = {x1, x2}
  MaxFaults = 0
SPECIFICATION Spec
SYMMETRY Symmetry
CHECK_DEADLOCK FALSE
INVARIANT TrailShowsTransition
