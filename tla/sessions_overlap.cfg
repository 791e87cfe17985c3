\* One login and two refreshes of its token; no failed call.
CONSTANTS
  Null = Null
  Users = {u1}
  Tokens = {t1, t2, t3}
  Calls = {c1, c2, c3}
  MaxFaults = 0
SPECIFICATION Spec
CHECK_DEADLOCK FALSE
PROPERTY RotatesOnlyLive
