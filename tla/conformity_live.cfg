\* Two corrections of one landing that may overlap each other and the
\* evaluations; no failed call. No symmetry: a liveness property is checked.
CONSTANTS
  r1 = r1
  r2 = r2
  SBBR = SBBR
  Null = Null
  Movements = {m1}
  Registrations = {r1, r2}
  Aerodromes = {SBBR}
  Times = {1}
  Requests <- OneRequest
  Window = 1
  Evaluations = {e1, e2, e3}
  Edits = {d1, d2}
  MaxFaults = 0
SPECIFICATION FairSpec
CHECK_DEADLOCK FALSE
PROPERTY PendingResolved
INVARIANTS SettledVerdict PendingIsServed
