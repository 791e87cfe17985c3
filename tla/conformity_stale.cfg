\* One landing and two corrections that overlap; no failed call.
CONSTANTS
  r1 = r1
  r2 = r2
  SBBR = SBBR
  Null = Null
  Movements = {m1}
  Registrations = {r1, r2}
  Aerodromes = {SBBR}
  Times = {1}
  Requests <- OneRequest
  Window = 1
  Evaluations = {e1, e2, e3}
  Edits = {d1, d2}
  MaxFaults = 0
SPECIFICATION Spec
SYMMETRY Symmetry
CHECK_DEADLOCK FALSE
PROPERTY RegistrationChangeResetsStatus
