\* Two movements, one correction, one failed call.
CONSTANTS
  r1 = r1
  r2 = r2
  SBBR = SBBR
  Null = Null
  Movements = {m1, m2}
  Registrations = {r1, r2}
  Aerodromes = {SBBR}
  Times = {2, 3}
  Requests <- OneRequest
  Window = 1
  Evaluations = {e1, e2, e3}
  Edits = {d1}
  MaxFaults = 1
SPECIFICATION Spec
SYMMETRY Symmetry
\* The supply of movements and edits runs out.
CHECK_DEADLOCK FALSE
INVARIANTS TypeOK VerdictJustified ApplicabilityAgrees SettledVerdict
PROPERTY RemovedRowFrozen
