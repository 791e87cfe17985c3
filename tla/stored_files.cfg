SPECIFICATION Spec
CONSTANTS
  Uploads = {u1, u2}
  Inserts = {i1}
  Types = {KML, IMAGE}
  Kml = KML
  MaxAttempts <- MCMaxAttempts
  MaxFaults = 2
  Null = Null
SYMMETRY Symmetry
INVARIANTS
  TypeOK
  OneActive
  NeverBare
  RowHasFile
  NoOrphan
  MapIsCurrent
  MapHasSource
