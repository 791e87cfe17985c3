SPECIFICATION FairSpec
CONSTANTS
  Uploads = {u1, u2}
  Removals = {m1}
  GroupRemovals = {g1}
  Group = group
  MaxAttempts <- MCMaxAttempts
  MaxFaults = 2
  Null = Null
INVARIANTS
  TypeOK
  KeyIsActiveImage
  RemovedGroupIsBare
  RowHasFile
  NoOrphan
PROPERTIES
  ImplementsSlot
  CallsAnswered
CHECK_DEADLOCK FALSE
