SPECIFICATION Spec
CONSTANTS
  Processes = {p1, p2}
  Signatures = {s1}
  Unsigned = none
  MaxEdits = 1
  MaxSnapshots = 2
  MaxCollections = 0
INVARIANTS ObservationsBelong
