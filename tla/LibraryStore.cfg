SPECIFICATION Spec
CONSTANTS
  Processes = {p1, p2}
  Signatures = {s1, s2}
  Unsigned = none
  MaxEdits = 2
  MaxSnapshots = 3
  MaxCollections = 2
SYMMETRY Symmetry
INVARIANTS TypeOK IndexIsComplete
PROPERTIES SearchIsCurrent ImplementsRegister
