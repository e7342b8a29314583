SPECIFICATION Spec
CONSTANTS
  Callers = {c1, c2}
  Worker = worker
  Nobody = nobody
  Phases = {"mode", "selection"}
  MaxGeneration = 2
SYMMETRY Symmetry
INVARIANTS TypeOK ClientsAreCurrent NoSwapUnderLease
PROPERTIES NoStaleWrite ImplementsLedger
