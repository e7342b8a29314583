SPECIFICATION Spec
CONSTANTS
  Callers = {c1, c2}
  Worker = worker
  Nobody = nobody
  Phases = {"mode", "selection"}
  MaxGeneration = 1
INVARIANTS NotSentIsHonest
