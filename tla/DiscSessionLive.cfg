SPECIFICATION FairSpec
CONSTANTS
  Callers = {c1}
  Worker = worker
  Nobody = nobody
  Phases = {"mode", "selection"}
  MaxGeneration = 2
INVARIANTS NotSentIsHonest
PROPERTIES CallsReturn WorkerKeepsUp
