SPECIFICATION Spec
CONSTANTS
  Handlers = {h1, h2}
  Ids = {i1, i2}
  Targets = {t1, t2}
  NoTarget = notarget
  RequestBudget = 2
  ThreadsMayFail = TRUE
  MaxTries = 2
SYMMETRY Symmetry
INVARIANT BusyIsTrue
CHECK_DEADLOCK FALSE
