SPECIFICATION Spec
CONSTANTS
  Handlers = {h1, h2}
  Ids = {i1, i2, i3, i4}
  Targets = {t1, t2}
  NoTarget = notarget
  RequestBudget = 3
  ThreadsMayFail = TRUE
  MaxTries = 3
SYMMETRY Symmetry
INVARIANTS TypeOK SentAtMostOnce SentWhereShown PageIsHonest LocksHaveOneHolder
CHECK_DEADLOCK FALSE
