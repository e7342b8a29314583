SPECIFICATION Spec
CONSTANTS
  Parts = {"assistant", "voice", "browser", "phone", "ota", "web", "utterance"}
  WorkKinds = {"control", "play", "preview", "admin"}
  MaxRequests = 2
  MaxGeneration = 2
  MaxHeads = 2
  MaxFaults = 1
  SpeechRequests = {"r1", "r2"}
  MaxProcesses = 1
  Browsers = {"b1", "b2"}
  Phones = {"p1", "p2", "p3"}
  HttpLimit = 2
  Catalogues <- MCCatalogues
  MaxVendor = 2
  MaxIssues = 4
  Handlers = {"h1"}
  RequestIds = {"i1", "i2"}
  Targets = {"t1", "t2"}
  NoTarget = "notarget"
  RequestBudget = 2
  ThreadsMayFail = TRUE
  MaxTries = 2
  Clients = {"c1", "c2"}
  Models = {"A", "B"}
  MaxCalls = 2
  MaxChanges = 2
INVARIANTS TypeOK AnswersAreTrue NothingIsStray OneClient
PROPERTIES RequestsEnd
CHECK_DEADLOCK FALSE
