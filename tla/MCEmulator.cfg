SPECIFICATION Spec
CONSTANTS
  Parts = {"machine", "peripherals", "screen", "touch", "capture", "setup", "ready", "watch", "card", "links"}
  Clients = {"c1", "viewer"}
  Viewer = "viewer"
  MaxPowerCalls = 2
  MaxDeaths = 1
  MaxBoots = 2
  Keys = {"volume_up"}
  MaxRequests = 5
  Viewers = {"v1"}
  MaxDraws = 2
  MaxEvents = 1
  Browsers = {"b1", "b2"}
  MaxTouches = 3
  MaxCaptures = 2
  MaxFrames = 2
  Menu = {1, 2}
  Preset = 2
  MaxSetups = 3
  MaxChoices = 2
  Processes = {"c1", "c2", "c3"}
  Pids = {1, 2, 3}
  Watchers = {"w1", "w2"}
  MaxCalls = 3
  MaxAsks = 2
  Users = {"u1", "u2"}
  Loops = {"loop0", "loop1"}
  Names = {"eth1", "wlan0"}
  MaxCommands = 5
INVARIANTS TypeOK NothingIsLeft DataSurvives ReadersAreTold
PROPERTIES StepsAreSound ViewSettles RequestsEnd
CHECK_DEADLOCK FALSE
