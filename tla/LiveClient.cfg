SPECIFICATION FairSpec
CONSTANTS
  Songs = {s1}
  NoSong = none
  MaxQueries = 2
  MaxPushes = 1
  Budget = 1
INVARIANTS TypeOK RepliesMatch ScanBlocks
PROPERTIES CloseForgets
CHECK_DEADLOCK FALSE
