SPECIFICATION Spec
CONSTANTS
  Parts = {"playback", "edits", "upload", "tuning", "readings", "link", "theme", "artwork", "choose", "interpret", "saved", "launch", "displays", "journal"}
INVARIANTS TypeOK ResultsAreHonest TargetsAreRight RepliesAreOwn NothingUnintended ChoicesAreKept
PROPERTIES KeysAgree
CHECK_DEADLOCK FALSE
