SPECIFICATION Spec
CONSTANTS
  Clone = {1, 2}
  Slow <- OneClockBehind
  Menus <- AllMenus
INVARIANTS TypeOK TreesAreFolds LastEventWins SupersededIsMarked StatusMachines AcksAreCounted KeysFollowEvents
PROPERTIES NothingIsTakenBack
CHECK_DEADLOCK FALSE
