SPECIFICATION FairSpec
CONSTANTS
  Length = 3
  Controls <- Habits
  Limit = 5
CHECK_DEADLOCK FALSE
INVARIANTS TypeOK PlaceKept ButtonTellsStatus BookmarksKnown
PROPERTY ComesToRest
