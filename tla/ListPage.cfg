SPECIFICATION FairSpec
CONSTANTS
  me = me
  other = other
  Me = me
  IsAdmin = FALSE
  PerPage = 1
  Trim <- MCTrim
  Kinds = {"ebooks", "history"}
  Ids = {1, 2, 3}
  Forms <- MCForms
  Starts <- MCStarts
  Filters <- MCFilters
  Links <- MCLinks
  Limit <- Few
CHECK_DEADLOCK FALSE
INVARIANTS TypeOK ShownIsAsked EmptyMeansNone  PagesPartition AuthorsListed
PROPERTY Settles
