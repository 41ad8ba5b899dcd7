CONSTANTS
  Screens = {"shell", "table"}
  Incidents = {"i1"}
  Reports = {"r1"}
  Reads <- MCReads
  MaxCommits = 2
SPECIFICATION FairSpec
CHECK_DEADLOCK FALSE
INVARIANTS OneStreamWhileWatched ShownIsCommitted
PROPERTIES ListsCatchUp
