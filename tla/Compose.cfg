SPECIFICATION ComposeSpec
CONSTANTS
  Timelines = {r1, r2}
  New = new
  KeyedComposer = TRUE
  MayAttach = TRUE
  MaxTyped = 2
  MaxSends = 2
  MaxMounts = 3
  MaxSteps = 4
  MaxQueue = 2
  MaxEnds = 2
SYMMETRY Alike
CHECK_DEADLOCK FALSE
INVARIANTS SentWhereTyped DraftIsStored JournalIsTrue FiledOnce
PROPERTIES TextLeavesOnlySent
