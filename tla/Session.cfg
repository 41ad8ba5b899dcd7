CONSTANTS
  Users = {ann, bob}
  None = None
  MaxAsks = 3
  MaxAges = 2
  MaxRefusals = 1
  MaxLaunches = 1
SPECIFICATION FairSession
CHECK_DEADLOCK FALSE
INVARIANTS SessionSafe
PROPERTIES NeverStuck
