CONSTANTS
  Procs = {p1, p2}
  Keys = {k1, k2}
  MaxVersion = 1
SPECIFICATION FairCacheSpec
INVARIANTS NoStaleRead
PROPERTY CallsReturn
