CONSTANTS
  s1 = s1  p0 = p0  p1 = p1  p2 = p2  p3 = p3
  Sessions <- MCSessions
  Pokes <- MCPokes
  EventOf <- MCEventOf
  Watches <- MCWatches
  WatchBuffer = 1
  MaxPublishes = 4
SPECIFICATION FairSpec
CHECK_DEADLOCK FALSE
INVARIANTS HubSafe
PROPERTIES ImplementsFeed EndedStreamsReturn
