SPECIFICATION FairSpec
CONSTANTS
  p1 = p1
  p2 = p2
  g1 = g1
  g2 = g2
  c1 = c1
  None = None
  Poller = {p1, p2}
  Queueing = {p1}
  Goal = {g1}
  Card = {}
  Side <- ASide
  Openings <- Late
  Hazards = {"notify", "crash", "redis", "suspend", "stale", "window"}
  Limit = 1
  MaxMishaps = 1
PROPERTIES
  FinalStateReached
  FullTimeForBoth
  PendingDelivered
CHECK_DEADLOCK FALSE
