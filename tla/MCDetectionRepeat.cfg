SPECIFICATION Spec
CONSTANTS
  p1 = p1
  p2 = p2
  g1 = g1
  g2 = g2
  c1 = c1
  None = None
  Poller = {p1}
  Queueing = {}
  Goal = {g1}
  Card = {}
  Side <- ASide
  Openings <- Early
  Hazards = {"notify"}
  Limit = 1
  MaxMishaps = 1
INVARIANTS
  NeverTwoAlertsForAGoal
CHECK_DEADLOCK FALSE
