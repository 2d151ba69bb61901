SPECIFICATION DeploymentSpec
CONSTANTS
  w1 = w1
  w2 = w2
  kickA = kickA
  kickB = kickB
  goalA = goalA
  p1 = p1
  p2 = p2
  teamA = teamA
  teamB = teamB
  u1 = u1
  m1 = m1
  None = None
  Worker = {w1, w2}
  Event = {kickA, kickB}
  Push = {p1, p2}
  User = {u1}
  Team = {teamA, teamB}
  Match = {m1}
  EventMatch <- AnEventMatch
  EventType <- AnEventType
  EventTeam <- AnEventTeam
  PushUser <- APushUser
  InitialPush = {p1}
  Answers = {"accepted", "permanent", "expired", "retry"}
  MaxFaults = 1
  MaxEdits = 1
SYMMETRY WorkerSymmetry
INVARIANTS
  TypeOK
  SerializedSends
  AtMostOncePlusLost
  OneOutcome
  HistoryStaysSilent
PROPERTIES
  CompletionSound
  ImplementsLedger
CHECK_DEADLOCK FALSE
