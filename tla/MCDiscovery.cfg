SPECIFICATION Spec
CONSTANTS
    a = a
    b = b
    today = today
    tomorrow = tomorrow
    Team <- MCTeam
    Fixture <- MCFixture
    Plays <- MCPlays
    Day <- MCDay
    LastDay = 2
    PlanDays <- MCPlanDays
    MaxCrashes = 1
    None = None
INVARIANTS
    MarkedComplete
    DateAskedOnce
PROPERTIES
    EventuallyStored
