SPECIFICATION Spec
CONSTANTS
    MaxVisits = 2
    Team = {t1}
    Playing = {t1}
    MaxElsewhere = 1
    MaxMounts = 2
    MaxReads = 3
    MaxMutations = 2
    MaxForeign = 1
    Query = {q1, q2}
    MaxSearches = 3
    MaxFollows = 2
    MaxSaves = 2
    MaxDashReads = 3
    None = None
    Nothing = Nothing
INVARIANTS
    TypeOK
    AcknowledgedMuteShown
    NoStuckIndicator
    ResultsAnswerQuery
    FollowHonest
    SavedPreferenceKept
    DashboardForward
CHECK_DEADLOCK FALSE
