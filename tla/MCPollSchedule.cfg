SPECIFICATION Spec
CONSTANTS
    m1 = m1
    m2 = m2
    Match <- MCMatch
    Kickoffs <- MCKickoffs
    LiveInterval = 2
    PreMatchInterval = 3
    UnresolvedInterval = 4
    PreMatchWindow = 1
    ExpectedMatch = 2
    Grace = 1
    Recovery = 6
    DiscoveryRefresh = 4
    Horizon = 8
    MaxTroubles = 2
    Failed = Failed
    MaxMoves = 2
    NoTime = NoTime
    None = None
INVARIANTS
    WindowsAgree
    NoticedInTime
    SharedFeeds
