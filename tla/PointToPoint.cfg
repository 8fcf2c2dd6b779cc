SPECIFICATION Spec
CONSTANTS
    a = a
    b = b
    Admin = admin
    Players <- MCPlayers
    Followed <- MCFollowed
    Plans <- MCPlans
    Trials <- MCTrials
    Shuffle <- MCShuffle
    SetSize = 3
    MaxScore = 4
    MaxLag = 2
    Stale = 1
INVARIANTS TypeOK OneGame HitsAreShared HitsAnswered
PROPERTIES ScoreKept
CHECK_DEADLOCK FALSE
