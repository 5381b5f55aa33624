SPECIFICATION FairSpec
CONSTANTS
    Policies = {p1, p2}
    Tracked = {p1}
    Options = {support}
    Fields = {support}
    Clients = {w1}
    FromBlocks = {0, 1}
    Replays = TRUE
    MaxPerBlock = 2
    MaxHeight = 2
    MaxStarts = 2
CHECK_DEADLOCK FALSE
INVARIANTS
    TypeOK
    TalliesAreRight
    ClientsShowTheTally
PROPERTIES
    ShownNeverShrinks
    VotesAreShown
