SPECIFICATION Spec
CONSTANTS
    Policies = {p1, p2}
    Tracked = {p1}
    Options = {support, unlisted}
    Fields = {support}
    Clients = {w1}
    FromBlocks = {0}
    Replays = FALSE
    MaxPerBlock = 2
    MaxHeight = 2
    MaxStarts = 2
CHECK_DEADLOCK FALSE
INVARIANTS
    EveryVoteCounted
