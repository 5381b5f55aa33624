SPECIFICATION Spec
CONSTANTS
    Nullifiers = {n1}
    Requests = {r1, r2}
    Window = 0
    MaxTime = 1
    Chains = {c1, c2}
INVARIANTS TypeOK AnswersAreTrue VotesArriveOnce
PROPERTY RequestAnswered
CHECK_DEADLOCK FALSE
