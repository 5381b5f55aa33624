SPECIFICATION Spec
CONSTANTS
    Polls = {p1, p2}
    Options = {yes, no}
    Nullifiers = {n1, n2, n3}
    Accounts = {deployer, timelock}
    NoAccount = NoAccount
    MaxTime = 3
SYMMETRY Symmetry
CHECK_DEADLOCK FALSE
INVARIANTS
    TypeOK
    OneVotePerNullifier
    RecordsAgree
    FinalResultStands
PROPERTIES
    NothingIsAltered
    ImplementsBallotBox
