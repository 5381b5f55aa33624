SPECIFICATION FairSpec
CONSTANTS
    Accounts = {a1, a2, a3}
    Threshold = 2
    MaxProposals = 2
    Guardian = Guardian
    Operators = {deployer, timelock}
    InitialOwners = {Guardian, deployer}
CHECK_DEADLOCK FALSE
INVARIANTS
    TypeOK
    ThresholdOfDistinctAccounts
    SwitchFollowsProposals
PROPERTIES
    OwnedTargetIsPaused
