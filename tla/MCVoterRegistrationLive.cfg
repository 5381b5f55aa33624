SPECIFICATION RegistrationFairSpec
CONSTANTS
    Commitments = {c1, c2}
    c1 = c1
    Countries = {GB, DE}
    GB = GB
    DE = DE
    Unregistered = Unregistered
    Appointed = {GB, DE}
    Accounts = {relay}
    NoAccount = NoAccount
    Docs = {passport, account}
    passport = passport
    account = account
    DocCountry <- MCTwoCountries
    Derived <- MCDerived
    Unclaimed = Unclaimed
    Requests = {r1, r2}
    Relay = relay
    Overlap = TRUE
    RpcMayFail = TRUE
CHECK_DEADLOCK FALSE
INVARIANTS
    AnswerTruthful
    CommitmentsListedOnce
PROPERTIES
    RegistrationIsPermanent
    RequestAnswered
