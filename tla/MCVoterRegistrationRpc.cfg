SPECIFICATION RegistrationSpec
CONSTANTS
    Commitments = {c1, c2}
    c1 = c1
    Countries = {GB}
    GB = GB
    DE = DE
    Unregistered = Unregistered
    Appointed = {GB}
    Accounts = {relay, deployer}
    NoAccount = NoAccount
    Docs = {passport}
    passport = passport
    account = account
    DocCountry <- MCPassportCountry
    Derived <- MCPassportDerived
    Unclaimed = Unclaimed
    Requests = {r1, r2}
    Relay = relay
    Overlap = FALSE
    RpcMayFail = TRUE
SYMMETRY Symmetry
CHECK_DEADLOCK FALSE
INVARIANTS
    OneCommitmentPerDocument
