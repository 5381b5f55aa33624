SPECIFICATION RegistrationSpec
CONSTANTS
    Commitments = {c1, c2}
    c1 = c1
    Countries = {GB}
    GB = GB
    DE = DE
    Unregistered = Unregistered
    Appointed = {GB}
    Accounts = {relay, deployer}
    NoAccount = NoAccount
    Docs = {passport, account}
    passport = passport
    account = account
    DocCountry <- MCOneCountry
    Derived <- MCDerived
    Unclaimed = Unclaimed
    Requests = {r1, r2, r3}
    Relay = relay
    Overlap = FALSE
    RpcMayFail = FALSE
SYMMETRY Symmetry
CHECK_DEADLOCK FALSE
INVARIANTS
    RegistrationTypeOK
    RegisteredIsClaimed
    OneCommitmentPerDocument
