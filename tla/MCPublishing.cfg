SPECIFICATION Spec
CONSTANTS
    Users = {ann, ben}
    Credentials = {k1, k2}
    Counting = {k1}
    Handlers = {h1, h2}
    MaxChallenges = 2
    OPTION_MAP = {support}
    OtherOption = other
    CACHE_TTL_MS = 1
    MaxDelay = 1
    Queries = {q1, q2}
    Certifying = {q2}
    MaxVotes = 1
    MaxTime = 2
    Providers = {pinata, web3storage, filebase}
    Configured = {pinata, web3storage}
    SigningKey = TRUE
    Audits = {a1, a2, a3}
    Policies = {p1}
    Documents = {d1}
    limit = 1
    u1 = u1
    u2 = u2
    Subscribers = {u1, u2}
    Nations = {gb, us}
    MaxToken = 2
    Broadcasts = {b1}
    MaxCalls <- Calls
SYMMETRY Symmetry
INVARIANTS KeysSafe CertificatesSafe BroadcastsSafe
PROPERTY RecordsKept
CHECK_DEADLOCK FALSE
