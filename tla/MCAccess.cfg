SPECIFICATION AccessSpec
CONSTANTS
    ada = ada
    bob = bob
    Subjects = {s1}
    Citizens = {ada, bob}
    Nationality <- Nations
    Age <- AgesInYears
    Supported = {"GB", "DE"}
    AllowedCountries = {"DE"}
    Ages = {16, 18}
    Nothing = Nothing
    MaxRequests = 2
    c1 = c1
    Processes = {p1, p2}
    Clients = {c1}
    Limit <- Limits
    windowMs = 2
    Requests = {r1, r2, r3, r4}
    MaxTime = 2
    Proposals = {q1}
    Supports = {"For", "Against"}
    Calls = {d1, d2, d3}
SYMMETRY Symmetry
INVARIANTS ProvidersSafe LimiterSafe GovernanceSafe
CHECK_DEADLOCK FALSE
