SPECIFICATION Spec
CONSTANTS
    P = 7
    A = 2
    D = 3
    G <- MCGenerator
    Bits = 4
    Polls = {p1}
    OptionCount = 2
    Voters = {"n1", "n2"}
    Plaintext <- MCPlaintext
    MaxPlaintext = 2
    Nonce <- MCNonce
    SK = 5
    CloseTimes = {2}
    Buffer = 0
    MaxDelay = 1
    MaxVoters = 2
    Services = {s1}
    MaxTime = 2
    MaxRefreshes = 2
INVARIANTS TypeOK ResultIsThePlainSum
PROPERTIES ImplementsSealedPoll TallySettles
CHECK_DEADLOCK FALSE
