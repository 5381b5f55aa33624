--------------------------- MODULE HomomorphicTally ---------------------------
(***************************************************************************)
(* Encrypted polls: HomomorphicTally.sol adds up ElGamal ciphertexts, and   *)
(* instances of HomomorphicTallyService cache them in Redis, wait for the   *)
(* close of each poll with a timer in memory, decrypt the sums and post     *)
(* the results.                                                             *)
(*                                                                          *)
(* A contract call is one step; a service's job is a step per await. An     *)
(* instance that crashes loses its listeners, timers and jobs.              *)
(*                                                                          *)
(* The service reads a poll with polls(), whose ABI (line 35) expects the   *)
(* tally key first; the contract's public getter (line 72) leaves it out,   *)
(* as getters do arrays, and decoding its answer throws (lines 216, 238,    *)
(* 260). A contract that answers as declared and the repository's are both  *)
(* initial states.                                                          *)
(***************************************************************************)
EXTENDS BabyJubjub, FiniteSets

CONSTANTS
    Polls, OptionCount, Voters,
    Plaintext, Nonce,           \* voter -> the number it encrypts, and with which r
    MaxPlaintext,               \* the largest of these numbers
    SK,                         \* TALLY_AUTHORITY_PRIVATE_KEY as a scalar
    CloseTimes,                 \* the close times polls are registered with
    Buffer,                     \* the 5 seconds the timer adds
    MaxDelay,                   \* the longest delay setTimeout can hold
    MaxVoters,                  \* MAX_VOTERS
    Services,                   \* instances of the service
    MaxRefreshes,               \* bound: refreshes between read and write
    MaxTime                     \* bound: the clock

VARIABLES
    now,            \* block.timestamp and Date.now()
    closeTime,      \* polls: poll -> its close time, or Unregistered
    ciphertexts,    \* poll -> option -> [C1, C2, count]
    results,        \* poll -> option -> the posted tally, or Pending
    nullifiersUsed, \* poll -> voters
    verified,       \* is voteProofVerifier set?
    decodable,      \* does polls() answer as the service's ABI declares?
    spoiled,        \* the <<poll, option>> whose sums hold a pair of numbers that
                    \* encrypts none; ciphertexts is the sum of the others
    plain,          \* history: poll -> option -> the sum of the plaintexts
    cache,          \* Redis: poll -> option -> snapshot, or Cold
    started,        \* the instances that listen
    events,         \* instance -> events not delivered yet
    refreshes,      \* refreshes between their read and their write
    timers,         \* instance -> timers
    jobs,           \* instance -> poll -> its _finaliseAll, or Idle
    disturbed       \* history: the instances that crashed or lost a call

chainVars == <<now, closeTime, ciphertexts, results, nullifiersUsed, verified, decodable,
               spoiled, plain>>
cacheVars == <<cache, refreshes>>
jobVars == <<timers, jobs, disturbed>>
vars == <<chainVars, cacheVars, started, events, jobVars>>

Options == 0..OptionCount - 1
Unregistered == 0
Pending == -1
Cold == [count |-> -1]
Idle == [pc |-> "Idle"]
PK == bjjScalarMul(SK, G)
Notify(e) == events' = [s \in Services |-> IF s \in started THEN events[s] \cup {e} ELSE {}]

ASSUME TallyAssumption ==
    /\ OptionCount \in Nat /\ MaxVoters \in Nat /\ MaxTime \in Nat /\ MaxPlaintext \in Nat
    /\ Buffer \in Nat
    /\ IsFiniteSet(Voters) /\ CloseTimes \subseteq Nat \ {Unregistered}
    /\ Plaintext \in [Voters -> 0..MaxPlaintext] /\ Nonce \in [Voters -> Nat] /\ SK \in Nat

\* The largest sum an option can reach.
MaxSum == MaxPlaintext * Cardinality(Voters)

\* The order of G exceeds all sums and all numbers the search tries: their
\* multiples of G are told apart.
ASSUME OrderAssumption ==
    \A h, k \in 0..MaxVoters \cup 0..MaxSum : bjjScalarMul(h, G) = bjjScalarMul(k, G) => h = k

-----------------------------------------------------------------------------
(* The contract *)

RegisterPoll(p, close) ==
    /\ closeTime[p] = Unregistered
    /\ closeTime' = [closeTime EXCEPT ![p] = close]
    /\ ciphertexts' = [ciphertexts EXCEPT ![p] =
                          [o \in Options |-> [C1 |-> Neutral, C2 |-> Neutral, count |-> 0]]]
    /\ Notify([event |-> "PollRegistered", poll |-> p])
    /\ UNCHANGED <<now, results, nullifiersUsed, verified, decodable, spoiled, plain,
                   cacheVars, started, jobVars>>

\* Mutant: a vote in the closing second is still taken.
Accepts_AtClose(p, o, n) ==
    closeTime[p] # Unregistered /\ now <= closeTime[p] /\ o < OptionCount /\ n \notin nullifiersUsed[p]

\* Mutant: votes are taken up to and after the close.
Accepts_Late(p, o, n) ==
    closeTime[p] # Unregistered /\ o < OptionCount /\ n \notin nullifiersUsed[p]

\* The guards of submitEncryptedVote.
Accepts(p, o, n) ==
    /\ closeTime[p] # Unregistered
    /\ now < closeTime[p]
    /\ o < OptionCount
    /\ n \notin nullifiersUsed[p]

\* _verifyVoteProof, of a ciphertext of voter n: every proof passes while no
\* verifier is set.
ProofAccepted(n) == verified => Plaintext[n] \in {0, 1}

\* What the voter's client computes.
Encrypted ==
    Table([n \in Voters |->
        [C1 |-> bjjScalarMul(Nonce[n], G),
         C2 |-> bjjAdd(bjjScalarMul(Plaintext[n], G), bjjScalarMul(Nonce[n], PK))]])

\* The nullifier is used, the count goes up.
Count(p, o, n) ==
    /\ nullifiersUsed' = [nullifiersUsed EXCEPT ![p] = @ \cup {n}]
    /\ Notify([event |-> "EncryptedVoteAccumulated", poll |-> p, option |-> o,
               newCount |-> ciphertexts[p][o].count + 1])

SubmitEncryptedVote(p, o, n) ==
    /\ Accepts(p, o, n)
    /\ ProofAccepted(n)
    /\ Count(p, o, n)
    /\ LET c == Encrypted[n]
           a == ciphertexts[p][o]
       IN  ciphertexts' = [ciphertexts EXCEPT ![p][o] =
                              [C1 |-> _babyJubAdd(a.C1, c.C1), C2 |-> _babyJubAdd(a.C2, c.C2),
                               count |-> a.count + 1]]
    /\ plain' = [plain EXCEPT ![p][o] = @ + Plaintext[n]]
    /\ UNCHANGED <<now, closeTime, results, verified, decodable, spoiled,
                   cacheVars, started, jobVars>>

\* The numbers sent are no ciphertext (not on the curve, say), which only a
\* verifier would tell.
SubmitMalformedVote(p, o, n) ==
    /\ Accepts(p, o, n)
    /\ ~verified
    /\ Count(p, o, n)
    /\ ciphertexts' = [ciphertexts EXCEPT ![p][o].count = @ + 1]
    /\ spoiled' = spoiled \cup {<<p, o>>}
    /\ UNCHANGED <<now, closeTime, results, verified, decodable, plain,
                   cacheVars, started, jobVars>>

CanFinalise(p, o) ==
    /\ closeTime[p] # Unregistered
    /\ now >= closeTime[p]
    /\ o < OptionCount
    /\ results[p][o] = Pending

SetVerifier ==
    /\ verified' = ~verified
    /\ UNCHANGED <<now, closeTime, ciphertexts, results, nullifiersUsed, decodable, spoiled,
                   plain, cacheVars, started, events, jobVars>>

Tick ==
    /\ now < MaxTime
    /\ now' = now + 1
    /\ UNCHANGED <<closeTime, ciphertexts, results, nullifiersUsed, verified, decodable,
                   spoiled, plain, cacheVars, started, events, jobVars>>

-----------------------------------------------------------------------------
(* The service: listeners and the ciphertext cache *)

Start(s) ==
    /\ s \notin started
    /\ started' = started \cup {s}
    /\ UNCHANGED <<chainVars, cacheVars, events, jobVars>>

\* stop takes the listeners away and leaves the timers.
Stop(s) ==
    /\ s \in started
    /\ started' = started \ {s}
    /\ events' = [events EXCEPT ![s] = {}]
    /\ UNCHANGED <<chainVars, cacheVars, jobVars>>

\* _refreshCache up to its read of the chain.
BeginRefresh(s, p, o) ==
    /\ Cardinality(refreshes) < MaxRefreshes
    /\ refreshes' = refreshes \cup {[by |-> s, poll |-> p, option |-> o, snap |-> ciphertexts[p][o]]}

OnAccumulated(s, e) ==
    /\ e \in events[s] /\ e.event = "EncryptedVoteAccumulated"
    /\ events' = [events EXCEPT ![s] = @ \ {e}]
    /\ BeginRefresh(s, e.poll, e.option)
    /\ UNCHANGED <<chainVars, cache, started, jobVars>>

\* getCiphertexts when Redis has no snapshot of the option.
GetCiphertexts(s, p, o) ==
    /\ decodable
    /\ closeTime[p] # Unregistered
    /\ cache[p][o] = Cold
    /\ BeginRefresh(s, p, o)
    /\ UNCHANGED <<chainVars, cache, started, events, jobVars>>

\* _refreshCache's write to Redis.
WriteSnapshot(r) ==
    /\ r \in refreshes
    /\ cache' = [cache EXCEPT ![r.poll][r.option] = r.snap]
    /\ refreshes' = refreshes \ {r}
    /\ UNCHANGED <<chainVars, started, events, jobVars>>

RefreshFails(r) ==
    /\ r \in refreshes
    /\ refreshes' = refreshes \ {r}
    /\ UNCHANGED <<chainVars, cache, started, events, jobVars>>

\* CACHE_TTL after the snapshot was set.
SnapshotExpires(p, o) ==
    /\ cache[p][o] # Cold
    /\ cache' = [cache EXCEPT ![p][o] = Cold]
    /\ UNCHANGED <<chainVars, refreshes, started, events, jobVars>>

-----------------------------------------------------------------------------
(* The service: finalisation *)

\* The PollRegistered listener: the delay is measured when the event arrives,
\* and a delay setTimeout cannot hold fires at once.
OnPollRegistered(s, e) ==
    /\ e \in events[s] /\ e.event = "PollRegistered"
    /\ events' = [events EXCEPT ![s] = @ \ {e}]
    /\ LET wait == closeTime[e.poll] - now
           at   == IF wait + Buffer <= MaxDelay THEN now + wait + Buffer ELSE now
       IN  timers' = IF wait > 0 THEN [timers EXCEPT ![s] = @ \cup {[poll |-> e.poll, at |-> at]}]
                     ELSE timers
    /\ UNCHANGED <<chainVars, cacheVars, started, jobs, disturbed>>

\* The round of _finaliseAll's loop for option o, if there is one.
LoopAt(o) == IF o < OptionCount THEN [pc |-> "Check", option |-> o] ELSE Idle

\* Mutant: the close time is not looked at again when the timer fires.
FinaliseAll_Early(s, t) ==
    /\ decodable
    /\ t \in timers[s] /\ t.at <= now
    /\ timers' = [timers EXCEPT ![s] = @ \ {t}]
    /\ jobs' = [jobs EXCEPT ![s][t.poll] = LoopAt(0)]
    /\ UNCHANGED <<chainVars, cacheVars, started, events, disturbed>>

\* _finaliseAll up to its loop.
FinaliseAll(s, t) ==
    /\ decodable
    /\ t \in timers[s] /\ t.at <= now
    /\ timers' = [timers EXCEPT ![s] = @ \ {t}]
    /\ jobs' = IF closeTime[t.poll] > now THEN jobs
               ELSE [jobs EXCEPT ![s][t.poll] = LoopAt(0)]
    /\ UNCHANGED <<chainVars, cacheVars, started, events, disturbed>>

\* The instance's process ends, and loses what it has in memory.
Dies(s) ==
    /\ started' = started \ {s}
    /\ events' = [events EXCEPT ![s] = {}]
    /\ refreshes' = {r \in refreshes : r.by # s}
    /\ timers' = [timers EXCEPT ![s] = {}]
    /\ jobs' = [jobs EXCEPT ![s] = [p \in Polls |-> Idle]]
    /\ UNCHANGED <<chainVars, cache>>

\* polls() throws in _finaliseAll, whose answer cannot be decoded or does not
\* come. The timer's callback catches nothing: Node ends the process.
PollsThrows(s, t) ==
    /\ t \in timers[s] /\ t.at <= now
    /\ Dies(s)
    /\ disturbed' = IF decodable THEN disturbed \cup {s} ELSE disturbed

\* The loop goes on with the next option.
NextOption(s, p) ==
    jobs' = [jobs EXCEPT ![s][p] = LoopAt(@.option + 1)]

\* _finaliseOption: getResult.
CheckResult(s, p) ==
    /\ jobs[s][p].pc = "Check"
    /\ IF results[p][jobs[s][p].option] # Pending THEN NextOption(s, p)
       ELSE jobs' = [jobs EXCEPT ![s][p].pc = "Read"]
    /\ UNCHANGED <<chainVars, cacheVars, started, events, timers, disturbed>>

Logarithm == Table([T \in Points |-> bsgs(T, MaxVoters)])

SecretMultiple == Table([C1 \in Points |-> bjjScalarMul(SK, C1)])

\* T = C2 - sk * C1, and the search for its logarithm.
Decrypted(c) == Logarithm[bjjAdd(c.C2, bjjNeg(SecretMultiple[c.C1]))]

\* What the search finds in the sums of an option: nothing, once they are spoiled.
Recovered(p, o) == IF <<p, o>> \in spoiled THEN NotFound ELSE Decrypted(ciphertexts[p][o])

\* Mutant: an option that cannot be recovered ends the loop.
ReadAccumulated_Ends(s, p) ==
    /\ jobs[s][p].pc = "Read"
    /\ \E v \in {Recovered(p, jobs[s][p].option)} :
          jobs' = [jobs EXCEPT ![s][p] =
                      IF v = NotFound THEN Idle ELSE [pc |-> "Submit", option |-> @.option, tally |-> v]]
    /\ UNCHANGED <<chainVars, cacheVars, started, events, timers, disturbed>>

\* _finaliseOption: getAccumulated, decrypt, give up when there is no logarithm.
ReadAccumulated(s, p) ==
    /\ jobs[s][p].pc = "Read"
    /\ \E v \in {Recovered(p, jobs[s][p].option)} :
          IF v = NotFound THEN NextOption(s, p)
          ELSE jobs' = [jobs EXCEPT ![s][p] = [pc |-> "Submit", option |-> @.option, tally |-> v]]
    /\ UNCHANGED <<chainVars, cacheVars, started, events, timers, disturbed>>

\* finaliseDecryption: it reverts when the guards fail, and the loop goes on.
FinaliseDecryption(s, p) ==
    /\ jobs[s][p].pc = "Submit"
    /\ LET o == jobs[s][p].option
       IN  results' = IF CanFinalise(p, o) THEN [results EXCEPT ![p][o] = jobs[s][p].tally] ELSE results
    /\ NextOption(s, p)
    /\ UNCHANGED <<now, closeTime, ciphertexts, nullifiersUsed, verified, decodable, spoiled,
                   plain, cacheVars, started, events, timers, disturbed>>

\* A call of _finaliseOption fails: the option is passed over and logged.
CallFails(s, p) ==
    /\ jobs[s][p] # Idle
    /\ NextOption(s, p)
    /\ disturbed' = disturbed \cup {s}
    /\ UNCHANGED <<chainVars, cacheVars, started, events, timers>>

\* The tally shown to clients; finalised options have one. None is shown when
\* polls() throws.
getTallyResults(p) ==
    [o \in {o \in Options : decodable /\ closeTime[p] # Unregistered} |-> results[p][o]]

Crash(s) ==
    /\ s \in started \/ timers[s] # {}
    /\ Dies(s)
    /\ disturbed' = disturbed \cup {s}

-----------------------------------------------------------------------------
(* Specification *)

Init ==
    /\ now = 0
    /\ closeTime = [p \in Polls |-> Unregistered]
    /\ ciphertexts = [p \in Polls |-> [o \in Options |-> [C1 |-> <<0, 0>>, C2 |-> <<0, 0>>, count |-> 0]]]
    /\ results = [p \in Polls |-> [o \in Options |-> Pending]]
    /\ nullifiersUsed = [p \in Polls |-> {}]
    /\ verified \in BOOLEAN
    /\ decodable \in BOOLEAN
    /\ spoiled = {}
    /\ plain = [p \in Polls |-> [o \in Options |-> 0]]
    /\ cache = [p \in Polls |-> [o \in Options |-> Cold]]
    /\ started = {}
    /\ events = [s \in Services |-> {}]
    /\ refreshes = {}
    /\ timers = [s \in Services |-> {}]
    /\ jobs = [s \in Services |-> [p \in Polls |-> Idle]]
    /\ disturbed = {}

ContractStep ==
    \/ \E p \in Polls, close \in CloseTimes : RegisterPoll(p, close)
    \/ \E p \in Polls, o \in Options, n \in Voters :
          SubmitEncryptedVote(p, o, n) \/ SubmitMalformedVote(p, o, n)
    \/ SetVerifier

Job(s, p) == CheckResult(s, p) \/ ReadAccumulated(s, p) \/ FinaliseDecryption(s, p)

Next ==
    \/ ContractStep
    \/ Tick
    \/ \E s \in Services :
          \/ Start(s) \/ Stop(s) \/ Crash(s)
          \/ \E e \in events[s] : OnAccumulated(s, e) \/ OnPollRegistered(s, e)
          \/ \E t \in timers[s] : FinaliseAll(s, t) \/ PollsThrows(s, t)
          \/ \E p \in Polls : Job(s, p) \/ CallFails(s, p)
          \/ \E p \in Polls, o \in Options : GetCiphertexts(s, p, o)
    \/ \E r \in refreshes : WriteSnapshot(r) \/ RefreshFails(r)
    \/ \E p \in Polls, o \in Options : SnapshotExpires(p, o)

\* Time passes, timers fire, started jobs and writes are carried out, and Redis
\* expires its keys.
Fairness ==
    /\ WF_now(Tick)
    /\ \A s \in Services, p \in Polls :
          /\ WF_jobs(Job(s, p))
          /\ WF_timers(\E t \in timers[s] :
                          t.poll = p /\ (FinaliseAll(s, t) \/ PollsThrows(s, t)))
    /\ WF_refreshes(\E r \in refreshes : WriteSnapshot(r))
    /\ \A p \in Polls, o \in Options : WF_cache(SnapshotExpires(p, o))

Spec == Init /\ [][Next]_vars /\ Fairness

-----------------------------------------------------------------------------
(* Properties *)

Ciphertext == [C1 : Points, C2 : Points, count : 0..Cardinality(Voters)]

\* Over the options of a poll, as many ciphertexts are summed up as nullifiers
\* are used. (submitEncryptedVote)
OneCiphertextPerNullifier ==
    \A p \in Polls :
        Cardinality({x \in Options \X (1..Cardinality(Voters)) : x[2] <= ciphertexts[p][x[1]].count})
            = Cardinality(nullifiersUsed[p])

\* The state of contract, cache and instances keeps its shape; a running job
\* stands at an option of a closed poll, and counts match nullifiers. (All handlers)
TypeOK ==
    /\ now \in 0..MaxTime
    /\ closeTime \in [Polls -> CloseTimes \cup {Unregistered}]
    /\ ciphertexts \in [Polls -> [Options -> Ciphertext]]
    /\ results \in [Polls -> [Options -> 0..MaxVoters \cup {Pending}]]
    /\ decodable \in BOOLEAN /\ spoiled \subseteq Polls \X Options
    /\ nullifiersUsed \in [Polls -> SUBSET Voters]
    /\ cache \in [Polls -> [Options -> Ciphertext \cup {Cold}]]
    /\ started \subseteq Services /\ disturbed \subseteq Services
    /\ \A s \in Services, p \in Polls :
          jobs[s][p] # Idle =>
             /\ jobs[s][p].option \in Options
             /\ jobs[s][p].pc \in {"Check", "Read", "Submit"}
             /\ closeTime[p] <= now
    /\ OneCiphertextPerNullifier

\* A result shown is the sum of all plaintexts the option received: the two
\* implementations of the curve agree, decryption undoes encryption, the search
\* finds the number, and no vote lands once a sum has been read.
\* (submitEncryptedVote, _finaliseOption, finaliseDecryption, getTallyResults)
ResultIsThePlainSum ==
    \A p \in Polls : \A o \in DOMAIN getTallyResults(p) :
        getTallyResults(p)[o] \in {Pending, plain[p][o]}

\* Whatever votes came in, at any time: what decrypting an option's sums yields
\* is the sum of its plaintexts, if it is at most MAX_VOTERS and all it received
\* are ciphertexts, and nothing otherwise. (_babyJubAdd, bjjScalarMul, bsgs, _finaliseOption)
EverySumDecrypts ==
    \A p \in Polls : closeTime[p] # Unregistered =>
        \A o \in Options :
            Recovered(p, o) = IF <<p, o>> \notin spoiled /\ plain[p][o] <= MaxVoters
                              THEN plain[p][o] ELSE NotFound

\* Whoever sees the plain sums, the closed polls and the posted results sees a
\* sealed poll: no vote is added after the close, and a result is posted once,
\* after it. (submitEncryptedVote, _finaliseAll, finaliseDecryption)
ClosedPolls == {p \in Polls : closeTime[p] # Unregistered /\ closeTime[p] <= now}
Sealed == INSTANCE SealedPoll WITH
    Numbers <- 0..MaxPlaintext, Limit <- MaxVoters,
    sum <- plain, closed <- ClosedPolls, declared <- results
ImplementsSealedPoll == Sealed!SealedSpec

\* Refreshes that overtake one another may leave an old snapshot in Redis after
\* the last vote, but not for ever: in the end the snapshot is the contract's
\* sum, or gone. (_refreshCache, CACHE_TTL)
StaleSnapshotsGo ==
    \A p \in Polls, o \in Options : <>[](cache[p][o] \in {Cold, ciphertexts[p][o]})

\* The option has its result, or its sums have none that the search can find.
Finalised(p, o) ==
    \/ results[p][o] # Pending
    \/ plain[p][o] > MaxVoters
    \/ <<p, o>> \in spoiled

TimedToFinalise(s, p) == \E t \in timers[s] : t.poll = p /\ t.at >= closeTime[p]

AllFinalised(s, p) == s \in disturbed \/ \A o \in Options : Finalised(p, o)

\* When polls() answers as declared, a timer set for the close of a poll finalises
\* every option the search can recover, whatever the other options hold, stopped
\* listeners and other instances notwithstanding, unless its process crashes or a
\* call fails. (start, stop, _finaliseAll)
TimerFinalises ==
    \A s \in Services, p \in Polls : decodable /\ TimedToFinalise(s, p) ~> AllFinalised(s, p)

\* "Auto-finalise polls that have closed" (line 189): the same of the repository's
\* contract, of which it does not hold.
AutoFinalises ==
    \A s \in Services, p \in Polls : TimedToFinalise(s, p) ~> AllFinalised(s, p)

\* What is cached and what is timed comes to the contract's sums in the end.
\* (_refreshCache, CACHE_TTL, _finaliseAll)
TallySettles == StaleSnapshotsGo /\ TimerFinalises

=============================================================================
