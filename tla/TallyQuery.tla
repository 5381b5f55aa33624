------------------------------ MODULE TallyQuery ------------------------------
(***************************************************************************)
(* The tally of a policy as TallyService computes it: two event queries,    *)
(* one after the other, and a cache that holds the answer for CACHE_TTL_MS  *)
(* from the end of the second. Queries overlap, and each writes the cache   *)
(* when it ends. Policies are independent; this is one of them.             *)
(*                                                                          *)
(* The service asks for the events VoteCast(bytes32,bytes32,string,uint256) *)
(* and PolicyFinalized(bytes32); VoteLedger emits a VoteCast of three words *)
(* and PollFinalised, which the queries do not match. A ledger that emits   *)
(* what the service declares and the repository's are both initial states.  *)
(***************************************************************************)
EXTENDS Naturals, Sequences, FiniteSets

CONSTANTS
    OPTION_MAP,         \* the options counted by name
    OtherOption,        \* any other option
    CACHE_TTL_MS,
    MaxDelay,           \* bound: how long a query takes
    Queries,            \* handlers that call getTally; bound: a call each
    Certifying,         \* those of them that certify the result
    MaxVotes, MaxTime   \* bounds: the chain, the clock

ASSUME LifeAssumption == CACHE_TTL_MS \in Nat \ {0} /\ MaxDelay \in Nat /\ MaxTime \in Nat

VARIABLES
    now,
    declared,           \* does the ledger emit the events the service declares?
    chain,              \* the votes the ledger has counted, [option, at]
    finalisedAt,        \* when the ledger finalised the poll, or Never
    cache,              \* [tally, at], or None
    queries             \* call -> where it is

tallyVars == <<now, declared, chain, finalisedAt, cache, queries>>

Never == MaxTime + 1
None == [at |-> Never]
Idle == [pc |-> "Idle"]
End(q, pc) == queries' = [queries EXCEPT ![q] = [pc |-> pc]]

-----------------------------------------------------------------------------
(* The chain and the clock *)

\* castVote, accepted.
CastVote(o) ==
    /\ finalisedAt = Never /\ Len(chain) < MaxVotes
    /\ chain' = Append(chain, [option |-> o, at |-> now])
    /\ UNCHANGED <<now, declared, finalisedAt, cache, queries>>

\* finalisePoll
Finalise ==
    /\ finalisedAt = Never
    /\ finalisedAt' = now
    /\ UNCHANGED <<now, declared, chain, cache, queries>>

Tick ==
    /\ now < MaxTime
    /\ \A q \in Queries : queries[q].pc \in {"Votes", "Final"} => now - queries[q].began < MaxDelay
    /\ now' = now + 1
    /\ UNCHANGED <<declared, chain, finalisedAt, cache, queries>>

-----------------------------------------------------------------------------
(* getTally *)

\* The count by option and in total. (A second event of a nullifier would be
\* skipped; the ledger has none.)
Aggregate(events) ==
    [counts |-> [o \in OPTION_MAP |-> Cardinality({i \in DOMAIN events : events[i].option = o})],
     total |-> Len(events)]

\* A tally for the results route is answered, one for a certificate goes on.
Answer(q, began, tally, finalized) ==
    queries' = [queries EXCEPT ![q] =
        [pc |-> IF q \in Certifying THEN "Certify" ELSE "Answered",
         began |-> began, tally |-> tally, finalized |-> finalized]]

Fresh == cache # None /\ now - cache.at < CACHE_TTL_MS

\* The cache is asked first.
Ask(q) ==
    /\ queries[q] = Idle
    /\ IF Fresh THEN Answer(q, now, cache.tally, cache.finalized)
                ELSE queries' = [queries EXCEPT ![q] = [pc |-> "Votes", began |-> now]]
    /\ UNCHANGED <<now, declared, chain, finalisedAt, cache>>

\* The VoteCast events the query matches, and whether it matches a finalisation.
Votes == IF declared THEN chain ELSE <<>>
Finalized == declared /\ finalisedAt # Never

\* The VoteCast events, and the loop over them.
QueryVotes(q) ==
    /\ queries[q].pc = "Votes"
    /\ queries' = [queries EXCEPT ![q] = [pc |-> "Final", began |-> @.began, tally |-> Aggregate(Votes)]]
    /\ UNCHANGED <<now, declared, chain, finalisedAt, cache>>

\* The PolicyFinalized events; the answer enters the cache, though a later query
\* may have ended before.
QueryFinal(q) ==
    /\ queries[q].pc = "Final"
    /\ Answer(q, queries[q].began, queries[q].tally, Finalized)
    /\ cache' = [tally |-> queries[q].tally, finalized |-> Finalized, at |-> now]
    /\ UNCHANGED <<now, declared, chain, finalisedAt>>

\* The RPC endpoint fails: an error is answered, nothing cached.
QueryFails(q) ==
    /\ queries[q].pc \in {"Votes", "Final"}
    /\ End(q, "Failed")
    /\ UNCHANGED <<now, declared, chain, finalisedAt, cache>>

-----------------------------------------------------------------------------

TallyInit ==
    /\ now = 0
    /\ declared \in BOOLEAN
    /\ chain = <<>>
    /\ finalisedAt = Never
    /\ cache = None
    /\ queries = [q \in Queries |-> Idle]

TallyStep(q) == QueryVotes(q) \/ QueryFinal(q)

TallyNext ==
    \/ Finalise \/ Tick
    \/ \E o \in OPTION_MAP \cup {OtherOption} : CastVote(o)
    \/ \E q \in Queries : Ask(q) \/ TallyStep(q) \/ QueryFails(q)

-----------------------------------------------------------------------------
(* Properties *)

Given(q) == queries[q].pc \in {"Answered", "Certify"}

\* An answer counts the votes up to some moment, at most a cache life and two
\* queries back: older votes are in it, and so is an older finalisation.
Recent(q, events, finalised) ==
    LET old(t) == t + CACHE_TTL_MS + MaxDelay <= queries[q].began
    IN  /\ \E k \in 0..Len(events) :
              /\ queries[q].tally = Aggregate(SubSeq(events, 1, k))
              /\ \A i \in k + 1..Len(events) : ~old(events[i].at)
        /\ finalised /\ old(finalisedAt) => queries[q].finalized

\* An answer is recent, whichever query wrote the cache, of the events that the
\* queries match; of a ledger that emits no such events it is zero and open, and
\* never anything else. (In between, an answer can be behind an earlier one, and
\* one flagged final can miss votes.) (getTally)
AnswersAreRecent ==
    \A q \in Queries : Given(q) =>
        /\ Recent(q, Votes, declared)
        /\ queries[q].finalized => Finalized

\* The service says that it aggregates all votes from the chain: an answer is
\* recent of the votes the ledger has counted. Of the repository's VoteLedger,
\* whose events the queries do not match, it does not hold. (getTally)
AnswersCountVotes == \A q \in Queries : Given(q) => Recent(q, chain, TRUE)

=============================================================================
