------------------------------- MODULE RateLimit -------------------------------
(***************************************************************************)
(* The sliding-window limiter in front of the vote, audit and FIDO2 routes  *)
(* (redisRateLimit): a sorted set in Redis for each client key, and four    *)
(* commands in a pipeline for each request. A process has one connection,   *)
(* so its pipelines follow one another in the order they were sent; those   *)
(* of different processes interleave command by command. Time may pass      *)
(* anywhere: between the reading of the clock and the first command, and     *)
(* between any two commands, when Redis may drop the key. The processes and *)
(* Redis are assumed to have the same clock, and Redis to execute a command *)
(* it is sent at most once.                                                 *)
(***************************************************************************)
EXTENDS Naturals, FiniteSets

CONSTANTS
    Processes,          \* backend processes
    Clients,            \* client keys: address and country
    Limit,              \* client -> effectiveLimit, which the country decides
    windowMs,
    Requests,           \* bound: the requests
    MaxTime             \* bound: the clock

\* The limits of the limiters at the end of rateLimitRedis.ts are positive.
ASSUME LimitAssumption ==
    /\ IsFiniteSet(Processes) /\ IsFiniteSet(Requests)
    /\ Limit \in [Clients -> Nat \ {0}]
    /\ windowMs \in Nat \ {0}
    /\ MaxTime \in Nat

VARIABLES
    now,
    members,            \* Redis: client -> its sorted set, [request, score]
    expiry,             \* Redis: client -> when the key expires, 0 for never
    requests,           \* request -> where its middleware is
    slowest,            \* history: the longest from a request's time to its zcard or zadd
    dropped             \* history: the requests whose key Redis dropped before their pexpire

limitVars == <<now, members, expiry, requests, slowest, dropped>>

Running == {"Evict", "Count", "Add", "Expire", "Decide"}
\* Where the first of its commands has been executed and the last has not.
Executing == {"Count", "Add", "Expire"}
\* A request ends at "Next" (within the limit), "Open" (Redis failed, next() too)
\* or "TooMany" (429).
Advance(r, pc) == requests' = [requests EXCEPT ![r].pc = pc]
Finish(r, answer) ==
    requests' = [requests EXCEPT ![r] = [pc |-> answer, client |-> @.client, at |-> @.at]]
Key(r) == requests[r].client
Waits(r) == slowest' = IF requests[r].at + slowest < now THEN now - requests[r].at ELSE slowest

-----------------------------------------------------------------------------

\* The middleware up to the pipeline: the clock is read once, and the pipeline is
\* sent, which may be long before Redis gets to it.
Arrive(r, p, c) ==
    /\ requests[r].pc = "Unsent"
    /\ requests' = [requests EXCEPT ![r] =
           [pc |-> "Evict", process |-> p, client |-> c, at |-> now, count |-> 0]]
    /\ UNCHANGED <<now, members, expiry, slowest, dropped>>

\* The connection has nothing else to do first.
IsNext(r) ==
    \A q \in Requests \ {r} : requests[q].pc \in Running /\ requests[q].process = requests[r].process =>
        /\ requests[q].pc \notin Executing
        /\ requests[q].pc = "Evict" => requests[q].at >= requests[r].at

\* Mutant: the window is not subtracted.
Evicted_Now(r) == {m \in members[Key(r)] : m.score <= requests[r].at}

Evicted(r) == {m \in members[Key(r)] : m.score + windowMs <= requests[r].at}

\* zremrangebyscore; a set left empty is no key any more.
Evict(r) ==
    /\ requests[r].pc = "Evict" /\ IsNext(r)
    /\ members' = [members EXCEPT ![Key(r)] = @ \ Evicted(r)]
    /\ expiry' = [expiry EXCEPT ![Key(r)] = IF members'[Key(r)] = {} THEN 0 ELSE @]
    /\ Advance(r, "Count")
    /\ UNCHANGED <<now, slowest, dropped>>

\* zcard
Count(r) ==
    /\ requests[r].pc = "Count"
    /\ requests' = [requests EXCEPT ![r].pc = "Add", ![r].count = Cardinality(members[Key(r)])]
    /\ Waits(r)
    /\ UNCHANGED <<now, members, expiry, dropped>>

Member(r) == [request |-> r, score |-> requests[r].at]

\* zadd: of every request, those about to be rejected too.
Add(r) ==
    /\ requests[r].pc = "Add"
    /\ members' = [members EXCEPT ![Key(r)] = @ \cup {Member(r)}]
    /\ Advance(r, "Expire")
    /\ Waits(r)
    /\ UNCHANGED <<now, expiry, dropped>>

\* pexpire: nothing where there is no key (any more).
Expire(r) ==
    /\ requests[r].pc = "Expire"
    /\ expiry' = [expiry EXCEPT ![Key(r)] = IF members[Key(r)] = {} THEN @ ELSE now + windowMs]
    /\ Advance(r, "Decide")
    /\ UNCHANGED <<now, members, slowest, dropped>>

Decide(r) ==
    /\ requests[r].pc = "Decide"
    /\ Finish(r, IF requests[r].count >= Limit[Key(r)] THEN "TooMany" ELSE "Next")
    /\ UNCHANGED <<now, members, expiry, slowest, dropped>>

\* Redis fails in the middle: what ran has run, and the request goes through.
PipelineFails(r) ==
    /\ requests[r].pc \in Running
    /\ Finish(r, "Open")
    /\ UNCHANGED <<now, members, expiry, slowest, dropped>>

\* Time passes; Redis drops the keys that have expired.
Expired(c) == expiry[c] # 0 /\ expiry[c] <= now + 1

Tick ==
    /\ now < MaxTime
    /\ now' = now + 1
    /\ members' = [c \in Clients |-> IF Expired(c) THEN {} ELSE members[c]]
    /\ expiry' = [c \in Clients |-> IF Expired(c) THEN 0 ELSE expiry[c]]
    /\ dropped' = dropped \cup {r \in Requests : requests[r].pc = "Expire" /\ Expired(Key(r))}
    /\ UNCHANGED <<requests, slowest>>

-----------------------------------------------------------------------------
(* Specification *)

LimitInit ==
    /\ now = 0
    /\ members = [c \in Clients |-> {}]
    /\ expiry = [c \in Clients |-> 0]
    /\ requests = [r \in Requests |-> [pc |-> "Unsent"]]
    /\ slowest = 0
    /\ dropped = {}

Pipeline(r) == Evict(r) \/ Count(r) \/ Add(r) \/ Expire(r) \/ Decide(r)

LimitNext ==
    \/ Tick
    \/ \E r \in Requests :
          \/ \E p \in Processes, c \in Clients : Arrive(r, p, c)
          \/ Pipeline(r)
          \/ PipelineFails(r)

LimitSpec == LimitInit /\ [][LimitNext]_limitVars

-----------------------------------------------------------------------------
(* Properties *)

Sent(c) == {r \in Requests : requests[r].pc # "Unsent" /\ requests[r].client = c}

\* The sorted set is the window: it has nothing from the future, and every request
\* that was added less than a window ago, but those that were dropped with their
\* key, never more than one for each process. (pipeline)
LimitTypeOK ==
    \A c \in Clients :
        /\ \A m \in members[c] : m.score <= now /\ m.request \in Sent(c)
        /\ \A r \in Sent(c) \ dropped :
              (requests[r].pc \in {"Decide", "Next", "TooMany"} /\ requests[r].at + windowMs > now)
                  => Member(r) \in members[c]
        /\ Cardinality({r \in Sent(c) \cap dropped : requests[r].at + windowMs > now})
              <= Cardinality(Processes)

\* Of the requests that arrive within one window, less the longest delay of a
\* pipeline, and are not dropped with their key, a client gets no more through than its
\* limit and one for each further process. The pipeline is not a transaction: as
\* many may have counted before the first of them adds. The delay counts because
\* the clock is read before the pipeline is sent. (redisRateLimit)
AllowedWithinLimit ==
    \A c \in Clients, t \in 0..MaxTime :
        Cardinality({r \in Sent(c) \ dropped : /\ requests[r].pc = "Next"
                                               /\ t <= requests[r].at
                                               /\ requests[r].at + slowest < t + windowMs})
            < Limit[c] + Cardinality(Processes)

\* The requests that a pipeline may have counted: within a window of it, the longest
\* delay more on either side.
Around(r) ==
    {q \in Sent(Key(r)) \ {r} : /\ requests[q].at <= requests[r].at + slowest
                                /\ requests[q].at + windowMs + slowest > requests[r].at}

\* A client that sends fewer requests around it than its limit, rejected ones
\* included, is not rejected: whoever waits a window out gets through, and other
\* clients do not count. (zremrangebyscore, zadd)
QuietClientPasses ==
    \A r \in Requests : requests[r].pc = "TooMany" => Limit[Key(r)] <= Cardinality(Around(r))

\* The limiter lets through what it should and no more. (redisRateLimit)
LimiterSafe == LimitTypeOK /\ AllowedWithinLimit /\ QuietClientPasses

=============================================================================
