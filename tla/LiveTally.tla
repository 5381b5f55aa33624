------------------------------- MODULE LiveTally -------------------------------
(***************************************************************************)
(* The live results feed: LiveTallyService (backend/src/services/           *)
(* LiveTallyService.ts) turns the ledger's events into in-process tallies,  *)
(* WSBroadcaster pushes them to WebSocket clients.                          *)
(*                                                                          *)
(* The chain is the sequence of its events, each with the block it is in;   *)
(* an event can be read once its block is sealed. The service runs in one   *)
(* process: a callback is one step, and between two of them, and between    *)
(* the awaits of start, the chain grows. The two subscriptions (VoteCast,   *)
(* PolicyFinalized) are independent readers, each at its own place.         *)
(*                                                                          *)
(* The service listens for VoteCast(bytes32,bytes32,string,uint256) and     *)
(* PolicyFinalized(bytes32), by ethers.id(policyId) (lines 26-29, 59).      *)
(* VoteLedger emits VoteCast(bytes32,bytes32,bytes32) and                   *)
(* PollFinalised(bytes32,uint256), of keccak(policyId, countryCode): no     *)
(* subscription matches them. A ledger that emits what the service declares *)
(* and the repository's are both initial states.                            *)
(*                                                                          *)
(* Tracked is any set of policies: the repository has no call of            *)
(* trackPolicy, so there it is empty; index.ts calls start once, without a  *)
(* block. The other arguments, and stop, are the service's interface.       *)
(*                                                                          *)
(* A message is what the client shows after it: WebSocket keeps the order,  *)
(* so the last one sent is the last one shown.                              *)
(***************************************************************************)
EXTENDS Integers, Sequences, FiniteSets

CONSTANTS
    Policies,
    Tracked,        \* the policies given to trackPolicy at startup; of index.ts, none
    Options,
    Fields,         \* the options OPTION_FIELD knows
    Clients,        \* WebSocket clients
    FromBlocks,     \* the arguments start is called with in a new process
    Replays,        \* does the provider deliver an event again?
    MaxPerBlock,    \* bound: events in a block
    MaxHeight,      \* bound: sealed blocks
    MaxStarts       \* bound: calls of start

ASSUME PolicyAssumption == Tracked \subseteq Policies /\ Fields \subseteq Options
ASSUME BoundAssumption ==
    /\ MaxPerBlock \in Nat /\ MaxHeight \in Nat /\ MaxStarts \in Nat
    /\ FromBlocks \subseteq Nat

VARIABLES
    declared,       \* does the ledger emit the events the service declares?
    events,         \* the chain's events, oldest first
    height,         \* the last sealed block
    service,        \* where start is
    lastSeen,       \* lastSeenBlock
    tallies,        \* tracked policy -> its tally
    voteCursor,     \* the last event the VoteCast subscription passed, or Off
    finalCursor,    \* the same for PolicyFinalized
    subs,           \* subscriptions: client -> policies
    shown,          \* client -> policy -> the last tally sent, or Nothing
    starts,         \* calls of start so far
    base,           \* history: the last event before the VoteCast subscription, or Off
    origin          \* history: how this process came by its tallies (Origins)

chainVars == <<declared, events, height>>
serviceVars == <<service, lastSeen, tallies, voteCursor, finalCursor,
                 starts, base, origin>>
clientVars == <<subs, shown>>
vars == <<chainVars, serviceVars, clientVars>>

Off == -1
Nothing == [total |-> Off]
Origins == {"Live",         \* from its subscription alone
            "CaughtUp",     \* started from a block, and not stopped since
            "Restarted"}    \* stopped and started again
Empty == [counts |-> [o \in Fields |-> 0], total |-> 0, lastBlock |-> 0,
          finalized |-> FALSE]

IsVote(i) == events[i].event = "VoteCast"
IsFinal(i) == events[i].event = "PolicyFinalized"

\* The events that can be read, a prefix of the chain's, and those of them that
\* the service's queries and subscriptions match.
Sealed == {i \in DOMAIN events : events[i].block <= height}
Matched == IF declared THEN Sealed ELSE {}

VotesAmong(p, I) == {i \in I : IsVote(i) /\ events[i].policy = p}

Next1(I) == CHOOSE i \in I : \A j \in I : i <= j

-----------------------------------------------------------------------------
(* The ledger: its accepted votes and finalisations *)

OpenPolls == {p \in Policies : \A i \in DOMAIN events : ~(IsFinal(i) /\ events[i].policy = p)}

\* The bounds.
Room ==
    /\ height < MaxHeight
    /\ Cardinality({i \in DOMAIN events : events[i].block = height + 1}) < MaxPerBlock

VoteEmitted(p, o) ==
    /\ p \in OpenPolls
    /\ Room
    /\ events' = Append(events, [event |-> "VoteCast", policy |-> p, option |-> o,
                                 block |-> height + 1])
    /\ UNCHANGED <<declared, height, serviceVars, clientVars>>

FinalEmitted(p) ==
    /\ p \in OpenPolls
    /\ Room
    /\ events' = Append(events, [event |-> "PolicyFinalized", policy |-> p,
                                 block |-> height + 1])
    /\ UNCHANGED <<declared, height, serviceVars, clientVars>>

BlockSealed ==
    /\ height < MaxHeight
    /\ height' = height + 1
    /\ UNCHANGED <<declared, events, serviceVars, clientVars>>

-----------------------------------------------------------------------------
(* The broadcaster *)

\* The listener of "tally": every client subscribed to the policy is sent it.
Broadcast(p, t) ==
    shown' = [c \in Clients |->
                 IF p \in subs[c] THEN [shown[c] EXCEPT ![p] = t] ELSE shown[c]]

\* Mutant: no snapshot on subscribe.
Subscribe_NoSnapshot(c, p) ==
    /\ subs' = [subs EXCEPT ![c] = @ \cup {p}]
    /\ UNCHANGED <<shown, chainVars, serviceVars>>

\* subscribe: the snapshot is sent at once, if the policy has one.
Subscribe(c, p) ==
    /\ subs' = [subs EXCEPT ![c] = @ \cup {p}]
    /\ shown' = IF p \in Tracked THEN [shown EXCEPT ![c][p] = tallies[p]] ELSE shown
    /\ UNCHANGED <<chainVars, serviceVars>>

Unsubscribe(c, p) ==
    /\ subs' = [subs EXCEPT ![c] = @ \ {p}]
    /\ UNCHANGED <<shown, chainVars, serviceVars>>

Disconnect(c) ==
    /\ subs' = [subs EXCEPT ![c] = {}]
    /\ shown' = [shown EXCEPT ![c] = [p \in Policies |-> Nothing]]
    /\ UNCHANGED <<chainVars, serviceVars>>

-----------------------------------------------------------------------------
(* The service *)

Init ==
    /\ declared \in BOOLEAN
    /\ events = <<>>
    /\ height = 0
    /\ service = "Down"
    /\ lastSeen = 0
    /\ tallies = [p \in Tracked |-> Empty]
    /\ voteCursor = Off
    /\ finalCursor = Off
    /\ subs = [c \in Clients |-> {}]
    /\ shown = [c \in Clients |-> [p \in Policies |-> Nothing]]
    /\ starts = 0
    /\ base = Off
    /\ origin = "Live"

\* applyVoteCast, for each of the votes I on a policy.
Apply(t, p, I) ==
    LET V == VotesAmong(p, I)
    IN  [counts |-> [o \in Fields |->
                        t.counts[o] + Cardinality({i \in V : events[i].option = o})],
         total |-> t.total + Cardinality(V),
         lastBlock |-> IF \E i \in V : events[i].block > t.lastBlock
                       THEN CHOOSE b \in {events[i].block : i \in V} :
                                \A i \in V : events[i].block <= b
                       ELSE t.lastBlock,
         finalized |-> t.finalized]

\* Mutant: start begins with fresh tallies.
Start_Resets(from) ==
    /\ starts < MaxStarts
    /\ \/ /\ service = "Down"
          /\ from \in FromBlocks
          /\ origin' = IF from > 0 THEN "CaughtUp" ELSE "Live"
       \/ /\ service = "Stopped"
          /\ from = lastSeen
          /\ origin' = "Restarted"
    /\ lastSeen' = from
    /\ service' = IF from > 0 THEN "CatchUp" ELSE "Subscribing"
    /\ starts' = starts + 1
    /\ tallies' = [p \in Tracked |-> Empty]
    /\ UNCHANGED <<voteCursor, finalCursor, base, chainVars, clientVars>>

\* start: of a new process from the block it is told, of a running one (after
\* stop) from the last seen block. Without a block there is nothing to catch up.
Start(from) ==
    /\ starts < MaxStarts
    /\ \/ /\ service = "Down"
          /\ from \in FromBlocks
          /\ origin' = IF from > 0 THEN "CaughtUp" ELSE "Live"
       \/ /\ service = "Stopped"
          /\ from = lastSeen
          /\ origin' = "Restarted"
    /\ lastSeen' = from
    /\ service' = IF from > 0 THEN "CatchUp" ELSE "Subscribing"
    /\ starts' = starts + 1
    /\ UNCHANGED <<tallies, voteCursor, finalCursor, base, chainVars, clientVars>>

\* catchUp: every vote the query matches from that block on, of which the clients are not
\* told, and lastSeenBlock does not move.
CatchUp ==
    /\ service = "CatchUp"
    /\ tallies' = [p \in Tracked |->
                      Apply(tallies[p], p, {i \in Matched : events[i].block >= lastSeen})]
    /\ service' = "Subscribing"
    /\ UNCHANGED <<lastSeen, voteCursor, finalCursor, starts, base, origin, chainVars, clientVars>>

\* The query fails: start rejects, index.ts logs it, nothing subscribes.
CatchUpFails ==
    /\ service = "CatchUp"
    /\ service' = "Failed"
    /\ UNCHANGED <<lastSeen, tallies, voteCursor, finalCursor, starts, base, origin,
                   chainVars, clientVars>>

\* contract.on: each subscription begins after the block that is the last one when
\* the provider asks for it.
SubscribeVotes ==
    /\ service = "Subscribing"
    /\ voteCursor = Off
    /\ voteCursor' = Cardinality(Sealed)
    /\ base' = voteCursor'
    /\ UNCHANGED <<service, lastSeen, tallies, finalCursor, starts, origin,
                   chainVars, clientVars>>

SubscribeFinals ==
    /\ service = "Subscribing"
    /\ finalCursor = Off
    /\ finalCursor' = Cardinality(Sealed)
    /\ UNCHANGED <<service, lastSeen, tallies, voteCursor, starts, base, origin,
                   chainVars, clientVars>>

\* Mutant: the block seen last is remembered as the next one.
OnVoteCast_OffByOne(i) ==
    LET p == events[i].policy
    IN  IF events[i].block <= lastSeen
        THEN UNCHANGED <<lastSeen, tallies, shown>>
        ELSE /\ lastSeen' = events[i].block + 1
             /\ IF p \in Tracked
                THEN /\ tallies' = [tallies EXCEPT ![p] = Apply(@, p, {i})]
                     /\ Broadcast(p, tallies'[p])
                ELSE UNCHANGED <<tallies, shown>>

\* onVoteCast: ignores a block it has already seen a vote of; a vote on a policy
\* that is not tracked still moves lastSeenBlock.
OnVoteCast(i) ==
    LET p == events[i].policy
    IN  IF events[i].block <= lastSeen
        THEN UNCHANGED <<lastSeen, tallies, shown>>
        ELSE /\ lastSeen' = events[i].block
             /\ IF p \in Tracked
                THEN /\ tallies' = [tallies EXCEPT ![p] = Apply(@, p, {i})]
                     /\ Broadcast(p, tallies'[p])
                ELSE UNCHANGED <<tallies, shown>>

VotesAhead == {i \in Matched : IsVote(i) /\ i > voteCursor}
FinalsAhead == {i \in Matched : IsFinal(i) /\ i > finalCursor}

DeliverVote ==
    /\ voteCursor # Off
    /\ VotesAhead # {}
    /\ voteCursor' = Next1(VotesAhead)
    /\ OnVoteCast(voteCursor')
    /\ UNCHANGED <<service, finalCursor, starts, base, origin, chainVars, subs>>

\* The provider delivers an event of this subscription a second time.
ReplayVote(i) ==
    /\ Replays
    /\ i \in base + 1 .. voteCursor
    /\ IsVote(i)
    /\ OnVoteCast(i)
    /\ UNCHANGED <<service, voteCursor, finalCursor, starts, base, origin, chainVars, subs>>

\* Mutant: the finalisation is noted and not emitted.
DeliverFinal_Silent ==
    /\ finalCursor # Off
    /\ FinalsAhead # {}
    /\ finalCursor' = Next1(FinalsAhead)
    /\ LET p == events[finalCursor'].policy
       IN  tallies' = IF p \in Tracked
                      THEN [tallies EXCEPT ![p].finalized = TRUE] ELSE tallies
    /\ UNCHANGED <<service, lastSeen, voteCursor, starts, base, origin, chainVars, clientVars>>

\* Mutant: the policy is stored in the flag.
DeliverFinal_StoresPolicy ==
    /\ finalCursor # Off
    /\ FinalsAhead # {}
    /\ finalCursor' = Next1(FinalsAhead)
    /\ LET p == events[finalCursor'].policy
       IN  IF p \in Tracked
           THEN /\ tallies' = [tallies EXCEPT ![p].finalized = p]
                /\ Broadcast(p, tallies'[p])
           ELSE UNCHANGED <<tallies, shown>>
    /\ UNCHANGED <<service, lastSeen, voteCursor, starts, base, origin, chainVars, subs>>

\* onPolicyFinalized
DeliverFinal ==
    /\ finalCursor # Off
    /\ FinalsAhead # {}
    /\ finalCursor' = Next1(FinalsAhead)
    /\ LET p == events[finalCursor'].policy
       IN  IF p \in Tracked
           THEN /\ tallies' = [tallies EXCEPT ![p].finalized = TRUE]
                /\ Broadcast(p, tallies'[p])
           ELSE UNCHANGED <<tallies, shown>>
    /\ UNCHANGED <<service, lastSeen, voteCursor, starts, base, origin, chainVars, subs>>

\* stop: the listeners go, the tallies stay.
Stop ==
    /\ service = "Subscribing"
    /\ voteCursor # Off /\ finalCursor # Off
    /\ service' = "Stopped"
    /\ voteCursor' = Off
    /\ finalCursor' = Off
    /\ UNCHANGED <<lastSeen, tallies, starts, base, origin, chainVars, clientVars>>

\* The process dies, with its tallies and its clients' connections.
Crash ==
    /\ service # "Down"
    /\ starts < MaxStarts
    /\ service' = "Down"
    /\ lastSeen' = 0
    /\ tallies' = [p \in Tracked |-> Empty]
    /\ voteCursor' = Off
    /\ finalCursor' = Off
    /\ subs' = [c \in Clients |-> {}]
    /\ shown' = [c \in Clients |-> [p \in Policies |-> Nothing]]
    /\ base' = Off
    /\ origin' = "Live"
    /\ UNCHANGED <<starts, chainVars>>

Next ==
    \/ \E p \in Policies, o \in Options : VoteEmitted(p, o)
    \/ \E p \in Policies : FinalEmitted(p)
    \/ BlockSealed
    \/ \E c \in Clients, p \in Policies : Subscribe(c, p) \/ Unsubscribe(c, p)
    \/ \E c \in Clients : Disconnect(c)
    \/ \E from \in FromBlocks \cup {lastSeen} : Start(from)
    \/ CatchUp \/ CatchUpFails
    \/ SubscribeVotes \/ SubscribeFinals
    \/ DeliverVote \/ DeliverFinal
    \/ \E i \in DOMAIN events : ReplayVote(i)
    \/ Stop \/ Crash

Spec == Init /\ [][Next]_vars

\* The provider keeps polling: a subscription is set up and what it has to deliver
\* is delivered.
Fairness ==
    /\ WF_vars(SubscribeVotes) /\ WF_vars(SubscribeFinals)
    /\ WF_vars(DeliverVote) /\ WF_vars(DeliverFinal)

FairSpec == Spec /\ Fairness

-----------------------------------------------------------------------------
(* Correctness *)

Tally == [counts : [Fields -> Nat], total : Nat, lastBlock : Nat, finalized : BOOLEAN]

TypeOK ==
    /\ declared \in BOOLEAN
    /\ height \in 0 .. MaxHeight
    /\ \A i \in DOMAIN events :
           /\ events[i].event \in {"VoteCast", "PolicyFinalized"}
           /\ events[i].policy \in Policies
           /\ events[i].block \in 1 .. MaxHeight
    /\ service \in {"Down", "CatchUp", "Subscribing", "Failed", "Stopped"}
    /\ lastSeen \in Nat
    /\ tallies \in [Tracked -> Tally]
    /\ {voteCursor, finalCursor, base} \subseteq {Off} \cup (0 .. Len(events))
    /\ subs \in [Clients -> SUBSET Policies]
    /\ shown \in [Clients -> [Policies -> Tally \cup {Nothing}]]
    /\ starts \in 0 .. MaxStarts
    /\ origin \in Origins

\* The votes on p among the events from the base of the subscription to n that are
\* the first vote, on any policy, of their block.
FirstVotes(p, n) ==
    {i \in VotesAmong(p, base + 1 .. n) :
        \A j \in base + 1 .. i - 1 : IsVote(j) => events[j].block # events[i].block}

\* In a process that has its tallies from its subscription, a tally counts the
\* first vote of every block up to the one delivered last, each once, and each
\* option's count its own: replays add nothing, and a vote on a policy that is not
\* tracked hides the later votes of its block. (onVoteCast, applyVoteCast)
FirstVotesCounted ==
    origin = "Live" /\ voteCursor # Off =>
        \A p \in Tracked :
            LET V == FirstVotes(p, voteCursor)
            IN  /\ tallies[p].total = Cardinality(V)
                /\ \A o \in Fields :
                       tallies[p].counts[o] = Cardinality({i \in V : events[i].option = o})

\* "Each VoteCast event increments an in-process tally snapshot" (line 15): a tally
\* counts every vote up to the one delivered last. It does not, of two votes in a
\* block.
EveryVoteCounted ==
    origin = "Live" /\ voteCursor # Off =>
        \A p \in Tracked :
            tallies[p].total = Cardinality(VotesAmong(p, base + 1 .. voteCursor))

\* The same of the ledger's votes (line 7, "subscribes to on-chain VoteCast
\* events"): once nothing is left to deliver, a tally counts the votes since the
\* subscription, were there one in each block. Of the repository's VoteLedger,
\* which the subscription does not match, it does not.
LedgerVotesCounted ==
    origin = "Live" /\ voteCursor # Off /\ VotesAhead = {} =>
        \A p \in Tracked :
            tallies[p].total = Cardinality(FirstVotes(p, Cardinality(Sealed)))

\* "On reconnect (provider restart), the service re-queries from the last seen
\* block to catch up without double-counting" (lines 16-17): no tally exceeds the
\* votes there are.
NoDoubleCounting ==
    \A p \in Tracked : tallies[p].total <= Cardinality(VotesAmong(p, Sealed))

\* The same of a process that has not been stopped and started: what it caught up
\* with and what it is delivered do not overlap, whatever arrives during catchUp.
CatchUpNotRecounted == origin # "Restarted" => NoDoubleCounting

\* What a tally holds: the first vote of each block in a process that lives on its
\* subscription, nothing twice in one that caught up first. (onVoteCast, catchUp)
TalliesAreRight == FirstVotesCounted /\ CatchUpNotRecounted

\* A subscribed client shows what the service would answer now (WSBroadcaster.ts
\* 56-62, 80-87): no update is lost between the snapshot and the updates, and none
\* overtakes another. Only catchUp changes tallies without telling the clients.
ClientsShowTheTally ==
    origin = "Live" =>
        \A c \in Clients : \A p \in subs[c] \cap Tracked : shown[c][p] = tallies[p]

\* What a client shows never goes back (its snapshot and updates come from tallies
\* that are incremented only), also when the service is stopped and started.
ShownNeverShrinks ==
    [][\A c \in Clients, p \in Policies :
           shown[c][p] # Nothing /\ shown'[c][p] # Nothing =>
               shown'[c][p].total >= shown[c][p].total]_vars

\* What happens in the end, once the chain rests: a client that stays subscribed to
\* a service that listens, and never was stopped, shows the first vote of every
\* block since then, of a ledger whose events the subscription matches; of the
\* repository's it shows none.
VotesAreShown ==
    <>[](\A c \in Clients : \A p \in subs[c] \cap Tracked :
             service = "Subscribing" /\ origin = "Live" =>
                 /\ voteCursor # Off
                 /\ shown[c][p].total =
                        IF declared THEN Cardinality(FirstVotes(p, Cardinality(Sealed))) ELSE 0)
==============================================================================
