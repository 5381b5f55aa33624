----------------------------- MODULE VoteLedger ------------------------------
(***************************************************************************)
(* blockchain/contracts/VoteLedger.sol: the on-chain ledger every voting    *)
(* channel ends in.                                                         *)
(*                                                                          *)
(* A transaction is atomic, so each external function is one action. A call *)
(* whose guard fails reverts and changes nothing; it is not an action. The  *)
(* fields of struct Poll are functions of the poll id, one variable each.   *)
(*                                                                          *)
(* Abstractions. A poll id stands for keccak256(policyId ++ countryCode),   *)
(* which is injective because countryCode has a fixed width. The verifier   *)
(* is external: the environment submits only proofs it accepts (one it      *)
(* rejects reverts, line 164). Timestamps are small naturals; 0 keeps its   *)
(* meaning of "no such poll". The event log keeps the two events a reader   *)
(* of the log consumes, VoteCast and PollFinalised.                         *)
(***************************************************************************)
EXTENDS Integers, Sequences, FiniteSets

CONSTANTS
    Polls,          \* the poll ids
    Options,        \* the option hashes
    Nullifiers,     \* the nullifiers voters derive
    Accounts,       \* the addresses that may own the contract
    NoAccount,      \* the zero address, owner after renounceOwnership
    MaxTime         \* bound: the last block timestamp the model reaches

ASSUME MaxTimeAssumption == MaxTime \in Nat
ASSUME NoAccountAssumption == NoAccount \notin Accounts

VARIABLES
    now,            \* block.timestamp of the block being built
    owner,          \* OwnableUpgradeable's owner
    paused,         \* PausableUpgradeable's flag
    deadline,       \* poll -> Poll.deadline, 0 when the poll does not exist
    finalised,      \* poll -> Poll.finalised
    totalVotes,     \* poll -> Poll.totalVotes
    optionTally,    \* poll -> option -> Poll.optionTally
    spent,          \* _nullifiers, as the set of spent ones
    nullifierList,  \* nullifierList, in insertion order
    log             \* the VoteCast and PollFinalised events, oldest first

pollVars  == <<deadline, finalised, totalVotes, optionTally>>
nullVars  == <<spent, nullifierList>>
adminVars == <<owner, paused>>
vars == <<now, owner, paused, deadline, finalised, totalVotes, optionTally,
          spent, nullifierList, log>>

-----------------------------------------------------------------------------
(* Events *)

\* Mutant: the two bytes32 arguments of the emit are swapped.
VoteCast_Swapped(p, o, n, t) ==
    [event |-> "VoteCast", poll |-> o, option |-> p, nullifier |-> n, time |-> t]

VoteCast(p, o, n, t) ==
    [event |-> "VoteCast", poll |-> p, option |-> o, nullifier |-> n, time |-> t]

PollFinalised(p, total) ==
    [event |-> "PollFinalised", poll |-> p, total |-> total]

Events ==
    [event : {"VoteCast"}, poll : Polls, option : Options,
     nullifier : Nullifiers, time : Nat]
    \cup [event : {"PollFinalised"}, poll : Polls, total : Nat]

VotesLogged == {i \in DOMAIN log : log[i].event = "VoteCast"}

\* The votes on record: the log positions of a poll's VoteCast events, and of
\* those that name one option.
VotesOf(p) == {i \in VotesLogged : log[i].poll = p}
VotesFor(p, o) == {i \in VotesOf(p) : log[i].option = o}

-----------------------------------------------------------------------------
(* The contract *)

\* initialize, with the deployer as owner: no poll, no vote.
Init ==
    /\ now = 1
    /\ owner \in Accounts
    /\ paused = FALSE
    /\ deadline = [p \in Polls |-> 0]
    /\ finalised = [p \in Polls |-> FALSE]
    /\ totalVotes = [p \in Polls |-> 0]
    /\ optionTally = [p \in Polls |-> [o \in Options |-> 0]]
    /\ spent = {}
    /\ nullifierList = <<>>
    /\ log = <<>>

\* Mutant: the whole struct is rewritten, as "_polls[pollId] = Poll(...)" would.
CreatePoll_Resets(caller, p, d) ==
    /\ caller = owner
    /\ d > now
    /\ deadline' = [deadline EXCEPT ![p] = d]
    /\ finalised' = [finalised EXCEPT ![p] = FALSE]
    /\ totalVotes' = [totalVotes EXCEPT ![p] = 0]
    /\ optionTally' = [optionTally EXCEPT ![p] = [o \in Options |-> 0]]
    /\ UNCHANGED <<now, owner, paused, spent, nullifierList, log>>

\* createPoll looks at nothing but the new deadline: called again for a poll
\* that exists, it moves the deadline and keeps tallies and finalised flag.
CreatePoll(caller, p, d) ==
    /\ caller = owner
    /\ d > now
    /\ deadline' = [deadline EXCEPT ![p] = d]
    /\ UNCHANGED <<now, owner, paused, finalised, totalVotes, optionTally,
                   spent, nullifierList, log>>

\* Mutants: NullifierSpent is not tested; PollAlreadyFinalised is not tested.
CanVote_NullifierUnchecked(p, n) ==
    ~paused /\ deadline[p] # 0 /\ now <= deadline[p] /\ ~finalised[p]

CanVote_FinalisedUnchecked(p, n) ==
    ~paused /\ deadline[p] # 0 /\ now <= deadline[p] /\ n \notin spent

\* The conditions castVote tests, in the code's order: the pause modifier, then
\* PollNotFound, PollClosed, PollAlreadyFinalised and NullifierSpent.
CanVote(p, n) ==
    /\ ~paused
    /\ deadline[p] # 0
    /\ now <= deadline[p]
    /\ ~finalised[p]
    /\ n \notin spent

\* Mutant: the push to nullifierList is forgotten.
CastVote_NotListed(p, o, n) ==
    /\ CanVote(p, n)
    /\ spent' = spent \cup {n}
    /\ optionTally' = [optionTally EXCEPT ![p][o] = @ + 1]
    /\ totalVotes' = [totalVotes EXCEPT ![p] = @ + 1]
    /\ log' = Append(log, VoteCast(p, o, n, now))
    /\ UNCHANGED <<now, owner, paused, deadline, finalised, nullifierList>>

CastVote(p, o, n) ==
    /\ CanVote(p, n)
    /\ spent' = spent \cup {n}
    /\ nullifierList' = Append(nullifierList, n)
    /\ optionTally' = [optionTally EXCEPT ![p][o] = @ + 1]
    /\ totalVotes' = [totalVotes EXCEPT ![p] = @ + 1]
    /\ log' = Append(log, VoteCast(p, o, n, now))
    /\ UNCHANGED <<now, owner, paused, deadline, finalised>>

\* finalisePoll waits for no deadline: the owner may close a poll early.
FinalisePoll(caller, p) ==
    /\ caller = owner
    /\ deadline[p] # 0
    /\ ~finalised[p]
    /\ finalised' = [finalised EXCEPT ![p] = TRUE]
    /\ log' = Append(log, PollFinalised(p, totalVotes[p]))
    /\ UNCHANGED <<now, owner, paused, deadline, totalVotes, optionTally,
                   spent, nullifierList>>

Pause(caller) ==
    /\ caller = owner
    /\ ~paused
    /\ paused' = TRUE
    /\ UNCHANGED <<now, owner, pollVars, nullVars, log>>

Unpause(caller) ==
    /\ caller = owner
    /\ paused
    /\ paused' = FALSE
    /\ UNCHANGED <<now, owner, pollVars, nullVars, log>>

\* OwnableUpgradeable: transferOwnership refuses the zero address, which only
\* renounceOwnership installs.
TransferOwnership(caller, to) ==
    /\ caller = owner
    /\ to # owner
    /\ owner' = to
    /\ UNCHANGED <<now, paused, pollVars, nullVars, log>>

\* A block is sealed and the next one is built with a later timestamp.
NextBlock ==
    /\ now < MaxTime
    /\ now' = now + 1
    /\ UNCHANGED <<adminVars, pollVars, nullVars, log>>

\* The deadlines tried reach past the last timestamp, so that polls which
\* never close are among them.
Deadlines == 1 .. MaxTime + 1

Next ==
    \/ \E a \in Accounts, p \in Polls, d \in Deadlines : CreatePoll(a, p, d)
    \/ \E p \in Polls, o \in Options, n \in Nullifiers : CastVote(p, o, n)
    \/ \E a \in Accounts, p \in Polls : FinalisePoll(a, p)
    \/ \E a \in Accounts : Pause(a) \/ Unpause(a)
    \/ \E a \in Accounts, b \in Accounts \cup {NoAccount} : TransferOwnership(a, b)
    \/ NextBlock

Spec == Init /\ [][Next]_vars

-----------------------------------------------------------------------------
(* Correctness *)

TypeOK ==
    /\ now \in Nat \ {0}
    /\ owner \in Accounts \cup {NoAccount}
    /\ paused \in BOOLEAN
    /\ deadline \in [Polls -> Nat]
    /\ finalised \in [Polls -> BOOLEAN]
    /\ totalVotes \in [Polls -> Nat]
    /\ optionTally \in [Polls -> [Options -> Nat]]
    /\ spent \in SUBSET Nullifiers
    /\ nullifierList \in Seq(Nullifiers)
    /\ log \in Seq(Events)

\* No two recorded votes carry the same nullifier, in whatever polls they were
\* cast: castVote's check-then-mark of _nullifiers (lines 155 and 167) is what
\* "prevents double-voting" (line 59).
OneVotePerNullifier ==
    \A i, j \in VotesLogged : log[i].nullifier = log[j].nullifier => i = j

\* The list the off-chain Merkle tree is built from (lines 62-63) names exactly
\* the nullifiers of the recorded votes, each once and in the order of the votes.
NullifierListExact ==
    /\ spent = {nullifierList[i] : i \in DOMAIN nullifierList}
    /\ spent = {log[i].nullifier : i \in VotesLogged}
    /\ Len(nullifierList) = Cardinality(VotesLogged)

\* The counters castVote increments (lines 169-170) agree with the VoteCast
\* events every off-chain reader counts instead.
TallyMatchesLog ==
    \A p \in Polls :
        /\ totalVotes[p] = Cardinality(VotesOf(p))
        /\ \A o \in Options : optionTally[p][o] = Cardinality(VotesFor(p, o))

\* What the nullifier list and the poll totals say together: the sum of the totals,
\* the number of votes numbered within their polls, is the length of the list
\* (VoteLedger.halmos.t.sol:146-167 asserts it for one poll and two votes; castVote
\* keeps the two apart, lines 168 and 170).
CountedVotes == UNION {{p} \X (1 .. totalVotes[p]) : p \in Polls}
ListLengthIsTotal == Len(nullifierList) = Cardinality(CountedVotes)

\* The total a PollFinalised event announced (line 184) stays the poll's total,
\* and a poll is announced at most once: neither a later vote nor a second
\* createPoll for the same id can make the announcement wrong.
FinalResultStands ==
    \A i \in DOMAIN log :
        log[i].event = "PollFinalised" =>
            /\ finalised[log[i].poll]
            /\ totalVotes[log[i].poll] = log[i].total
            /\ \A j \in DOMAIN log :
                   log[j].event = "PollFinalised" /\ log[j].poll = log[i].poll
                       => i = j

\* No vote on record is later than its poll's deadline, although createPoll may
\* move the deadline of a poll that has votes in either direction (lines 117,
\* 123): what makes it hold is that the new deadline lies in the future.
VotesWithinDeadline ==
    \A i \in VotesLogged : log[i].time <= deadline[log[i].poll]

\* The four copies of the fact that a vote was cast (flag, list, counters, events)
\* tell the same, and no vote on record was cast after its poll's deadline, however
\* often the poll is created again. (createPoll, castVote)
RecordsAgree ==
    NullifierListExact /\ ListLengthIsTotal /\ TallyMatchesLog /\ VotesWithinDeadline

\* Strengthening for the proofs: no vote on record is later than the clock. With
\* it, a deadline in the future is later than every vote.
VotesInThePast == \A i \in VotesLogged : log[i].time <= now

\* The inductive invariant.
LedgerInv ==
    /\ TypeOK
    /\ OneVotePerNullifier
    /\ NullifierListExact
    /\ TallyMatchesLog
    /\ FinalResultStands
    /\ VotesWithinDeadline
    /\ VotesInThePast

\* "The owner can close a poll but can NEVER delete or alter existing votes"
\* (line 21): the log only grows, and a finalised poll's tallies never move.
NothingIsAltered ==
    [][/\ \A i \in DOMAIN log : i \in DOMAIN log' /\ log'[i] = log[i]
       /\ spent \subseteq spent'
       /\ \A p \in Polls : finalised[p] =>
              finalised'[p] /\ optionTally'[p] = optionTally[p]]_vars

\* The ledger is a ballot box: the refinement mapping reads the ballots off the
\* VoteCast events and the declared results off the finalised polls' totals.
LoggedBallots ==
    {[poll |-> log[i].poll, nullifier |-> log[i].nullifier,
      option |-> log[i].option] : i \in VotesLogged}

Declared == [p \in Polls |-> IF finalised[p] THEN totalVotes[p] ELSE -1]

Box == INSTANCE BallotBox WITH ballots <- LoggedBallots, declared <- Declared

\* Every step of the ledger is a step of the ballot box or leaves it alone.
ImplementsBallotBox == Box!BoxSpec
==============================================================================
