------------------------------- MODULE VoteRelay -------------------------------
(***************************************************************************)
(* POST /api/v1/vote: the backend checks a voter's request and relays it to *)
(* the ledger with its one wallet, a step per await. Requests of one voter  *)
(* carry the same nullifier, so a repeated request is a retry.              *)
(*                                                                          *)
(* The ledger is reduced to what castVote asks of it: does the poll take    *)
(* votes, and is the nullifier spent (module VoteLedger has the rest). The  *)
(* relay names the poll by abi.encode of policy and country, createPoll by  *)
(* abi.encodePacked: of a poll so created the relay's votes are refused     *)
(* (PollNotFound), a behaviour in which the ledger never accepts.           *)
(***************************************************************************)
EXTENDS Naturals, Sequences, FiniteSets

CONSTANTS
    Nullifiers,
    Requests,       \* bound: the requests of a behaviour
    Window,         \* the 5 minutes a timestamp is good for
    MaxTime         \* bound: the clock

ASSUME ClockAssumption == MaxTime \in Nat

VARIABLES
    now,
    accepting,      \* ledger: poll there and open, not finalised, contract not paused
    spent,          \* ledger: _nullifiers
    counted,        \* history: nullifier -> the votes counted for it, by origin
    mempool,        \* transactions broadcast and not mined, in nonce order
    nonce,          \* the wallet's next nonce
    mined,          \* request -> what its transaction did, or "None"
    requests        \* request -> where its handler is

ledgerVars == <<accepting, spent, counted>>
relayVars == <<mempool, nonce, mined, requests>>

Fresh == [pc |-> "Fresh"]
Over == {"Created",     \* 201
         "Refused",     \* an error before any transaction was broadcast
         "Failed",      \* the transaction reverted
         "Unknown"}     \* the RPC endpoint failed
Goto(r, pc) == requests' = [requests EXCEPT ![r].pc = pc]

-----------------------------------------------------------------------------
(* The ledger *)

\* The guards of castVote (the proof aside).
Castable(n) == accepting /\ n \notin spent

\* castVote's effect, for a vote that came by the given way.
CountVote(n, origin) ==
    /\ spent' = spent \cup {n}
    /\ counted' = [counted EXCEPT ![n] = @ \cup {origin}]

\* pause, unpause, finalisePoll, a deadline reached or moved.
LedgerSwitch ==
    /\ accepting' = ~accepting
    /\ UNCHANGED <<now, spent, counted, relayVars>>

Tick ==
    /\ now < MaxTime
    /\ now' = now + 1
    /\ UNCHANGED <<ledgerVars, relayVars>>

-----------------------------------------------------------------------------
(* The handler *)

\* The route up to the first await: schema and signature.
Arrive(r, n, timestamp) ==
    /\ requests[r] = Fresh
    /\ requests' = [requests EXCEPT ![r] = [pc |-> "Proving", nullifier |-> n,
                                            timestamp |-> timestamp, nonce |-> 0]]
    /\ UNCHANGED <<now, ledgerVars, mempool, nonce, mined>>

\* ZKProver.verify answers, then the age of the timestamp is checked.
Proved(r, valid) ==
    /\ requests[r].pc = "Proving"
    /\ Goto(r, IF valid /\ now - requests[r].timestamp \in 0..Window THEN "Populating" ELSE "Refused")
    /\ UNCHANGED <<now, ledgerVars, mempool, nonce, mined>>

\* castVote, first half: the call is estimated against the ledger as it is, and
\* the wallet's nonce is read.
Populate(r) ==
    /\ requests[r].pc = "Populating"
    /\ requests' = [requests EXCEPT ![r] =
                       IF Castable(@.nullifier) THEN [@ EXCEPT !.pc = "Sending", !.nonce = nonce]
                       ELSE [@ EXCEPT !.pc = "Refused"]]
    /\ UNCHANGED <<now, ledgerVars, mempool, nonce, mined>>

\* Mutant: the nonce of the last mined transaction, not of the pending ones.
Broadcast_Latest(r) ==
    /\ mempool' = Append(mempool, r)
    /\ nonce' = Cardinality({q \in Requests : mined[q] # "None"})

Broadcast(r) ==
    /\ mempool' = Append(mempool, r)
    /\ nonce' = nonce + 1

\* castVote, second half: the node takes one transaction per nonce.
Send(r) ==
    /\ requests[r].pc = "Sending"
    /\ IF requests[r].nonce = nonce THEN Broadcast(r) /\ Goto(r, "Waiting")
       ELSE Goto(r, "Refused") /\ UNCHANGED <<mempool, nonce>>
    /\ UNCHANGED <<now, ledgerVars, mined>>

\* Mutant: a failed call is taken for a refusal.
RpcFails_Refused(r) ==
    /\ requests[r].pc \in {"Populating", "Sending", "Waiting"}
    /\ Goto(r, "Refused")
    /\ \/ UNCHANGED <<mempool, nonce>>
       \/ requests[r].pc = "Sending" /\ requests[r].nonce = nonce /\ Broadcast(r)
    /\ UNCHANGED <<now, ledgerVars, mined>>

\* An RPC call fails; the transaction being sent may have reached the node.
RpcFails(r) ==
    /\ requests[r].pc \in {"Populating", "Sending", "Waiting"}
    /\ Goto(r, "Unknown")
    /\ \/ UNCHANGED <<mempool, nonce>>
       \/ requests[r].pc = "Sending" /\ requests[r].nonce = nonce /\ Broadcast(r)
    /\ UNCHANGED <<now, ledgerVars, mined>>

\* A block takes the wallet's next transaction.
Mine ==
    /\ mempool # <<>>
    /\ mempool' = Tail(mempool)
    /\ LET r == Head(mempool)
           n == requests[r].nullifier
       IN  IF Castable(n)
           THEN CountVote(n, r) /\ mined' = [mined EXCEPT ![r] = "Success"]
           ELSE UNCHANGED <<spent, counted>> /\ mined' = [mined EXCEPT ![r] = "Reverted"]
    /\ UNCHANGED <<now, accepting, nonce, requests>>

\* Mutant: the relay waits for the VoteCast event.
Receipt_Event(r) ==
    /\ requests[r].pc = "Waiting" /\ mined[r] = "Success"
    /\ Goto(r, "Created")
    /\ UNCHANGED <<now, ledgerVars, mempool, nonce, mined>>

\* tx.wait(1), and the answer.
Receipt(r) ==
    /\ requests[r].pc = "Waiting" /\ mined[r] # "None"
    /\ Goto(r, IF mined[r] = "Success" THEN "Created" ELSE "Failed")
    /\ UNCHANGED <<now, ledgerVars, mempool, nonce, mined>>

\* GET /verify and GET /receipt, for a transaction by its request.
isNullifierSpent(n) == n \in spent
getReceipt(r) == IF mined[r] = "None" THEN "NotFound" ELSE mined[r]

\* The process dies with its handlers; what was broadcast stays.
Crash ==
    /\ \E r \in Requests : requests[r].pc \in {"Proving", "Populating", "Sending", "Waiting"}
    /\ requests' = [r \in Requests |->
                       IF requests[r].pc \in Over \cup {"Fresh"} THEN requests[r]
                       ELSE [requests[r] EXCEPT !.pc = "Unknown"]]
    /\ UNCHANGED <<now, ledgerVars, mempool, nonce, mined>>

-----------------------------------------------------------------------------

RelayInit ==
    /\ now = 0
    /\ accepting = TRUE
    /\ spent = {}
    /\ counted = [n \in Nullifiers |-> {}]
    /\ mempool = <<>>
    /\ nonce = 0
    /\ mined = [r \in Requests |-> "None"]
    /\ requests = [r \in Requests |-> Fresh]

Handle(r) == (\E valid \in BOOLEAN : Proved(r, valid)) \/ Populate(r) \/ Send(r) \/ Receipt(r)

RelayNext ==
    \/ LedgerSwitch \/ Tick \/ Mine \/ Crash
    \/ \E r \in Requests :
          \/ \E n \in Nullifiers, timestamp \in 0..MaxTime : Arrive(r, n, timestamp)
          \/ Handle(r)
          \/ RpcFails(r)

-----------------------------------------------------------------------------
(* Properties *)

\* Ledger, wallet and handlers keep their shape; a request has one transaction
\* at most, and the wallet's nonce counts all of them. (submitVote, castVote)
RelayTypeOK ==
    /\ now \in 0..MaxTime
    /\ spent \subseteq Nullifiers
    /\ mempool \in Seq(Requests)
    /\ mined \in [Requests -> {"None", "Success", "Reverted"}]
    /\ \A i, j \in DOMAIN mempool : mempool[i] = mempool[j] => i = j
    /\ nonce = Len(mempool) + Cardinality({r \in Requests : getReceipt(r) # "NotFound"})

\* 201 is answered only when the ledger has counted the vote of this very
\* request, and then the voter's two ways to check say so, whatever other
\* requests of the voter, other channels, crashes and RPC failures did.
\* (castVote: tx.wait, submitVote, GET /verify, GET /receipt)
CreatedIsCounted ==
    \A r \in Requests : requests[r].pc = "Created" =>
        /\ r \in counted[requests[r].nullifier]
        /\ isNullifierSpent(requests[r].nullifier)
        /\ getReceipt(r) = "Success"

\* A request refused before it was broadcast is not counted and never will be: a
\* voter told so may vote again by any channel. (submitVote, castVote)
RefusedIsNotCounted ==
    \A r \in Requests :
        requests[r].pc = "Refused" =>
            /\ \A n \in Nullifiers : r \notin counted[n]
            /\ \A i \in DOMAIN mempool : mempool[i] # r

\* Every handler answers. (submitVote)
RequestAnswered ==
    \A r \in Requests : (requests[r].pc \notin Over \cup {"Fresh"}) ~> (requests[r].pc \in Over)

=============================================================================
