------------------------------- MODULE Governance -------------------------------
(***************************************************************************)
(* The governance routes: the backend proposes, votes and shows on behalf   *)
(* of every user of the app, with its one wallet, so that the governor sees  *)
(* one voter. The governor is OpenZeppelin's, reduced to what the routes     *)
(* ask of it: the stage of a proposal, and the wallet's one ballot on it.    *)
(* VOTE_GOVERNOR_ADDRESS is set: without it the routes call the zero         *)
(* address, where a vote is mined as a plain transaction with no effect.     *)
(***************************************************************************)
EXTENDS Sequences, SequencesExt

CONSTANTS
    Proposals,      \* proposals by their content, which gives the identifier
    Supports,       \* of against, for, abstain
    Calls           \* bound: the requests to the backend

VARIABLES
    stage,          \* governor: proposal -> None, Pending, Active, Over
    ballot,         \* governor: proposal -> what the wallet voted, or NoBallot
    pending,        \* the wallet's transactions broadcast and not mined, in nonce order
    outcome,        \* call -> what its transaction did
    calls           \* call -> where its handler is

govVars == <<stage, ballot, pending, outcome, calls>>
chainVars == <<stage, ballot>>

NoBallot == [by |-> "None"]
Step(c, pc) == calls' = [calls EXCEPT ![c].pc = pc]

-----------------------------------------------------------------------------
(* The governor *)

\* Would castVote or propose succeed now? A proposal is made once, by a wallet that
\* is entitled to: tokens are minted and revoked at any time.
Executable(c, entitled) ==
    LET p == calls[c].proposal IN
    IF calls[c].kind = "Vote" THEN stage[p] = "Active" /\ ballot[p] = NoBallot
    ELSE stage[p] = "None" /\ entitled

\* A block takes the wallet's next transaction.
MineNext ==
    /\ pending # <<>>
    /\ pending' = Tail(pending)
    /\ \E entitled \in BOOLEAN :
       LET c == Head(pending)
           p == calls[c].proposal
       IN  IF Executable(c, entitled)
           THEN /\ outcome' = [outcome EXCEPT ![c] = "Success"]
                /\ IF calls[c].kind = "Vote"
                   THEN /\ ballot' = [ballot EXCEPT ![p] = [by |-> c, support |-> calls[c].support]]
                        /\ UNCHANGED stage
                   ELSE stage' = [stage EXCEPT ![p] = "Pending"] /\ UNCHANGED ballot
           ELSE outcome' = [outcome EXCEPT ![c] = "Reverted"] /\ UNCHANGED <<stage, ballot>>
    /\ UNCHANGED calls

\* Time passes; proposals are made, cancelled and executed by others.
Elsewhere ==
    /\ \E p \in Proposals, s \in {"Pending", "Active", "Over"} :
          /\ <<stage[p], s>> \in {<<"None", "Pending">>, <<"Pending", "Active">>,
                                  <<"Pending", "Over">>, <<"Active", "Over">>}
          /\ stage' = [stage EXCEPT ![p] = s]
    /\ UNCHANGED <<ballot, pending, outcome, calls>>

-----------------------------------------------------------------------------
(* POST /proposals/:proposalId/vote and POST /proposals *)

Ask(c, kind, p, support, pc) ==
    /\ calls[c].pc = "Unasked"
    /\ calls' = [calls EXCEPT ![c] =
           [pc |-> pc, kind |-> kind, proposal |-> p, support |-> support, nonceFree |-> TRUE,
            before |-> {d \in Calls : pc = "Reading" /\ calls[d].pc \in {"Cast", "Proposed"}}]] \* history
    /\ UNCHANGED <<chainVars, pending, outcome>>

\* A body that does not parse is answered 400 and is no call.
PostVote(c, p) == \E support \in Supports : Ask(c, "Vote", p, support, "Estimating")
PostProposal(c, p) == Ask(c, "Propose", p, "None", "Estimating")

\* The first half of a contract call: gas is estimated and the nonce read.
Estimate(c) ==
    /\ calls[c].pc = "Estimating"
    /\ \E entitled \in BOOLEAN :
          Step(c, IF Executable(c, entitled) THEN "Submitting" ELSE "Failed")
    /\ UNCHANGED <<chainVars, pending, outcome>>

\* Who read the nonce of a transaction that is then broadcast comes too late.
TakeNonce(c, pc) ==
    calls' = [d \in Calls |-> IF d = c THEN [calls[d] EXCEPT !.pc = pc]
                              ELSE IF calls[d].pc = "Submitting" THEN [calls[d] EXCEPT !.nonceFree = FALSE]
                              ELSE calls[d]]

\* The second half: the transaction is sent.
Submit(c) ==
    /\ calls[c].pc = "Submitting"
    /\ IF calls[c].nonceFree
       THEN pending' = Append(pending, c) /\ TakeNonce(c, "Waiting")
       ELSE Step(c, "Failed") /\ UNCHANGED pending
    /\ UNCHANGED <<chainVars, outcome>>

\* The vote relay uses the same wallet.
RelayUsesWallet ==
    /\ \E c \in Calls : calls[c].pc = "Submitting" /\ calls[c].nonceFree
    /\ calls' = [c \in Calls |-> IF calls[c].pc = "Submitting" THEN [calls[c] EXCEPT !.nonceFree = FALSE]
                                 ELSE calls[c]]
    /\ UNCHANGED <<chainVars, pending, outcome>>

\* Mutant: the status of the receipt is not looked at.
Wait_StatusUnread(c) ==
    /\ calls[c].pc = "Waiting" /\ outcome[c] # "None"
    /\ Step(c, IF calls[c].kind = "Vote" THEN "Cast" ELSE "Proposed")
    /\ UNCHANGED <<chainVars, pending, outcome>>

\* tx.wait(), and the answer.
Wait(c) ==
    /\ calls[c].pc = "Waiting" /\ outcome[c] # "None"
    /\ Step(c, IF outcome[c] # "Success" THEN "Failed"
               ELSE IF calls[c].kind = "Vote" THEN "Cast" ELSE "Proposed")
    /\ UNCHANGED <<chainVars, pending, outcome>>

-----------------------------------------------------------------------------
(* GET /proposals and GET /proposals/:proposalId *)

\* GOVERNOR_ABI declares the event with an indexed identifier, the governor emits
\* it with none: the log is found by its topic, and cannot be decoded.
EventIndexed == {}
AbiIndexed == {"proposalId"}
Decodable(p) == p \in Proposals /\ AbiIndexed = EventIndexed

Created == {p \in Proposals : stage[p] # "None"}

\* One log that cannot be decoded fails the whole list.
List(c) ==
    /\ calls[c].pc = "Reading" /\ calls[c].kind = "List"
    /\ calls' = [calls EXCEPT ![c] =
           [pc |-> IF \A p \in Created : Decodable(p) THEN "Listed" ELSE "Failed",
            kind |-> "List", before |-> @.before, shown |-> {p \in Created : Decodable(p)}]]
    /\ UNCHANGED <<chainVars, pending, outcome>>

\* The reads of one proposal: state reverts for one that was never made.
Show(c) ==
    /\ calls[c].pc = "Reading" /\ calls[c].kind = "Show"
    /\ LET p == calls[c].proposal IN
       calls' = [calls EXCEPT ![c] =
           [pc |-> IF stage[p] = "None" THEN "NotFound" ELSE "Shown",
            kind |-> "Show", proposal |-> p, before |-> @.before, shown |-> ballot[p]]]
    /\ UNCHANGED <<chainVars, pending, outcome>>

\* A call to the RPC endpoint fails, what was being sent may have arrived.
EndpointFails(c) ==
    /\ calls[c].pc \in {"Estimating", "Submitting", "Waiting", "Reading"}
    /\ \/ /\ Step(c, IF calls[c].kind = "Show" THEN "NotFound" ELSE "Failed")
          /\ UNCHANGED pending
       \/ /\ calls[c].pc = "Submitting" /\ calls[c].nonceFree
          /\ pending' = Append(pending, c)
          /\ TakeNonce(c, "Failed")
    /\ UNCHANGED <<chainVars, outcome>>

-----------------------------------------------------------------------------
(* Specification *)

GovInit ==
    /\ stage = [p \in Proposals |-> "None"]
    /\ ballot = [p \in Proposals |-> NoBallot]
    /\ pending = <<>>
    /\ outcome = [c \in Calls |-> "None"]
    /\ calls = [c \in Calls |-> [pc |-> "Unasked"]]

Serve(c) == Estimate(c) \/ Submit(c) \/ Wait(c) \/ List(c) \/ Show(c)

GovNext ==
    \/ MineNext \/ Elsewhere \/ RelayUsesWallet
    \/ \E c \in Calls :
          \/ \E p \in Proposals :
                \/ PostVote(c, p) \/ PostProposal(c, p)
                \/ \E kind \in {"List", "Show"} : Ask(c, kind, p, "None", "Reading")
          \/ Serve(c)
          \/ EndpointFails(c)

GovSpec == GovInit /\ [][GovNext]_govVars

-----------------------------------------------------------------------------
(* Properties *)

\* A request has one transaction at most, broadcast once, and what the governor
\* holds of the wallet comes from a transaction that succeeded. (castVote, propose)
GovTypeOK ==
    /\ IsInjective(pending)
    /\ \A c \in ToSet(pending) : outcome[c] = "None"
    /\ \A p \in Proposals : ballot[p] # NoBallot =>
          /\ outcome[ballot[p].by] = "Success"
          /\ stage[p] \in {"Active", "Over"}

\* A voter told 200 is the one whose ballot stands, and with the support they
\* chose: all users vote with one wallet, and of any number of them, whose
\* requests overlap, one is told so. Who is told 201 made the proposal.
\* (POST /proposals/:proposalId/vote, POST /proposals)
AnsweredIsOnChain ==
    \A c \in Calls :
        /\ calls[c].pc = "Cast" =>
              ballot[calls[c].proposal] = [by |-> c, support |-> calls[c].support]
        /\ calls[c].pc = "Proposed" => stage[calls[c].proposal] # "None"
        /\ \A d \in Calls \ {c} : calls[c].pc = "Proposed" /\ calls[d].pc = "Proposed"
              => calls[c].proposal # calls[d].proposal

\* What was answered before a request is in what the request is shown: the ballot
\* in the votes of its proposal, the proposal in the list. A list that is shown
\* leaves none out that the backend itself had made. (GET /proposals)
ReadersSeeWhatWasAnswered ==
    \A c \in Calls :
        /\ calls[c].pc = "Shown" => \A d \in calls[c].before :
              (calls[d].kind = "Vote" /\ calls[d].proposal = calls[c].proposal)
                  => calls[c].shown = [by |-> d, support |-> calls[d].support]
        /\ calls[c].pc = "Listed" => \A d \in calls[c].before : calls[d].proposal \in calls[c].shown

\* What users are told of proposals and ballots is true of the governor. (router)
GovernanceSafe == GovTypeOK /\ AnsweredIsOnChain /\ ReadersSeeWhatWasAnswered

=============================================================================
