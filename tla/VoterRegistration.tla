--------------------------- MODULE VoterRegistration ---------------------------
(***************************************************************************)
(* Self-service registration: the handler of POST /api/v1/identity/register *)
(* (backend/src/routes/identityRegister.ts), the Redis store of documents   *)
(* already used (repositories/UsedIdentifierStore.ts) and the registry      *)
(* contract they write to (VoterRegistry, extended here).                   *)
(*                                                                          *)
(* A request runs in one step per await: claim the document, read back an   *)
(* existing claim, ask the contract, send the transaction, wait for it, give*)
(* the claim back. Between two of them other requests run, the chain mines  *)
(* in any order, the registry's owner acts, and the process may crash.      *)
(***************************************************************************)
EXTENDS VoterRegistry

CONSTANTS
    Docs,           \* identity documents, or accounts at an identity provider
    DocCountry,     \* document -> the country it proves
    Derived,        \* document -> the commitment its adapter derives
    Unclaimed,      \* "no commitment": none derived, and no claim in Redis
    Requests,       \* bound: the HTTP requests, each served once
    Relay,          \* the account of RELAY_PRIVATE_KEY
    Overlap,        \* may a client repeat a request that is still running?
    RpcMayFail      \* may the RPC endpoint fail after it has taken a transaction?

ASSUME RelayAssumption == Relay \in Accounts
ASSUME UnclaimedAssumption == Unclaimed \notin Commitments
ASSUME DocAssumption ==
    /\ DocCountry \in [Docs -> Countries]
    /\ Derived \in [Docs -> Commitments \cup {Unclaimed}]

VARIABLES
    claim,      \* Redis, zkp:uid:<sybilKey> -> the commitment, or Unclaimed
    pc,         \* where a request is, or how it was answered
    doc,        \* the request's document
    com,        \* and its commitment
    claimed,    \* the handler's variable: this request made the claim
    tx,         \* the request's transaction
    accepted    \* history: <<document, commitment>> the contract took from here

requestVars == <<pc, doc, com, claimed>>
storeVars == <<claim, requestVars>>
chainVars == <<registryVars, tx, accepted>>
vars == <<storeVars, chainVars>>

Running == {"Claim", "ReadClaim", "Check", "Submit", "Wait", "Release"}
Answers == {"Created", "Already", "Conflict", "Failed"}

\* sybilKey is set by the ZKPassport adapter, whose commitments the client
\* chooses; the adapters that derive the commitment leave it undefined.
HasKey(d) == Derived[d] = Unclaimed

-----------------------------------------------------------------------------

RegistrationInit ==
    /\ RegistryInit
    /\ claim = [d \in Docs |-> Unclaimed]
    /\ pc = [r \in Requests |-> "Idle"]
    /\ doc \in [Requests -> Docs]
    /\ com \in [Requests -> Commitments]
    /\ \A r \in Requests : ~HasKey(doc[r]) => com[r] = Derived[doc[r]]
    /\ claimed = [r \in Requests |-> FALSE]
    /\ tx = [r \in Requests |-> "None"]
    /\ accepted = {}

Goto(r, l) == pc' = [pc EXCEPT ![r] = l]

\* The adapter has verified the token. A document without a key is not claimed.
Arrive(r) ==
    /\ pc[r] = "Idle"
    /\ Overlap \/ \A q \in Requests : pc[q] \in Running => <<doc[q], com[q]>> # <<doc[r], com[r]>>
    /\ Goto(r, IF HasKey(doc[r]) THEN "Claim" ELSE "Check")
    /\ UNCHANGED <<claim, doc, com, claimed, chainVars>>

\* Mutant: SET without NX.
ClaimDocument_Overwrites(r) ==
    /\ pc[r] = "Claim"
    /\ claim' = [claim EXCEPT ![doc[r]] = com[r]]
    /\ claimed' = [claimed EXCEPT ![r] = TRUE]
    /\ Goto(r, "Check")
    /\ UNCHANGED <<doc, com, chainVars>>

\* Mutant: the key is stored as its own value.
ClaimDocument_StoresKey(r) ==
    /\ pc[r] = "Claim"
    /\ claim' = [claim EXCEPT ![doc[r]] = doc[r]]
    /\ claimed' = [claimed EXCEPT ![r] = TRUE]
    /\ Goto(r, "Check")
    /\ UNCHANGED <<doc, com, chainVars>>

\* claim: SET key commitment NX.
ClaimDocument(r) ==
    /\ pc[r] = "Claim"
    /\ IF claim[doc[r]] = Unclaimed
       THEN /\ claim' = [claim EXCEPT ![doc[r]] = com[r]]
            /\ claimed' = [claimed EXCEPT ![r] = TRUE]
            /\ Goto(r, "Check")
       ELSE /\ Goto(r, "ReadClaim")
            /\ UNCHANGED <<claim, claimed>>
    /\ UNCHANGED <<doc, com, chainVars>>

\* Mutant: the key that vanished is read again instead of claimed again.
ReadClaim_ReadsAgain(r) ==
    /\ pc[r] = "ReadClaim"
    /\ Goto(r, CASE claim[doc[r]] = Unclaimed -> "ReadClaim"
                 [] claim[doc[r]] = com[r] -> "Check"
                 [] OTHER -> "Conflict")
    /\ UNCHANGED <<claim, doc, com, claimed, chainVars>>

\* claim: GET key. Its own commitment is a retry; none means that the claim was
\* given back since, and starts over.
ReadClaim(r) ==
    /\ pc[r] = "ReadClaim"
    /\ Goto(r, CASE claim[doc[r]] = Unclaimed -> "Claim"
                 [] claim[doc[r]] = com[r] -> "Check"
                 [] OTHER -> "Conflict")
    /\ UNCHANGED <<claim, doc, com, claimed, chainVars>>

\* registry.isRegistered; a commitment registered for another country goes on.
CheckRegistered(r) ==
    /\ pc[r] = "Check"
    /\ Goto(r, IF IsRegistered(com[r], DocCountry[doc[r]]) THEN "Already" ELSE "Submit")
    /\ UNCHANGED <<claim, doc, com, claimed, chainVars>>

\* Mutant: every request that fails gives the claim back.
AfterError_Always(r) == "Release"

\* A call to Redis or to the contract throws before the transaction: the outer catch
\* answers, and a claim already made stays.
CallFails(r) ==
    /\ pc[r] \in {"Claim", "ReadClaim", "Check"}
    /\ Goto(r, "Failed")
    /\ UNCHANGED <<claim, doc, com, claimed, chainVars>>

\* Where a transaction error leads: only the request that made the claim gives it
\* back.
AfterError(r) == IF claimed[r] THEN "Release" ELSE "Failed"

\* registry.register: the gas estimate fails when the call would revert now, and
\* the node may refuse the transaction (the relay's nonce is taken); else the
\* transaction is sent.
SubmitRegistration(r) ==
    /\ pc[r] = "Submit"
    /\ \/ /\ CanRegister(Relay, com[r], DocCountry[doc[r]])
          /\ tx' = [tx EXCEPT ![r] = "Pending"]
          /\ Goto(r, "Wait")
       \/ /\ Goto(r, AfterError(r))
          /\ UNCHANGED tx
    /\ UNCHANGED <<claim, doc, com, claimed, registryVars, accepted>>

\* The chain mines a transaction of the relay: register, or a revert if it has
\* become impossible since the estimate.
MineRegistration(r) ==
    /\ tx[r] = "Pending"
    /\ LET k == DocCountry[doc[r]]
       IN  \/ /\ Register(Relay, com[r], k)
              /\ tx' = [tx EXCEPT ![r] = "Mined"]
              /\ accepted' = accepted \cup {<<doc[r], com[r]>>}
           \/ /\ ~CanRegister(Relay, com[r], k)
              /\ tx' = [tx EXCEPT ![r] = "Reverted"]
              /\ UNCHANGED <<registryVars, accepted>>
    /\ UNCHANGED storeVars

\* Mutant: tx.wait() is not awaited.
AwaitReceipt_NotAwaited(r) ==
    /\ pc[r] = "Wait"
    /\ Goto(r, "Created")
    /\ UNCHANGED <<claim, doc, com, claimed, chainVars>>

\* tx.wait(): resolves when mined, throws when reverted.
AwaitReceipt(r) ==
    /\ pc[r] = "Wait"
    /\ \/ tx[r] = "Mined" /\ Goto(r, "Created")
       \/ tx[r] = "Reverted" /\ Goto(r, AfterError(r))
    /\ UNCHANGED <<claim, doc, com, claimed, chainVars>>

\* The same catch block takes an RPC error, of the send or of the wait, that says
\* nothing about the transaction: it may be mined already or later.
RpcError(r) ==
    /\ RpcMayFail
    /\ pc[r] = "Wait"
    /\ Goto(r, AfterError(r))
    /\ UNCHANGED <<claim, doc, com, claimed, chainVars>>

\* release: deletes the key if it still holds this commitment. Redis may refuse;
\* the request fails either way.
ReleaseClaim(r) ==
    /\ pc[r] = "Release"
    /\ \/ claim' = [claim EXCEPT ![doc[r]] = IF @ = com[r] THEN Unclaimed ELSE @]
       \/ UNCHANGED claim
    /\ Goto(r, "Failed")
    /\ UNCHANGED <<doc, com, claimed, chainVars>>

\* The process dies: its requests are never answered; Redis and the chain go on.
Crash ==
    /\ \E r \in Requests : pc[r] \in Running
    /\ pc' = [r \in Requests |-> IF pc[r] \in Running THEN "Lost" ELSE pc[r]]
    /\ UNCHANGED <<claim, doc, com, claimed, chainVars>>

\* The registry without this backend: its owner, and registrars of other
\* adapters' servers.
RegistryActs ==
    /\ \/ RegistryAdmin
       \/ \E a \in Accounts \ {Relay}, c \in Commitments, k \in Codes : Register(a, c, k)
    /\ UNCHANGED <<storeVars, tx, accepted>>

Handle(r) ==
    \/ ClaimDocument(r) \/ ReadClaim(r) \/ CheckRegistered(r)
    \/ SubmitRegistration(r) \/ AwaitReceipt(r) \/ ReleaseClaim(r)

RegistrationNext ==
    \/ \E r \in Requests : Arrive(r) \/ Handle(r) \/ MineRegistration(r)
    \/ \E r \in Requests : CallFails(r) \/ RpcError(r)
    \/ Crash
    \/ RegistryActs

RegistrationSpec == RegistrationInit /\ [][RegistrationNext]_vars

\* The event loop runs what is ready, and the chain mines what it was sent.
RegistrationFairness ==
    \A r \in Requests : WF_vars(Handle(r)) /\ WF_vars(MineRegistration(r))

RegistrationFairSpec == RegistrationSpec /\ RegistrationFairness

-----------------------------------------------------------------------------
(* Correctness *)

RegistrationTypeOK ==
    /\ RegistryTypeOK
    /\ claim \in [Docs -> Commitments \cup {Unclaimed}]
    /\ pc \in [Requests -> Running \cup Answers \cup {"Idle", "Lost"}]
    /\ doc \in [Requests -> Docs]
    /\ com \in [Requests -> Commitments]
    /\ claimed \in [Requests -> BOOLEAN]
    /\ tx \in [Requests -> {"None", "Pending", "Mined", "Reverted"}]
    /\ accepted \subseteq Docs \X Commitments

\* "the same ID cannot register twice" (UsedIdentifierStore.ts:4-5): whatever
\* commitments a document is presented with, and whatever crashes and registry
\* changes come between, at most one of them is registered for it.
OneCommitmentPerDocument ==
    \A p, q \in accepted : p[1] = q[1] => p[2] = q[2]

\* Why it holds: what a document was registered with, or may still be by a
\* transaction on its way, is what its claim names, and no request is about to
\* give that claim back.
RegisteredIsClaimed ==
    \A d \in Docs : HasKey(d) =>
        /\ \A c \in Commitments : <<d, c>> \in accepted => claim[d] = c
        /\ \A r \in Requests :
               doc[r] = d /\ tx[r] = "Pending" => claim[d] = com[r]

\* 201 and alreadyRegistered are only said of a commitment the contract holds for
\* that country (lines 73-77, 95-100), also after the request was overtaken by
\* others or by a new registrar.
AnswerTruthful ==
    \A r \in Requests :
        pc[r] \in {"Created", "Already"} => IsRegistered(com[r], DocCountry[doc[r]])

\* Every request is answered unless the process dies under it: no request waits
\* for a claim another one holds, and the claim loop (UsedIdentifierStore.ts:32)
\* ends.
RequestAnswered ==
    \A r \in Requests : pc[r] \in Running ~> pc[r] \in Answers \cup {"Lost"}
==============================================================================
