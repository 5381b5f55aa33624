----------------------- MODULE VoterRegistrationProofs -----------------------
(***************************************************************************)
(* Proofs about the registry contract and about self-service registration,  *)
(* for any documents, commitments, countries, accounts and requests.        *)
(***************************************************************************)
EXTENDS VoterRegistration, SequenceTheorems, TLAPS

-----------------------------------------------------------------------------
(* The registry contract *)

\* One more registration: the country is set where it was not, the list grows by
\* the commitment, and the registrars stay.
LEMMA RegisterEffect ==
    ASSUME RegistryTypeOK, NEW a \in Accounts, NEW c \in Commitments, NEW k \in Codes,
           Register(a, c, k)
    PROVE  /\ RegistryTypeOK'
           /\ countryOf[c] = Unregistered /\ countryRegistrar[k] = a
           /\ countryOf'[c] = k
           /\ \A b \in Commitments : b # c => countryOf'[b] = countryOf[b]
           /\ Len(commitments) \in Nat
           /\ DOMAIN commitments = 1 .. Len(commitments)
           /\ DOMAIN commitments' = 1 .. Len(commitments) + 1
           /\ \A i \in 1 .. Len(commitments) : commitments'[i] = commitments[i]
           /\ commitments'[Len(commitments) + 1] = c
           /\ countryRegistrar' = countryRegistrar
<1>1. commitments \in Seq(Commitments) /\ commitments' = Append(commitments, c)
    BY DEF RegistryTypeOK, Register
<1>2. /\ Len(commitments) \in Nat
      /\ DOMAIN commitments = 1 .. Len(commitments)
    BY <1>1, LenProperties
<1>3. /\ commitments' \in Seq(Commitments)
      /\ Len(commitments') = Len(commitments) + 1
      /\ \A i \in 1 .. Len(commitments) : commitments'[i] = commitments[i]
      /\ commitments'[Len(commitments) + 1] = c
    BY <1>1, AppendProperties
<1>4. DOMAIN commitments' = 1 .. Len(commitments) + 1
    BY <1>3, LenProperties
<1>5. /\ countryOf' = [countryOf EXCEPT ![c] = k]
      /\ countryOf[c] = Unregistered /\ countryRegistrar[k] = a
      /\ UNCHANGED <<registryOwner, registryPaused, countryRegistrar>>
    BY DEF Register, CanRegister
<1>6. RegistryTypeOK'
    BY <1>3, <1>5 DEF RegistryTypeOK
<1>7. QED
    BY <1>2, <1>3, <1>4, <1>5, <1>6 DEF RegistryTypeOK

\* The owner's functions keep types, countries and list; the only registrars they
\* change are those of the codes the owner appoints for.
LEMMA AdminEffect ==
    ASSUME RegistryTypeOK, RegistryAdmin
    PROVE  /\ RegistryTypeOK'
           /\ UNCHANGED <<countryOf, commitments>>
           /\ \A k \in Codes \ Appointed : countryRegistrar'[k] = countryRegistrar[k]
<1>1. ASSUME NEW a \in Accounts, NEW k \in Appointed, NEW b \in Accounts \cup {NoAccount},
             SetCountryRegistrar(a, k, b)
      PROVE  /\ RegistryTypeOK'
             /\ UNCHANGED <<countryOf, commitments>>
             /\ \A j \in Codes \ Appointed : countryRegistrar'[j] = countryRegistrar[j]
    BY <1>1, AppointedAssumption DEF SetCountryRegistrar, RegistryTypeOK, Codes
<1>2. ASSUME NEW a \in Accounts, PauseRegistry(a) \/ UnpauseRegistry(a)
      PROVE  RegistryTypeOK' /\ UNCHANGED <<countryOf, commitments, countryRegistrar>>
    BY <1>2 DEF PauseRegistry, UnpauseRegistry, RegistryTypeOK
<1>3. ASSUME NEW a \in Accounts, NEW b \in Accounts \cup {NoAccount}, TransferRegistry(a, b)
      PROVE  RegistryTypeOK' /\ UNCHANGED <<countryOf, commitments, countryRegistrar>>
    BY <1>3 DEF TransferRegistry, RegistryTypeOK
<1>4. QED
    BY <1>1, <1>2, <1>3 DEF RegistryAdmin

LEMMA RegistryInitTyped == RegistryInit => RegistryTypeOK
<1> SUFFICES ASSUME RegistryInit PROVE RegistryTypeOK
    OBVIOUS
<1>1. commitments \in Seq(Commitments)
    BY EmptySeq DEF RegistryInit
<1>2. QED
    BY <1>1 DEF RegistryInit, RegistryTypeOK, Codes

\* The type invariant of the contract.
THEOREM RegistryTypeCorrect == RegistrySpec => []RegistryTypeOK
<1>1. RegistryTypeOK /\ [RegistryNext]_registryVars => RegistryTypeOK'
    <2> SUFFICES ASSUME RegistryTypeOK, [RegistryNext]_registryVars PROVE RegistryTypeOK'
        OBVIOUS
    <2>1. CASE UNCHANGED registryVars
        BY <2>1 DEF registryVars, RegistryTypeOK
    <2>2. QED
        BY <2>1, RegisterEffect, AdminEffect DEF RegistryNext
<1>2. QED
    BY <1>1, RegistryInitTyped, PTL DEF RegistrySpec

\* A registration is for good and for one country (VoterRegistry.sol:86, 93).
THEOREM RegistrationsArePermanent == RegistrySpec => RegistrationIsPermanent
<1>1. RegistryTypeOK /\ [RegistryNext]_registryVars
          => [\A c \in Registered : countryOf'[c] = countryOf[c]]_registryVars
    <2> SUFFICES ASSUME RegistryTypeOK, RegistryNext, NEW d \in Registered
                 PROVE  countryOf'[d] = countryOf[d]
        OBVIOUS
    <2>1. d \in Commitments /\ countryOf[d] # Unregistered
        BY DEF Registered
    <2>2. QED
        BY <2>1, RegisterEffect, AdminEffect DEF RegistryNext
<1>2. QED
    BY <1>1, RegistryTypeCorrect, PTL DEF RegistrySpec, RegistrationIsPermanent

\* What makes the list exact: nobody may register for the zero code.
ListInv ==
    /\ RegistryTypeOK
    /\ countryRegistrar[Unregistered] = NoAccount
    /\ CommitmentsListedOnce

\* The list the Merkle tree of voters is built from names every registered
\* commitment, each once (VoterRegistry.sol:36-37, 90-94), as long as the owner
\* appoints no registrar for the zero country code.
THEOREM ListIsExact ==
    ASSUME Unregistered \notin Appointed
    PROVE  RegistrySpec => []CommitmentsListedOnce
<1>1. RegistryInit => ListInv
    <2> SUFFICES ASSUME RegistryInit PROVE ListInv
        OBVIOUS
    <2>1. DOMAIN commitments = {}
        BY DEF RegistryInit
    <2>2. Registered = {}
        BY DEF RegistryInit, Registered
    <2>3. countryRegistrar[Unregistered] = NoAccount
        BY DEF RegistryInit, Codes
    <2>4. QED
        BY <2>1, <2>2, <2>3, RegistryInitTyped DEF ListInv, CommitmentsListedOnce
<1>2. ListInv /\ [RegistryNext]_registryVars => ListInv'
    <2> SUFFICES ASSUME ListInv, [RegistryNext]_registryVars PROVE ListInv'
        OBVIOUS
    <2> USE DEF ListInv
    <2>1. ASSUME NEW a \in Accounts, NEW c \in Commitments, NEW k \in Codes,
                 Register(a, c, k)
          PROVE  ListInv'
        <3> DEFINE n == Len(commitments)
        <3>1. /\ RegistryTypeOK'
              /\ countryOf[c] = Unregistered /\ countryRegistrar[k] = a
              /\ countryOf'[c] = k
              /\ \A b \in Commitments : b # c => countryOf'[b] = countryOf[b]
              /\ n \in Nat
              /\ DOMAIN commitments = 1 .. n
              /\ DOMAIN commitments' = 1 .. n + 1
              /\ \A i \in 1 .. n : commitments'[i] = commitments[i]
              /\ commitments'[n + 1] = c
              /\ countryRegistrar' = countryRegistrar
            BY <2>1, RegisterEffect
        <3> HIDE DEF n
        <3>2. k # Unregistered
            BY <3>1, NoAccountAssumption
        <3>3. Registered' = Registered \cup {c} /\ c \notin Registered
            BY <3>1, <3>2 DEF Registered
        <3>4. \A i \in 1 .. n : commitments[i] \in Registered
            BY <3>1 DEF CommitmentsListedOnce
        <3>5. {commitments'[i] : i \in DOMAIN commitments'}
                  = {commitments[i] : i \in DOMAIN commitments} \cup {c}
            <4>1. \A i : i \in 1 .. n + 1 <=> i \in 1 .. n \/ i = n + 1
                BY <3>1
            <4>2. QED
                BY <3>1, <4>1
        <3>6. \A i, j \in DOMAIN commitments' : commitments'[i] = commitments'[j] => i = j
            <4>1. \A i \in DOMAIN commitments' : i \in 1 .. n \/ i = n + 1
                BY <3>1
            <4>2. \A i, j \in 1 .. n : commitments[i] = commitments[j] => i = j
                BY <3>1 DEF CommitmentsListedOnce
            <4>3. QED
                BY <3>1, <3>3, <3>4, <4>1, <4>2
        <3>7. CommitmentsListedOnce'
            BY <3>3, <3>5, <3>6 DEF CommitmentsListedOnce
        <3>8. QED
            BY <3>1, <3>7
    <2>2. ASSUME RegistryAdmin PROVE ListInv'
        <3>1. Unregistered \in Codes \ Appointed
            BY DEF Codes
        <3>2. /\ RegistryTypeOK' /\ UNCHANGED <<countryOf, commitments>>
              /\ countryRegistrar'[Unregistered] = countryRegistrar[Unregistered]
            BY <2>2, <3>1, AdminEffect
        <3>3. QED
            BY <3>2 DEF CommitmentsListedOnce, Registered
    <2>3. CASE UNCHANGED registryVars
        BY <2>3 DEF registryVars, RegistryTypeOK, CommitmentsListedOnce, Registered
    <2>4. QED
        BY <2>1, <2>2, <2>3 DEF RegistryNext
<1>3. ListInv => CommitmentsListedOnce
    BY DEF ListInv
<1>4. QED
    BY <1>1, <1>2, <1>3, PTL DEF RegistrySpec

-----------------------------------------------------------------------------
(* The requests *)

\* The type invariant of everything outside the contract.
RequestTypeOK ==
    /\ claim \in [Docs -> Commitments \cup {Unclaimed}]
    /\ pc \in [Requests -> Running \cup Answers \cup {"Idle", "Lost"}]
    /\ doc \in [Requests -> Docs]
    /\ com \in [Requests -> Commitments]
    /\ claimed \in [Requests -> BOOLEAN]
    /\ tx \in [Requests -> {"None", "Pending", "Mined", "Reverted"}]
    /\ accepted \subseteq Docs \X Commitments

LEMMA RequestInitTyped == RegistrationInit => RequestTypeOK
BY DEF RegistrationInit, RequestTypeOK, Answers

\* What MineRegistration can do.
LEMMA MineEffect ==
    ASSUME NEW r \in Requests, MineRegistration(r)
    PROVE  /\ tx[r] = "Pending" /\ UNCHANGED storeVars
           /\ \/ /\ Register(Relay, com[r], DocCountry[doc[r]])
                 /\ tx' = [tx EXCEPT ![r] = "Mined"]
                 /\ accepted' = accepted \cup {<<doc[r], com[r]>>}
              \/ /\ tx' = [tx EXCEPT ![r] = "Reverted"]
                 /\ UNCHANGED <<registryVars, accepted>>
BY DEF MineRegistration

LEMMA RequestTypeStep ==
    ASSUME RequestTypeOK, [RegistrationNext]_vars
    PROVE  RequestTypeOK'
<1> USE DEF RequestTypeOK, Running, Answers, Goto, AfterError, chainVars
<1>1. ASSUME NEW r \in Requests, Arrive(r) PROVE RequestTypeOK'
    BY <1>1 DEF Arrive
<1>2. ASSUME NEW r \in Requests, ClaimDocument(r) PROVE RequestTypeOK'
    BY <1>2, ZenonT(30) DEF ClaimDocument
<1>3. ASSUME NEW r \in Requests, ReadClaim(r) PROVE RequestTypeOK'
    BY <1>3 DEF ReadClaim
<1>4. ASSUME NEW r \in Requests, CheckRegistered(r) PROVE RequestTypeOK'
    BY <1>4 DEF CheckRegistered
<1>5. ASSUME NEW r \in Requests, SubmitRegistration(r) PROVE RequestTypeOK'
    BY <1>5 DEF SubmitRegistration
<1>6. ASSUME NEW r \in Requests, AwaitReceipt(r) PROVE RequestTypeOK'
    BY <1>6 DEF AwaitReceipt
<1>7. ASSUME NEW r \in Requests, ReleaseClaim(r) PROVE RequestTypeOK'
    BY <1>7 DEF ReleaseClaim
<1>8. ASSUME NEW r \in Requests, MineRegistration(r) PROVE RequestTypeOK'
    BY <1>8, MineEffect DEF storeVars, requestVars
<1>9. ASSUME NEW r \in Requests, CallFails(r) PROVE RequestTypeOK'
    BY <1>9 DEF CallFails
<1>10. ASSUME NEW r \in Requests, RpcError(r) PROVE RequestTypeOK'
    BY <1>10 DEF RpcError
<1>11. ASSUME Crash PROVE RequestTypeOK'
    BY <1>11 DEF Crash
<1>12. ASSUME RegistryActs PROVE RequestTypeOK'
    BY <1>12 DEF RegistryActs, storeVars, requestVars
<1>13. CASE UNCHANGED vars
    BY <1>13 DEF vars, storeVars, requestVars
<1>14. QED
    BY <1>1, <1>2, <1>3, <1>4, <1>5, <1>6, <1>7, <1>8, <1>9, <1>10, <1>11, <1>12, <1>13
    DEF RegistrationNext, Handle

LEMMA RequestTypeCorrect == RegistrationSpec => []RequestTypeOK
BY RequestInitTyped, RequestTypeStep, PTL DEF RegistrationSpec

\* Every step of the composition is a step of the registry contract or leaves the
\* contract alone.
LEMMA RegistryStep ==
    ASSUME RequestTypeOK, [RegistrationNext]_vars
    PROVE  [RegistryNext]_registryVars
<1>1. ASSUME NEW r \in Requests, MineRegistration(r) PROVE [RegistryNext]_registryVars
    <2>1. com[r] \in Commitments /\ DocCountry[doc[r]] \in Codes /\ Relay \in Accounts
        BY DocAssumption, RelayAssumption DEF RequestTypeOK, Codes
    <2>2. QED
        BY <1>1, <2>1, MineEffect DEF RegistryNext
<1>2. ASSUME RegistryActs PROVE [RegistryNext]_registryVars
    BY <1>2 DEF RegistryActs, RegistryNext
<1>3. ASSUME NEW r \in Requests, Arrive(r) \/ Handle(r) \/ CallFails(r) \/ RpcError(r)
      PROVE  UNCHANGED registryVars
    BY <1>3 DEF Arrive, Handle, ClaimDocument, ReadClaim, CheckRegistered,
                SubmitRegistration, AwaitReceipt, ReleaseClaim, CallFails, RpcError,
                chainVars
<1>4. ASSUME Crash PROVE UNCHANGED registryVars
    BY <1>4 DEF Crash, chainVars
<1>5. CASE UNCHANGED vars
    BY <1>5 DEF vars, chainVars
<1>6. QED
    BY <1>1, <1>2, <1>3, <1>4, <1>5 DEF RegistrationNext

\* The composition implements the contract: nothing the backend does takes the
\* contract through a step it does not have.
THEOREM RegistrationImplementsRegistry == RegistrationSpec => RegistrySpec
<1>1. RegistrationInit => RegistryInit
    BY DEF RegistrationInit
<1>2. QED
    BY <1>1, RegistryStep, RequestTypeCorrect, PTL DEF RegistrationSpec, RegistrySpec

\* The type invariant of the composition.
THEOREM RegistrationTypeCorrect == RegistrationSpec => []RegistrationTypeOK
<1>1. RegistryTypeOK /\ RequestTypeOK => RegistrationTypeOK
    BY DEF RegistrationTypeOK, RequestTypeOK
<1>2. QED
    BY <1>1, RegistrationImplementsRegistry, RegistryTypeCorrect, RequestTypeCorrect, PTL

-----------------------------------------------------------------------------
(* Truthful answers *)

\* A request keeps its document and its commitment.
LEMMA SameRequests ==
    ASSUME [RegistrationNext]_vars PROVE doc' = doc /\ com' = com
BY DEF RegistrationNext, Handle, Arrive, ClaimDocument, ReadClaim, CheckRegistered,
       SubmitRegistration, AwaitReceipt, ReleaseClaim, MineRegistration, CallFails,
       RpcError, Crash, RegistryActs, vars, storeVars, requestVars

\* No step of the contract takes a registration back.
LEMMA StaysRegistered ==
    ASSUME RegistryTypeOK, [RegistryNext]_registryVars,
           NEW c \in Commitments, NEW k \in Countries, IsRegistered(c, k)
    PROVE  IsRegistered(c, k)'
<1>1. countryOf[c] = k /\ k # Unregistered
    BY UnregisteredAssumption DEF IsRegistered
<1>2. ASSUME NEW a \in Accounts, NEW d \in Commitments, NEW j \in Codes, Register(a, d, j)
      PROVE  countryOf'[c] = countryOf[c]
    BY <1>1, <1>2, RegisterEffect
<1>3. ASSUME RegistryAdmin PROVE countryOf' = countryOf
    BY <1>3, AdminEffect
<1>4. QED
    BY <1>1, <1>2, <1>3 DEF RegistryNext, registryVars, IsRegistered

\* The requests of which it is known that their commitment is registered.
Known(r) == tx[r] = "Mined" \/ pc[r] \in {"Created", "Already"}

AnswerInv ==
    /\ RegistryTypeOK
    /\ RequestTypeOK
    /\ \A r \in Requests : Known(r) => IsRegistered(com[r], DocCountry[doc[r]])

\* A step that makes it known of a request either mines its transaction or has just
\* read it from the contract.
LEMMA NewlyKnown ==
    ASSUME AnswerInv, [RegistrationNext]_vars, NEW r \in Requests, Known(r)', ~Known(r)
    PROVE  IsRegistered(com[r], DocCountry[doc[r]])'
<1> USE DEF AnswerInv, RequestTypeOK
<1>1. ASSUME NEW q \in Requests, CheckRegistered(q)
      PROVE  IsRegistered(com[r], DocCountry[doc[r]])'
    <2>1. q = r /\ IsRegistered(com[r], DocCountry[doc[r]]) /\ UNCHANGED registryVars
        BY <1>1 DEF CheckRegistered, Known, Goto, chainVars
    <2>2. QED
        BY <1>1, <2>1, SameRequests DEF IsRegistered, registryVars
<1>2. ASSUME NEW q \in Requests, MineRegistration(q)
      PROVE  IsRegistered(com[r], DocCountry[doc[r]])'
    <2>1. /\ q = r /\ Register(Relay, com[r], DocCountry[doc[r]])
        BY <1>2, MineEffect DEF Known, storeVars, requestVars
    <2>2. com[r] \in Commitments /\ DocCountry[doc[r]] \in Codes /\ Relay \in Accounts
        BY DocAssumption, RelayAssumption DEF Codes
    <2>3. countryOf'[com[r]] = DocCountry[doc[r]]
        BY <2>1, <2>2, RegisterEffect
    <2>4. QED
        BY <2>3, SameRequests DEF IsRegistered
<1>3. ASSUME NEW q \in Requests, AwaitReceipt(q) PROVE FALSE
    BY <1>3 DEF AwaitReceipt, AfterError, Known, Goto, chainVars
<1>4. ASSUME NEW q \in Requests, Arrive(q) \/ ClaimDocument(q) \/ ReadClaim(q)
      PROVE  FALSE
    BY <1>4 DEF Arrive, ClaimDocument, ReadClaim, Known, Goto, chainVars
<1>5. ASSUME NEW q \in Requests, SubmitRegistration(q) PROVE FALSE
    BY <1>5 DEF SubmitRegistration, AfterError, Known, Goto
<1>6. ASSUME NEW q \in Requests, ReleaseClaim(q) \/ CallFails(q) \/ RpcError(q)
      PROVE  FALSE
    BY <1>6 DEF ReleaseClaim, CallFails, RpcError, AfterError, Known, Goto, chainVars
<1>7. ASSUME Crash PROVE FALSE
    BY <1>7 DEF Crash, Known, chainVars
<1>8. ASSUME RegistryActs \/ UNCHANGED vars PROVE FALSE
    BY <1>8 DEF RegistryActs, vars, chainVars, storeVars, requestVars, Known
<1>9. QED
    BY <1>1, <1>2, <1>3, <1>4, <1>5, <1>6, <1>7, <1>8 DEF RegistrationNext, Handle

\* "registered" and "already registered" are only said of a commitment the contract
\* holds for that country (identityRegister.ts:73-77, 95-100), whatever clients
\* repeat, whatever fails and whoever else writes to the contract.
THEOREM AnswersAreTruthful == RegistrationSpec => []AnswerTruthful
<1>1. RegistrationInit => AnswerInv
    BY RegistryInitTyped, RequestInitTyped
    DEF RegistrationInit, AnswerInv, Known
<1>2. AnswerInv /\ [RegistrationNext]_vars => AnswerInv'
    <2> SUFFICES ASSUME AnswerInv, [RegistrationNext]_vars PROVE AnswerInv'
        OBVIOUS
    <2>1. [RegistryNext]_registryVars /\ RequestTypeOK'
        BY RegistryStep, RequestTypeStep DEF AnswerInv
    <2>2. RegistryTypeOK'
        BY <2>1, RegisterEffect, AdminEffect
        DEF AnswerInv, RegistryNext, registryVars, RegistryTypeOK
    <2>3. ASSUME NEW r \in Requests, Known(r)'
          PROVE  IsRegistered(com[r], DocCountry[doc[r]])'
        <3>1. CASE Known(r)
            <4>1. com[r] \in Commitments /\ DocCountry[doc[r]] \in Countries
                BY DocAssumption DEF AnswerInv, RequestTypeOK
            <4>2. IsRegistered(com[r], DocCountry[doc[r]])
                BY <3>1 DEF AnswerInv
            <4>3. QED
                BY <2>1, <4>1, <4>2, StaysRegistered, SameRequests
                DEF AnswerInv, IsRegistered
        <3>2. CASE ~Known(r)
            BY <2>3, <3>2, NewlyKnown
        <3>3. QED
            BY <3>1, <3>2
    <2>4. QED
        BY <2>1, <2>2, <2>3 DEF AnswerInv
<1>3. AnswerInv => AnswerTruthful
    BY DEF AnswerInv, AnswerTruthful, Known
<1>4. QED
    BY <1>1, <1>2, <1>3, PTL DEF RegistrationSpec

-----------------------------------------------------------------------------
(* One commitment per document *)

\* The stages of a request at which it relies on the claim of its document.
Holding == {"Check", "Submit", "Wait", "Release"}

\* No two requests with the same document and commitment run at once.
NoOverlap ==
    \A q, r \in Requests :
        q # r /\ pc[q] \in Running /\ pc[r] \in Running
            => <<doc[q], com[q]>> # <<doc[r], com[r]>>

\* Where a request is says how far its transaction can be, and a claim is only made
\* at its stage.
Stages ==
    \A r \in Requests :
        /\ pc[r] \in {"Idle", "Claim", "ReadClaim", "Check", "Submit"} => tx[r] = "None"
        /\ pc[r] = "Release" => claimed[r] /\ tx[r] \in {"None", "Reverted"}
        /\ pc[r] \in {"Idle", "Claim", "ReadClaim"} => ~claimed[r]

\* A request that is past the claim of its document finds it its own.
HoldersAreClaimed ==
    \A r \in Requests :
        HasKey(doc[r]) /\ pc[r] \in Holding => claim[doc[r]] = com[r]

\* A request that made the claim, and may give it back, found the document free: no
\* other transaction for it is on its way, and none was mined but its own.
ClaimersAreAlone ==
    \A q \in Requests :
        HasKey(doc[q]) /\ claimed[q] /\ pc[q] \in Holding =>
            /\ \A r \in Requests : r # q /\ doc[r] = doc[q] => tx[r] # "Pending"
            /\ \A c \in Commitments : <<doc[q], c>> \in accepted => tx[q] = "Mined"

ClaimInv ==
    /\ RequestTypeOK
    /\ NoOverlap
    /\ Stages
    /\ HoldersAreClaimed
    /\ ClaimersAreAlone
    /\ RegisteredIsClaimed

\* A step that moves only requests, none of them into a stage that relies on the
\* claim, or out of the ones that run and back, keeps the invariant.
LEMMA RequestsLeave ==
    ASSUME ClaimInv, RequestTypeOK', UNCHANGED <<claim, doc, com, claimed, tx, accepted>>,
           Stages', \A r \in Requests : pc'[r] \in Running => pc[r] \in Running,
           \A r \in Requests : pc'[r] \in Holding => pc[r] \in Holding
    PROVE  ClaimInv'
BY DEF ClaimInv, NoOverlap, HoldersAreClaimed, ClaimersAreAlone, RegisteredIsClaimed, HasKey

LEMMA ArriveKeeps ==
    ASSUME ~Overlap, ClaimInv, RequestTypeOK', NEW q \in Requests, Arrive(q)
    PROVE  ClaimInv'
<1> USE DEF ClaimInv
<1>1. /\ pc[q] = "Idle" /\ UNCHANGED <<claim, doc, com, claimed, tx, accepted>>
      /\ \A r \in Requests : pc[r] \in Running => <<doc[r], com[r]>> # <<doc[q], com[q]>>
      /\ pc'[q] = IF HasKey(doc[q]) THEN "Claim" ELSE "Check"
      /\ \A r \in Requests : r # q => pc'[r] = pc[r]
    BY DEF Arrive, Goto, chainVars, RequestTypeOK
<1>2. NoOverlap'
    BY <1>1 DEF NoOverlap
<1>3. Stages'
    BY <1>1 DEF Stages
<1>4. HoldersAreClaimed' /\ ClaimersAreAlone'
    BY <1>1 DEF HoldersAreClaimed, ClaimersAreAlone, Holding, HasKey
<1>5. RegisteredIsClaimed'
    BY <1>1 DEF RegisteredIsClaimed
<1>6. QED
    BY <1>2, <1>3, <1>4, <1>5

LEMMA ClaimDocumentKeeps ==
    ASSUME ClaimInv, RequestTypeOK', NEW q \in Requests, ClaimDocument(q)
    PROVE  ClaimInv'
<1> USE DEF ClaimInv
<1>1. /\ pc[q] = "Claim" /\ UNCHANGED <<doc, com, tx, accepted>>
      /\ \A r \in Requests : r # q => pc'[r] = pc[r]
    BY DEF ClaimDocument, Goto, chainVars, RequestTypeOK
<1>2. NoOverlap'
    <2>1. pc'[q] \in Running => pc[q] \in Running
        BY <1>1 DEF Running
    <2>2. QED
        BY <1>1, <2>1 DEF NoOverlap
<1>3. CASE claim[doc[q]] = Unclaimed
    <2>1. /\ pc'[q] = "Check" /\ claim'[doc[q]] = com[q] /\ claimed'[q] = TRUE
          /\ \A d \in Docs : d # doc[q] => claim'[d] = claim[d]
          /\ \A r \in Requests : r # q => claimed'[r] = claimed[r]
        BY <1>3 DEF ClaimDocument, Goto, RequestTypeOK
    <2>2. \A r \in Requests : doc[r] \in Docs /\ com[r] \in Commitments /\ com[r] # Unclaimed
        BY UnclaimedAssumption DEF RequestTypeOK
    <2>3. HasKey(doc[q]) =>
              /\ \A r \in Requests : doc[r] = doc[q] => tx[r] # "Pending"
              /\ \A c \in Commitments : <<doc[q], c>> \notin accepted
        BY <1>3, <2>2, UnclaimedAssumption DEF RegisteredIsClaimed
    <2>4. \A r \in Requests : doc[r] = doc[q] /\ HasKey(doc[r]) => pc[r] \notin Holding
        BY <1>3, <2>2 DEF HoldersAreClaimed
    <2>5. Stages'
        BY <1>1, <2>1 DEF Stages
    <2>6. HoldersAreClaimed'
        BY <1>1, <2>1, <2>2, <2>4 DEF HoldersAreClaimed, HasKey
    <2>7. ClaimersAreAlone'
        BY <1>1, <2>1, <2>3 DEF ClaimersAreAlone, HasKey
    <2>8. RegisteredIsClaimed'
        BY <1>1, <2>1, <2>3 DEF RegisteredIsClaimed, HasKey
    <2>9. QED
        BY <1>2, <2>5, <2>6, <2>7, <2>8
<1>4. CASE claim[doc[q]] # Unclaimed
    <2>1. pc'[q] = "ReadClaim" /\ UNCHANGED <<claim, claimed>>
        BY <1>4 DEF ClaimDocument, Goto, RequestTypeOK
    <2>2. Stages'
        BY <1>1, <2>1 DEF Stages
    <2>3. QED
        BY <1>1, <2>1, <2>2, RequestsLeave DEF Running, Holding
<1>5. QED
    BY <1>3, <1>4

LEMMA ReadClaimKeeps ==
    ASSUME ClaimInv, RequestTypeOK', NEW q \in Requests, ReadClaim(q)
    PROVE  ClaimInv'
<1> USE DEF ClaimInv
<1>1. /\ pc[q] = "ReadClaim" /\ UNCHANGED <<claim, doc, com, claimed, tx, accepted>>
      /\ \A r \in Requests : r # q => pc'[r] = pc[r]
      /\ \/ pc'[q] = "Claim" \/ pc'[q] = "Conflict"
         \/ pc'[q] = "Check" /\ claim[doc[q]] = com[q]
    BY DEF ReadClaim, Goto, chainVars, RequestTypeOK
<1>2. tx[q] = "None" /\ ~claimed[q]
    BY <1>1 DEF Stages
<1>3. NoOverlap'
    <2>1. pc'[q] \in Running => pc[q] \in Running
        BY <1>1 DEF Running
    <2>2. QED
        BY <1>1, <2>1 DEF NoOverlap
<1>4. Stages'
    BY <1>1, <1>2 DEF Stages
<1>5. HoldersAreClaimed'
    BY <1>1 DEF HoldersAreClaimed, HasKey, Holding
<1>6. ClaimersAreAlone'
    BY <1>1, <1>2 DEF ClaimersAreAlone, HasKey
<1>7. RegisteredIsClaimed'
    BY <1>1 DEF RegisteredIsClaimed
<1>8. QED
    BY <1>3, <1>4, <1>5, <1>6, <1>7

LEMMA CheckRegisteredKeeps ==
    ASSUME ClaimInv, RequestTypeOK', NEW q \in Requests, CheckRegistered(q)
    PROVE  ClaimInv'
<1>1. /\ pc[q] = "Check" /\ UNCHANGED <<claim, doc, com, claimed, tx, accepted>>
      /\ pc'[q] \in {"Already", "Submit"}
      /\ \A r \in Requests : r # q => pc'[r] = pc[r]
    BY DEF CheckRegistered, Goto, chainVars, ClaimInv, RequestTypeOK
<1>2. Stages'
    BY <1>1 DEF ClaimInv, Stages
<1>3. QED
    BY <1>1, <1>2, RequestsLeave DEF Running, Holding

LEMMA CallFailsKeeps ==
    ASSUME ClaimInv, RequestTypeOK', NEW q \in Requests, CallFails(q)
    PROVE  ClaimInv'
<1>1. /\ UNCHANGED <<claim, doc, com, claimed, tx, accepted>>
      /\ pc'[q] = "Failed"
      /\ \A r \in Requests : r # q => pc'[r] = pc[r]
    BY DEF CallFails, Goto, chainVars, ClaimInv, RequestTypeOK
<1>2. Stages'
    BY <1>1 DEF ClaimInv, Stages
<1>3. QED
    BY <1>1, <1>2, RequestsLeave DEF Running, Holding

LEMMA CrashKeeps ==
    ASSUME ClaimInv, RequestTypeOK', Crash
    PROVE  ClaimInv'
<1>1. /\ UNCHANGED <<claim, doc, com, claimed, tx, accepted>>
      /\ \A r \in Requests : pc'[r] = IF pc[r] \in Running THEN "Lost" ELSE pc[r]
    BY DEF Crash, chainVars
<1>2. Stages'
    BY <1>1 DEF ClaimInv, Stages
<1>3. QED
    BY <1>1, <1>2, RequestsLeave DEF Running, Holding

LEMMA SubmitKeeps ==
    ASSUME ClaimInv, RequestTypeOK', NEW q \in Requests, SubmitRegistration(q)
    PROVE  ClaimInv'
<1> USE DEF ClaimInv
<1>1. /\ pc[q] = "Submit" /\ UNCHANGED <<claim, doc, com, claimed, accepted>>
      /\ \A r \in Requests : r # q => pc'[r] = pc[r]
      /\ \/ tx' = [tx EXCEPT ![q] = "Pending"] /\ pc'[q] = "Wait"
         \/ tx' = tx /\ pc'[q] = AfterError(q)
    BY DEF SubmitRegistration, Goto, RequestTypeOK
<1>2. tx[q] = "None"
    BY <1>1 DEF Stages
<1>3. CASE tx' = [tx EXCEPT ![q] = "Pending"] /\ pc'[q] = "Wait"
    <2>1. tx'[q] = "Pending" /\ \A r \in Requests : r # q => tx'[r] = tx[r]
        BY <1>3 DEF RequestTypeOK
    <2>2. NoOverlap'
        BY <1>1, <1>3 DEF NoOverlap, Running
    <2>3. Stages'
        BY <1>1, <1>3, <2>1 DEF Stages
    <2>4. HoldersAreClaimed'
        BY <1>1, <1>3 DEF HoldersAreClaimed, HasKey, Holding
    <2>5. HasKey(doc[q]) => claim[doc[q]] = com[q]
        BY <1>1 DEF HoldersAreClaimed, Holding
    <2>6. \* the maker of the claim would have this commitment too
          ASSUME NEW p \in Requests, HasKey(doc[p]), claimed[p], pc[p] \in Holding,
                 p # q, doc[p] = doc[q]
          PROVE  FALSE
        <3>1. com[p] = com[q]
            BY <2>5, <2>6 DEF HoldersAreClaimed
        <3>2. QED
            BY <1>1, <2>6, <3>1 DEF NoOverlap, Running, Holding
    <2>7. ClaimersAreAlone'
        BY <1>1, <1>2, <1>3, <2>1, <2>6 DEF ClaimersAreAlone, HasKey, Holding
    <2>8. RegisteredIsClaimed'
        BY <1>1, <2>1, <2>5 DEF RegisteredIsClaimed, HasKey
    <2>9. QED
        BY <2>2, <2>3, <2>4, <2>7, <2>8
<1>4. CASE tx' = tx /\ pc'[q] = AfterError(q)
    <2>1. Stages'
        BY <1>1, <1>2, <1>4 DEF Stages, AfterError, RequestTypeOK
    <2>2. QED
        BY <1>1, <1>4, <2>1, RequestsLeave DEF Running, Holding, AfterError
<1>5. QED
    BY <1>1, <1>3, <1>4

LEMMA AwaitReceiptKeeps ==
    ASSUME ClaimInv, RequestTypeOK', NEW q \in Requests, AwaitReceipt(q)
    PROVE  ClaimInv'
<1>1. /\ pc[q] = "Wait" /\ UNCHANGED <<claim, doc, com, claimed, tx, accepted>>
      /\ \A r \in Requests : r # q => pc'[r] = pc[r]
      /\ \/ pc'[q] = "Created"
         \/ tx[q] = "Reverted" /\ pc'[q] = AfterError(q)
    BY DEF AwaitReceipt, Goto, chainVars, ClaimInv, RequestTypeOK
<1>2. Stages'
    BY <1>1 DEF ClaimInv, RequestTypeOK, Stages, AfterError
<1>3. QED
    BY <1>1, <1>2, RequestsLeave DEF Running, Holding, AfterError

LEMMA MineKeeps ==
    ASSUME ClaimInv, RequestTypeOK', NEW q \in Requests, MineRegistration(q)
    PROVE  ClaimInv'
<1> USE DEF ClaimInv
<1>1. /\ tx[q] = "Pending" /\ UNCHANGED <<claim, pc, doc, com, claimed>>
      /\ \/ tx' = [tx EXCEPT ![q] = "Mined"] /\ accepted' = accepted \cup {<<doc[q], com[q]>>}
         \/ tx' = [tx EXCEPT ![q] = "Reverted"] /\ accepted' = accepted
    BY MineEffect DEF storeVars, requestVars
<1>2. /\ tx'[q] \in {"Mined", "Reverted"}
      /\ \A r \in Requests : r # q => tx'[r] = tx[r]
      /\ accepted' # accepted => tx'[q] = "Mined"
      /\ \A d \in Docs, c \in Commitments :
             <<d, c>> \in accepted' => <<d, c>> \in accepted \/ (d = doc[q] /\ c = com[q])
    <2>1. /\ tx'[q] \in {"Mined", "Reverted"}
          /\ \A r \in Requests : r # q => tx'[r] = tx[r]
        BY <1>1 DEF RequestTypeOK
    <2>2. accepted' # accepted => tx'[q] = "Mined"
        BY <1>1 DEF RequestTypeOK
    <2>3. \A d, c : <<d, c>> \in accepted' =>
              <<d, c>> \in accepted \/ (d = doc[q] /\ c = com[q])
        BY <1>1
    <2>4. QED
        BY <2>1, <2>2, <2>3
<1>3. pc[q] \notin {"Idle", "Claim", "ReadClaim", "Check", "Submit", "Release"}
    BY <1>1 DEF Stages
<1>4. NoOverlap' /\ HoldersAreClaimed'
    BY <1>1 DEF NoOverlap, HoldersAreClaimed, HasKey
<1>5. Stages'
    BY <1>1, <1>2, <1>3 DEF Stages
<1>6. ASSUME NEW p \in Requests, HasKey(doc[p]), claimed[p], pc[p] \in Holding
      PROVE  /\ \A r \in Requests : r # p /\ doc[r] = doc[p] => tx'[r] # "Pending"
             /\ \A c \in Commitments : <<doc[p], c>> \in accepted' => tx'[p] = "Mined"
    <2>1. /\ \A r \in Requests : r # p /\ doc[r] = doc[p] => tx[r] # "Pending"
          /\ \A c \in Commitments : <<doc[p], c>> \in accepted => tx[p] = "Mined"
        BY <1>6 DEF ClaimersAreAlone
    <2>2. doc[p] = doc[q] => p = q
        BY <1>1, <2>1
    <2>3. ASSUME NEW c \in Commitments, <<doc[p], c>> \in accepted'
          PROVE  tx'[p] = "Mined"
        <3>1. doc[p] \in Docs
            BY DEF RequestTypeOK
        <3>2. CASE <<doc[p], c>> \in accepted
            <4>1. tx[p] = "Mined"
                BY <2>1, <3>2
            <4>2. QED
                BY <1>1, <1>2, <4>1
        <3>3. CASE <<doc[p], c>> \notin accepted
            BY <1>2, <2>2, <2>3, <3>1, <3>3
        <3>4. QED
            BY <3>2, <3>3
    <2>4. QED
        BY <1>1, <1>2, <2>1, <2>3
<1>7. ClaimersAreAlone'
    BY <1>1, <1>6 DEF ClaimersAreAlone, HasKey
<1>8. RegisteredIsClaimed'
    BY <1>1, <1>2 DEF RegisteredIsClaimed, HasKey
<1>9. QED
    BY <1>4, <1>5, <1>7, <1>8

LEMMA ReleaseKeeps ==
    ASSUME ClaimInv, RequestTypeOK', NEW q \in Requests, ReleaseClaim(q)
    PROVE  ClaimInv'
<1> USE DEF ClaimInv
<1>1. /\ pc[q] = "Release" /\ UNCHANGED <<doc, com, claimed, tx, accepted>>
      /\ pc'[q] = "Failed"
      /\ \A r \in Requests : r # q => pc'[r] = pc[r]
      /\ \A d \in Docs : d # doc[q] => claim'[d] = claim[d]
    BY DEF ReleaseClaim, Goto, chainVars, RequestTypeOK
<1>2. claimed[q] /\ tx[q] \in {"None", "Reverted"}
    BY <1>1 DEF Stages
<1>3. NoOverlap'
    BY <1>1 DEF NoOverlap, Running
<1>4. Stages'
    BY <1>1 DEF Stages
<1>5. \* nobody else relies on the claim
      ASSUME NEW r \in Requests, r # q, HasKey(doc[r]), pc[r] \in Holding
      PROVE  doc[r] # doc[q]
    <2>1. doc[r] = doc[q] => com[r] = com[q]
        BY <1>1, <1>5 DEF HoldersAreClaimed, Holding
    <2>2. QED
        BY <1>1, <1>5, <2>1 DEF NoOverlap, Running, Holding
<1>6. HoldersAreClaimed'
    BY <1>1, <1>5 DEF HoldersAreClaimed, HasKey, Holding, RequestTypeOK
<1>7. ClaimersAreAlone'
    BY <1>1 DEF ClaimersAreAlone, HasKey, Holding
<1>8. HasKey(doc[q]) =>
          /\ \A r \in Requests : doc[r] = doc[q] => tx[r] # "Pending"
          /\ \A c \in Commitments : <<doc[q], c>> \notin accepted
    BY <1>1, <1>2 DEF ClaimersAreAlone, Holding
<1>9. RegisteredIsClaimed'
    BY <1>1, <1>8 DEF RegisteredIsClaimed, HasKey
<1>10. QED
    BY <1>3, <1>4, <1>6, <1>7, <1>9

LEMMA ClaimInvCorrect ==
    ASSUME ~Overlap, ~RpcMayFail
    PROVE  RegistrationSpec => []ClaimInv
<1>1. RegistrationInit => ClaimInv
    BY RequestInitTyped
    DEF RegistrationInit, ClaimInv, NoOverlap, Stages, HoldersAreClaimed, ClaimersAreAlone,
        RegisteredIsClaimed, Running, Holding
<1>2. ClaimInv /\ [RegistrationNext]_vars => ClaimInv'
    <2> SUFFICES ASSUME ClaimInv, [RegistrationNext]_vars PROVE ClaimInv'
        OBVIOUS
    <2>1. RequestTypeOK'
        BY RequestTypeStep DEF ClaimInv
    <2>2. ASSUME NEW q \in Requests, Arrive(q) \/ Handle(q) \/ MineRegistration(q)
          PROVE  ClaimInv'
        BY <2>1, <2>2, ArriveKeeps, ClaimDocumentKeeps, ReadClaimKeeps,
           CheckRegisteredKeeps, SubmitKeeps, AwaitReceiptKeeps, ReleaseKeeps, MineKeeps
        DEF Handle
    <2>3. ASSUME NEW q \in Requests, CallFails(q) \/ RpcError(q) PROVE ClaimInv'
        BY <2>1, <2>3, CallFailsKeeps DEF RpcError
    <2>4. CASE Crash
        BY <2>1, <2>4, CrashKeeps
    <2>5. CASE RegistryActs \/ UNCHANGED vars
        BY <2>1, <2>5
        DEF RegistryActs, vars, chainVars, storeVars, requestVars, ClaimInv, NoOverlap,
            Stages, HoldersAreClaimed, ClaimersAreAlone, RegisteredIsClaimed, HasKey
    <2>6. QED
        BY <2>2, <2>3, <2>4, <2>5 DEF RegistrationNext
<1>3. QED
    BY <1>1, <1>2, PTL DEF RegistrationSpec

\* What a document was registered with, or may still be by a transaction on its
\* way, is what its claim in Redis names, through crashes, failures and claims given
\* back: provided no client repeats a request that still runs and the RPC endpoint
\* does not fail after taking a transaction. Both provisos are needed: the runs
\* registration_overlap and registration_rpc break it.
THEOREM RegisteredDocumentsAreClaimed ==
    ASSUME ~Overlap, ~RpcMayFail
    PROVE  RegistrationSpec => []RegisteredIsClaimed
<1>1. ClaimInv => RegisteredIsClaimed
    BY DEF ClaimInv
<1>2. QED
    BY <1>1, ClaimInvCorrect, PTL

\* Documents without a key come with the commitment their adapter derives.
DerivedInv ==
    /\ \A r \in Requests : ~HasKey(doc[r]) => com[r] = Derived[doc[r]]
    /\ \A p \in accepted : ~HasKey(p[1]) => p[2] = Derived[p[1]]

LEMMA DerivedInvCorrect == RegistrationSpec => []DerivedInv
<1>1. RegistrationInit => DerivedInv
    BY DEF RegistrationInit, DerivedInv
<1>2. DerivedInv /\ [RegistrationNext]_vars => DerivedInv'
    <2> SUFFICES ASSUME DerivedInv, [RegistrationNext]_vars PROVE DerivedInv'
        OBVIOUS
    <2>1. accepted' = accepted \/ \E q \in Requests : accepted' = accepted \cup {<<doc[q], com[q]>>}
        <3>1. ASSUME NEW q \in Requests, MineRegistration(q)
              PROVE  accepted' = accepted \/ accepted' = accepted \cup {<<doc[q], com[q]>>}
            BY <3>1, MineEffect
        <3>2. QED
            BY <3>1
            DEF RegistrationNext, Handle, Arrive, ClaimDocument, ReadClaim, CheckRegistered,
                SubmitRegistration, AwaitReceipt, ReleaseClaim, CallFails, RpcError, Crash,
                RegistryActs, vars, chainVars
    <2>2. QED
        BY <2>1, SameRequests DEF DerivedInv, HasKey
<1>3. QED
    BY <1>1, <1>2, PTL DEF RegistrationSpec

\* "the same ID cannot register twice" (UsedIdentifierStore.ts:4-5), under the same
\* two provisos, for any number of documents and requests.
THEOREM OneRegistrationPerDocument ==
    ASSUME ~Overlap, ~RpcMayFail
    PROVE  RegistrationSpec => []OneCommitmentPerDocument
<1>1. RequestTypeOK /\ DerivedInv /\ RegisteredIsClaimed => OneCommitmentPerDocument
    <2> SUFFICES ASSUME RequestTypeOK, DerivedInv, RegisteredIsClaimed,
                        NEW p \in accepted, NEW q \in accepted, p[1] = q[1]
                 PROVE  p[2] = q[2]
        BY DEF OneCommitmentPerDocument
    <2>1. /\ p[1] \in Docs /\ p[2] \in Commitments /\ q[2] \in Commitments
          /\ <<p[1], p[2]>> \in accepted /\ <<p[1], q[2]>> \in accepted
        BY DEF RequestTypeOK
    <2>2. CASE HasKey(p[1])
        BY <2>1, <2>2 DEF RegisteredIsClaimed
    <2>3. CASE ~HasKey(p[1])
        BY <2>3 DEF DerivedInv
    <2>4. QED
        BY <2>2, <2>3
<1>2. QED
    BY <1>1, RequestTypeCorrect, DerivedInvCorrect, RegisteredDocumentsAreClaimed, PTL
==============================================================================
