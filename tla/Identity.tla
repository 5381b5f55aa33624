-------------------------------- MODULE Identity --------------------------------
(***************************************************************************)
(* POST /api/v1/identity/verify: the adapters that turn a credential of a    *)
(* national identity provider into an identity commitment. A request shares  *)
(* nothing with another, so it is one step; what is kept is what was         *)
(* answered. The providers are external: a token is what they attest.        *)
(*                                                                           *)
(* A derived commitment is the hash of subject and country: it is modelled   *)
(* by the pair. A document's holder proves a statement of their choice about *)
(* it, bound to a commitment of their own; a token may put any parts         *)
(* together. The SDK vouches that the query's results are what the proofs    *)
(* say, the adapter that they are what it asks.                              *)
(***************************************************************************)
EXTENDS Naturals, FiniteSets

CONSTANTS
    Subjects,           \* subject identifiers of the OIDC providers
    Citizens,           \* holders of documents
    Nationality, Age,   \* citizen -> what the document says
    Supported,          \* the countries with a configuration file
    AllowedCountries,   \* EIDAS_COUNTRY_CODES
    Ages,               \* ages a holder may ask to be proven
    Nothing,            \* an absent claim
    MaxRequests         \* bound: the requests

VARIABLES
    env,                \* the environment of the deployment
    last,               \* history: the token for ZKPassport, and the answer
    derived,            \* history: commitments derived, with whom they were derived from
    answered            \* the number of requests answered

idVars == <<env, last, derived, answered>>

Rejected == [commitment |-> Nothing]
Countries == Supported \cup AllowedCountries \cup {"EU"}
Environments == [production : BOOLEAN, devMode : BOOLEAN, configured : BOOLEAN]

-----------------------------------------------------------------------------
(* Derived commitments: Gov.UK One Login, eIDAS, and the mock provider *)

Natural == [country : AllowedCountries, id : Subjects] \* "CC/CC/id"
OidcTokens == [genuine : BOOLEAN, level : {Nothing, "Low", "High"}, sub : Subjects \cup {Nothing},
               npi : Natural \cup {Nothing}, c : AllowedCountries \cup {Nothing}]

deriveCommitment(subjectId, countryCode) == <<subjectId, countryCode>>
Derived(adapter, subjectId, countryCode) ==
    [commitment |-> deriveCommitment(subjectId, countryCode), country |-> countryCode,
     from |-> <<adapter, subjectId>>]

\* A level of assurance that is too low is refused, a missing one is not.
Assured(t) == env.configured /\ t.genuine /\ t.level # "Low"

govuk(t) ==
    IF Assured(t) /\ t.sub # Nothing THEN Derived("govuk", t.sub, "GB") ELSE Rejected

eidas(t) ==
    LET npi == IF t.npi # Nothing THEN t.npi ELSE t.sub
        issuingCountry == IF npi \in Natural THEN npi.country
                          ELSE IF t.c # Nothing THEN t.c ELSE "EU"
    IN  IF Assured(t) /\ npi # Nothing /\ issuingCountry \in AllowedCountries
        THEN Derived("eidas", npi, issuingCountry) ELSE Rejected

\* A missing subject or country has a default, a value like another.
MockTokens == [sub : Subjects, country : Countries \cup {"GB"}]

MockEnabled == ~env.production

mock(t) == IF MockEnabled THEN Derived("mock", t.sub, t.country) ELSE Rejected

-----------------------------------------------------------------------------
(* ZKPassport *)

Letters == {"lower", "mixed"}
Commitments == [of : Citizens, letters : Letters]
Lower(commitment) == [commitment EXCEPT !.letters = "lower"]

Results(holder, asked, age) ==
    [eq |-> [expected |-> asked, result |-> Nationality[holder] = asked],
     gte |-> [expected |-> age, result |-> Age[holder] >= age],
     bind |-> [of |-> holder, letters |-> "lower"]]

ZkTokens ==
    [country : Countries, commitment : Commitments, genuine : BOOLEAN, salted : BOOLEAN,
     queryResult : {Results(h, asked, age) : h \in Citizens, asked \in Supported, age \in Ages}]

MIN_VOTING_AGE == 18
Holder(t) == t.queryResult.bind.of
Configured == IF env.devMode THEN ~env.production ELSE env.configured

\* Proofs of mock documents verify in development mode.
verifyFn(t) == t.genuine \/ env.devMode

Canonical(commitment) == Lower(commitment)

\* Mutant: the results are not compared with the query.
Proven_Binding(t) == t.queryResult.eq.result /\ t.queryResult.gte.result

\* What a client must have proven.
buildQuery(country, commitment) ==
    [nationality |-> country, age |-> MIN_VOTING_AGE, custom_data |-> Canonical(commitment)]

\* The results are those of the exact query: this nationality, this age, this
\* commitment.
Proven(t) ==
    LET query == buildQuery(t.country, t.commitment) IN
    /\ t.queryResult.eq = [expected |-> query.nationality, result |-> TRUE]
    /\ t.queryResult.gte = [expected |-> query.age, result |-> TRUE]
    /\ Lower(t.queryResult.bind) = query.custom_data

zkpassport(t) ==
    IF t.country \in Supported /\ Configured /\ verifyFn(t) /\ t.salted /\ Proven(t)
    THEN [commitment |-> Canonical(t.commitment), country |-> t.country, sybilKey |-> Holder(t)]
    ELSE Rejected

-----------------------------------------------------------------------------
(* The route *)

Adapters == {"eidas", "govuk", "zkpassport", "mock"}

\* An error of the adapter is answered with 401, as are an unknown adapter and
\* what is no token.
Answer(adapter, result) ==
    /\ answered < MaxRequests
    /\ answered' = answered + 1
    /\ derived' = derived \cup (IF adapter \in Adapters \ {"zkpassport"} /\ result # Rejected
                                THEN {result} ELSE {})
    /\ UNCHANGED env

Verify ==
    \/ \E t \in OidcTokens : Answer("govuk", govuk(t)) /\ UNCHANGED last
    \/ \E t \in OidcTokens : Answer("eidas", eidas(t)) /\ UNCHANGED last
    \/ \E t \in MockTokens : Answer("mock", mock(t)) /\ UNCHANGED last
    \/ /\ last.token = Nothing \* bound: one request with proofs
       /\ \E t \in ZkTokens :
             Answer("zkpassport", zkpassport(t)) /\ last' = [token |-> t, result |-> zkpassport(t)]

IdInit ==
    /\ env \in Environments
    /\ last = [token |-> Nothing, result |-> Rejected]
    /\ derived = {} /\ answered = 0

IdSpec == IdInit /\ [][Verify]_idVars

-----------------------------------------------------------------------------
(* Properties *)

\* In production two answers that derive the same commitment derived it from the
\* same subject of the same provider: no one obtains another's vote key by way of
\* another adapter. (verify of the adapters)
CommitmentNamesOneSubject ==
    env.production => \A d, e \in derived : d.commitment = e.commitment => d.from = e.from

\* A commitment ZKPassport vouches for is one of the holder of the document, who
\* has that nationality and is of age; the document is real in production. This
\* whatever query was proven, and whatever parts a token is made of.
\* (ZKPassportAdapter.verify)
CitizensAreProven ==
    last.result # Rejected =>
        /\ last.result.commitment.of = Holder(last.token)
        /\ last.result.country = Nationality[Holder(last.token)]
        /\ Age[Holder(last.token)] >= MIN_VOTING_AGE
        /\ env.production => last.token.genuine

\* A citizen of age who proves the query for a commitment of their own is not
\* turned away by a deployment that is configured, in whatever letters the
\* commitment is sent, and gets it back in the same. (ZKPassportAdapter.verify)
AdultsPass ==
    (/\ last.token # Nothing
     /\ env.configured /\ ~env.devMode
     /\ LET t == last.token IN
           /\ t.genuine /\ t.salted /\ t.country = Nationality[Holder(t)] /\ t.commitment.of = Holder(t)
           /\ t.country \in Supported /\ Age[Holder(t)] >= MIN_VOTING_AGE
           /\ t.queryResult = Results(Holder(t), t.country, MIN_VOTING_AGE))
    => last.result.commitment = [of |-> Holder(last.token), letters |-> "lower"]

\* An adapter gives a commitment to whom it belongs, and to all of them. (verify of
\* the adapters)
ProvidersSafe == CommitmentNamesOneSubject /\ CitizensAreProven /\ AdultsPass

=============================================================================
