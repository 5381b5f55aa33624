----------------------------- MODULE Certificates -----------------------------
(***************************************************************************)
(* Result certificates: CertificationService takes a tally, signs a PDF of  *)
(* it and pins it with up to three services; anyone can have it verified    *)
(* later. A document is named by its content, so by the query it reports,   *)
(* and a signature is abstracted to the document it is made over.           *)
(*                                                                          *)
(* The node that adds and fetches documents keeps blocks in memory, and     *)
(* works only after init(), which a script calls and the server does not:   *)
(* both are initial states.                                                 *)
(***************************************************************************)
EXTENDS TallyQuery

CONSTANTS
    Providers,          \* Pinata, Web3.Storage, Filebase
    Configured,         \* those with credentials in the environment
    SigningKey          \* is CERT_SIGNING_KEY_PEM set?

ASSUME ProviderAssumption == Configured \subseteq Providers /\ Certifying \subseteq Queries

VARIABLES
    initialised,        \* has MultiPinService a node?
    blocks,             \* the node's blocks
    pinned,             \* provider -> the documents it keeps under the node's CID
    diverged            \* history: documents only confirmed under other CIDs

certVars == <<tallyVars, initialised, blocks, pinned, diverged>>

-----------------------------------------------------------------------------

\* certify, after the tally: PDF, signature, the local node.
Certify(q) ==
    /\ queries[q].pc = "Certify"
    /\ End(q, IF initialised THEN "Pinning" ELSE "Failed")
    /\ blocks' = IF initialised THEN blocks \cup {q} ELSE blocks
    /\ UNCHANGED <<now, declared, chain, finalisedAt, cache, initialised, pinned, diverged>>

\* The document is kept by these providers under the CID the node computed.
Keep(q, arrived) == pinned' = [p \in Providers |-> IF p \in arrived THEN pinned[p] \cup {q} ELSE pinned[p]]

\* Every provider that confirmed it has named it otherwise.
Diverge(q, arrived, confirmed) ==
    diverged' = IF confirmed # {} /\ confirmed \cap arrived = {} THEN diverged \cup {q} ELSE diverged

\* Mutant: the local copy is enough.
Pin_Local(q, arrived, confirmed) ==
    /\ queries[q].pc = "Pinning"
    /\ confirmed \cup arrived \subseteq Configured
    /\ Keep(q, arrived)
    /\ Diverge(q, arrived, confirmed)
    /\ End(q, "Issued")
    /\ UNCHANGED <<now, declared, chain, finalisedAt, cache, initialised, blocks>>

\* All three providers have answered: one without credentials is not asked, a
\* failure may hide a document that arrived, and a success may be of another CID
\* than the node's, which is only logged. One success is enough, and the node's
\* CID is what is answered.
Pin(q, arrived, confirmed) ==
    /\ queries[q].pc = "Pinning"
    /\ confirmed \cup arrived \subseteq Configured
    /\ Keep(q, arrived)
    /\ Diverge(q, arrived, confirmed)
    /\ End(q, IF confirmed = {} THEN "Failed" ELSE "Issued")
    /\ UNCHANGED <<now, declared, chain, finalisedAt, cache, initialised, blocks>>

\* The signature over certificate q, or a placeholder.
sign(q) == IF SigningKey THEN q ELSE "dev-signature"

\* get: from the own node or, through it, from the network.
Fetched(cid) == initialised /\ (cid \in blocks \/ \E p \in Providers : cid \in pinned[p])

\* GET verify; without a key nothing is compared.
verifyCertificate(cid, signature) ==
    IF ~Fetched(cid) THEN "Error"
    ELSE IF ~SigningKey \/ signature = cid THEN "Valid" ELSE "Invalid"

-----------------------------------------------------------------------------

\* The process dies and starts again: handlers, cache and blocks are gone, and a
\* provider may have received what was being sent.
RestartServer(arrived) ==
    /\ arrived \subseteq Configured
    /\ \E q \in Queries : queries[q].pc \notin {"Idle", "Answered", "Issued", "Failed"} \/ q \in blocks
    /\ queries' = [q \in Queries |->
          IF queries[q].pc \in {"Idle", "Answered", "Issued", "Failed"} THEN queries[q] ELSE [pc |-> "Failed"]]
    /\ pinned' = [p \in Providers |-> pinned[p] \cup
          {q \in Queries : queries[q].pc = "Pinning" /\ p \in arrived}]
    /\ cache' = None /\ blocks' = {}
    /\ UNCHANGED <<now, declared, chain, finalisedAt, initialised, diverged>>

CertInit ==
    /\ TallyInit
    /\ initialised \in BOOLEAN
    /\ blocks = {}
    /\ pinned = [p \in Providers |-> {}]
    /\ diverged = {}

CertStep(q) == Certify(q) \/ \E arrived, confirmed \in SUBSET Configured : Pin(q, arrived, confirmed)

CertNext ==
    \/ TallyNext /\ UNCHANGED <<initialised, blocks, pinned, diverged>>
    \/ \E q \in Queries : CertStep(q)
    \/ \E arrived \in SUBSET Configured : RestartServer(arrived)

CertSpec == CertInit /\ [][CertNext]_certVars

-----------------------------------------------------------------------------
(* Properties *)

\* Nothing is stored by a node without init, nor with a provider without
\* credentials. (init, pin)
CertTypeOK ==
    /\ blocks \subseteq Certifying
    /\ ~initialised => blocks = {} /\ \A p \in Providers : pinned[p] = {}
    /\ \A p \in Providers : pinned[p] # {} => p \in Configured

\* An issued certificate can be fetched and verifies for ever, whatever providers
\* failed and whether or not the server restarted; if no provider confirmed it
\* under the CID that was answered, then as long as the node has its copy, that is
\* until a restart. (certify, pin, GET verify)
IssuedVerifies ==
    \A q \in Queries : queries[q].pc = "Issued" =>
        \/ verifyCertificate(q, sign(q)) = "Valid"
        \/ q \in diverged \ blocks

\* The service says that it returns the CID of the first successful pin: what was
\* issued is with a provider under its CID. It returns the node's own. (pin)
IssuedIsPinned ==
    \A q \in Queries : queries[q].pc = "Issued" => \E p \in Providers : q \in pinned[p]

\* Answers and certificates can be relied on. (getTally, certify, GET verify)
CertificatesSafe == CertTypeOK /\ AnswersAreRecent /\ IssuedVerifies

=============================================================================
