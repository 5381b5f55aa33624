------------------------------ MODULE CrossChain ------------------------------
(***************************************************************************)
(* Votes cast on a second-layer chain: L2VoteCaster spends the nullifier    *)
(* there and sends a LayerZero message, CrossChainVoteRelay on L1 hands it  *)
(* to the ledger. It shares the ledger with the API relay (VoteRelay).      *)
(*                                                                          *)
(* A contract call is one step and leaves no trace when it reverts. A       *)
(* message the relay rejects stays with the endpoint and can be executed    *)
(* again. The relay calls castVoteRelay; VoteLedger.sol has no such         *)
(* function, so both a ledger with it and the repository's are initial      *)
(* states.                                                                  *)
(***************************************************************************)
EXTENDS VoteRelay

CONSTANTS Chains            \* the L2 chains

\* A vote's origin is a request of the API or a chain.
ASSUME OriginAssumption == Requests \cap Chains = {}

VARIABLES
    hasRelayEntry,          \* does the ledger have castVoteRelay?
    voteLedger,             \* is CrossChainVoteRelay.voteLedger set?
    zkVerifier,             \* the chains whose caster has a verifier
    peers,                  \* the chains whose caster and relay know each other
    l2Nullifiers,           \* chain -> _l2Nullifiers
    messages                \* sent and not executed: [chain, nullifier]

crossVars == <<hasRelayEntry, voteLedger, zkVerifier, peers, l2Nullifiers, messages>>
vars == <<now, ledgerVars, relayVars, crossVars>>

\* setVoteLedger, by the deployment script or by the owner at any time.
SetVoteLedger ==
    /\ voteLedger' = ~voteLedger
    /\ UNCHANGED <<now, ledgerVars, relayVars, hasRelayEntry, zkVerifier, peers, l2Nullifiers, messages>>

SetZKVerifier(c) ==
    /\ c \notin zkVerifier
    /\ zkVerifier' = zkVerifier \cup {c}
    /\ UNCHANGED <<now, ledgerVars, relayVars, hasRelayEntry, voteLedger, peers, l2Nullifiers, messages>>

\* setPeer on both sides, by hand after the deployment.
SetPeers(c) ==
    /\ c \notin peers
    /\ peers' = peers \cup {c}
    /\ UNCHANGED <<now, ledgerVars, relayVars, hasRelayEntry, voteLedger, zkVerifier, l2Nullifiers, messages>>

\* Mutant: a send that fails does not undo the nullifier.
CastVoteL2_Kept(c, n) ==
    /\ n \notin l2Nullifiers[c]
    /\ c \in zkVerifier
    /\ l2Nullifiers' = [l2Nullifiers EXCEPT ![c] = @ \cup {n}]
    /\ messages' = IF c \in peers THEN messages \cup {[chain |-> c, nullifier |-> n]} ELSE messages
    /\ UNCHANGED <<now, ledgerVars, relayVars, hasRelayEntry, voteLedger, zkVerifier, peers>>

\* castVote on L2: a caster without verifier or peer reverts, as does a fee
\* below the quote.
CastVoteL2(c, n) ==
    /\ n \notin l2Nullifiers[c]
    /\ c \in zkVerifier
    /\ l2Nullifiers' = [l2Nullifiers EXCEPT ![c] = @ \cup {n}]
    /\ c \in peers
    /\ messages' = messages \cup {[chain |-> c, nullifier |-> n]}
    /\ UNCHANGED <<now, ledgerVars, relayVars, hasRelayEntry, voteLedger, zkVerifier, peers>>

\* _lzReceive reverts while the ledger is not set, cannot be called or rejects
\* the vote: the message stays.
Receivable(m) == voteLedger /\ hasRelayEntry /\ Castable(m.nullifier)

\* _lzReceive: messages arrive in any order, at any time.
LzReceive(m) ==
    /\ m \in messages
    /\ Receivable(m)
    /\ messages' = messages \ {m}
    /\ CountVote(m.nullifier, m.chain)
    /\ UNCHANGED <<now, accepting, relayVars, hasRelayEntry, voteLedger, zkVerifier, peers, l2Nullifiers>>

-----------------------------------------------------------------------------
(* Specification *)

\* The contracts as they are constructed; the script then sets the relay's ledger
\* if it has an address for it, and the casters' verifiers. It sets no peers.
Init ==
    /\ RelayInit
    /\ hasRelayEntry \in BOOLEAN
    /\ voteLedger \in BOOLEAN
    /\ zkVerifier = {}
    /\ peers = {}
    /\ l2Nullifiers = [c \in Chains |-> {}]
    /\ messages = {}

Next ==
    \/ RelayNext /\ UNCHANGED crossVars
    \/ SetVoteLedger
    \/ \E c \in Chains : SetZKVerifier(c) \/ SetPeers(c)
    \/ \E c \in Chains, n \in Nullifiers : CastVoteL2(c, n)
    \/ \E m \in messages : LzReceive(m)

\* The process runs its handlers and the chain mines.
Fairness ==
    /\ WF_vars(Mine /\ UNCHANGED crossVars)
    /\ \A r \in Requests : WF_vars(Handle(r) /\ UNCHANGED crossVars)

Spec == Init /\ [][Next]_vars /\ Fairness

-----------------------------------------------------------------------------
(* Properties *)

\* The shape of both sides' state. (All handlers)
TypeOK ==
    /\ RelayTypeOK
    /\ l2Nullifiers \in [Chains -> SUBSET Nullifiers]
    /\ messages \subseteq [chain : Chains, nullifier : Nullifiers]

\* A nullifier is counted once over all channels together: repeated API
\* requests, and the same nullifier cast on several chains. (castVote,
\* castVoteRelay)
OneVoteOverAllChannels == \A n \in Nullifiers : Cardinality(counted[n]) <= 1

\* A nullifier spent on L2 is accounted for: its message can still be executed,
\* or its vote is counted. Failed sends, an unset ledger and rejected messages
\* lose no vote. (L2VoteCaster.castVote, _lzReceive)
L2SpentIsAccounted ==
    \A c \in Chains : \A n \in l2Nullifiers[c] :
        [chain |-> c, nullifier |-> n] \in messages \/ c \in counted[n]

\* What the relay answers a voter is true, and stays so while other channels compete
\* for the nullifier. (submitVote, castVote)
AnswersAreTrue == CreatedIsCounted /\ RefusedIsNotCounted

\* Over all channels a spent nullifier is a vote counted once, or one on its way.
\* (castVote, castVoteRelay, _lzReceive)
VotesArriveOnce == OneVoteOverAllChannels /\ L2SpentIsAccounted

=============================================================================
