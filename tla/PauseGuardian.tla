---------------------------- MODULE PauseGuardian ----------------------------
(***************************************************************************)
(* blockchain/contracts/PauseGuardian.sol: an M-of-N multisig in front of   *)
(* the pause switch of one target contract (VoteLedger).                    *)
(*                                                                          *)
(* Every external function is one action; a call that reverts, in the       *)
(* guardian or in the target it calls, changes nothing and is not an        *)
(* action. The proposals mapping answers for every id, also for ids no      *)
(* proposal has been given yet: such an id reads as an unpause proposal     *)
(* with no approvals (Ids reaches one id past the last proposal).           *)
(*                                                                          *)
(* The target is its pause flag and its owner. VoteLedger.pause and unpause *)
(* are onlyOwner (VoteLedger.sol:212-213) and revert when the flag is       *)
(* already in the requested state (OpenZeppelin's Pausable).                *)
(***************************************************************************)
EXTENDS Integers, FiniteSets

CONSTANTS
    Accounts,       \* the accounts that may hold GUARDIAN_ROLE
    Threshold,      \* approvals a proposal needs
    MaxProposals,   \* bound: how many proposals are created
    Guardian,       \* the guardian contract itself, as an owner of the target
    Operators,      \* the other owners of the target: deployer, timelock
    InitialOwners   \* who may own the target when the guardian is deployed

ASSUME ThresholdAssumption == Threshold \in Nat \ {0}
ASSUME MaxProposalsAssumption == MaxProposals \in Nat
ASSUME OwnerAssumption ==
    Guardian \notin Operators /\ InitialOwners \subseteq Operators \cup {Guardian}

Ids == 0 .. MaxProposals

VARIABLES
    guardians,      \* the members of GUARDIAN_ROLE
    proposalCount,  \* the id the next proposal will get
    isPause,        \* id -> Proposal.isPause
    approvals,      \* id -> Proposal.approvals
    executed,       \* id -> Proposal.executed
    approved,       \* id -> the accounts Proposal.approved maps to true
    targetOwner,    \* the target's owner
    paused,         \* the target's pause flag
    cosigned,       \* history: id -> who proposed or approved it as a pause
    inherited       \* history: the flag the target had when the guardian got it

proposalVars == <<proposalCount, isPause, approvals, executed, approved, cosigned>>
targetVars == <<targetOwner, paused, inherited>>
vars == <<guardians, proposalCount, isPause, approvals, executed, approved,
          targetOwner, paused, cosigned, inherited>>

-----------------------------------------------------------------------------

\* Mutant: the constructor grants the role to msg.sender instead of the listed
\* accounts.
Init_SenderOnly ==
    /\ guardians = Operators
    /\ proposalCount = 0
    /\ isPause = [i \in Ids |-> FALSE]
    /\ approvals = [i \in Ids |-> 0]
    /\ executed = [i \in Ids |-> FALSE]
    /\ approved = [i \in Ids |-> {}]
    /\ targetOwner \in InitialOwners
    /\ paused = FALSE
    /\ cosigned = [i \in Ids |-> {}]
    /\ inherited = FALSE

\* The constructor; it requires a list of at least Threshold guardians, in which
\* one account may stand several times.
Init ==
    /\ guardians \in (SUBSET Accounts) \ {{}}
    /\ proposalCount = 0
    /\ isPause = [i \in Ids |-> FALSE]
    /\ approvals = [i \in Ids |-> 0]
    /\ executed = [i \in Ids |-> FALSE]
    /\ approved = [i \in Ids |-> {}]
    /\ targetOwner \in InitialOwners
    /\ paused = FALSE
    /\ cosigned = [i \in Ids |-> {}]
    /\ inherited = FALSE

\* Mutant: AlreadyApproved is not tested.
Approve_Repeated(g, i) ==
    /\ g \in guardians
    /\ ~executed[i]
    /\ approvals[i] < 2 * Cardinality(Accounts)
    /\ approved' = [approved EXCEPT ![i] = @ \cup {g}]
    /\ approvals' = [approvals EXCEPT ![i] = @ + 1]

\* _approve, behind onlyRole: once per account, not after execution.
Approve(g, i) ==
    /\ g \in guardians
    /\ ~executed[i]
    /\ g \notin approved[i]
    /\ approved' = [approved EXCEPT ![i] = @ \cup {g}]
    /\ approvals' = [approvals EXCEPT ![i] = @ + 1]

\* _createProposal sets the kind of the next id and nothing else of it: what the
\* id has already gathered stays. The proposer's own approval is part of the
\* call, so the call reverts when that approval does.
Propose(g, pause) ==
    /\ proposalCount < MaxProposals
    /\ Approve(g, proposalCount)
    /\ isPause' = [isPause EXCEPT ![proposalCount] = pause]
    /\ proposalCount' = proposalCount + 1
    /\ UNCHANGED <<guardians, executed, targetVars>>

ProposePause(g) ==
    /\ Propose(g, TRUE)
    /\ cosigned' = [cosigned EXCEPT ![proposalCount] = @ \cup {g}]

ProposeUnpause(g) ==
    /\ Propose(g, FALSE)
    /\ UNCHANGED cosigned

ApprovePause(g, i) ==
    /\ isPause[i]
    /\ Approve(g, i)
    /\ cosigned' = [cosigned EXCEPT ![i] = @ \cup {g}]
    /\ UNCHANGED <<guardians, proposalCount, isPause, executed, targetVars>>

\* The only test is ~isPause, which an id without a proposal passes too.
ApproveUnpause(g, i) ==
    /\ ~isPause[i]
    /\ Approve(g, i)
    /\ UNCHANGED <<guardians, proposalCount, isPause, executed, targetVars,
                   cosigned>>

\* Mutant: the target call is wrapped in try/catch, so that its revert no longer
\* rolls the executed flag back.
ExecutePause_Swallowed(g, i) ==
    /\ g \in guardians
    /\ ~executed[i]
    /\ isPause[i]
    /\ approvals[i] >= Threshold
    /\ executed' = [executed EXCEPT ![i] = TRUE]
    /\ paused' = (paused \/ targetOwner = Guardian)
    /\ UNCHANGED <<guardians, proposalCount, isPause, approvals, approved,
                   targetOwner, cosigned, inherited>>

\* Mutant: the threshold must be exceeded.
ExecutePause_Exceeds(g, i) ==
    /\ g \in guardians
    /\ ~executed[i]
    /\ isPause[i]
    /\ approvals[i] > Threshold
    /\ targetOwner = Guardian
    /\ ~paused
    /\ executed' = [executed EXCEPT ![i] = TRUE]
    /\ paused' = TRUE
    /\ UNCHANGED <<guardians, proposalCount, isPause, approvals, approved,
                   targetOwner, cosigned, inherited>>

\* Marks the proposal and pauses the target, or does neither: the call reverts
\* unless the guardian owns a target that is not paused.
ExecutePause(g, i) ==
    /\ g \in guardians
    /\ ~executed[i]
    /\ isPause[i]
    /\ approvals[i] >= Threshold
    /\ targetOwner = Guardian
    /\ ~paused
    /\ executed' = [executed EXCEPT ![i] = TRUE]
    /\ paused' = TRUE
    /\ UNCHANGED <<guardians, proposalCount, isPause, approvals, approved,
                   targetOwner, cosigned, inherited>>

ExecuteUnpause(g, i) ==
    /\ g \in guardians
    /\ ~executed[i]
    /\ ~isPause[i]
    /\ approvals[i] >= Threshold
    /\ targetOwner = Guardian
    /\ paused
    /\ executed' = [executed EXCEPT ![i] = TRUE]
    /\ paused' = FALSE
    /\ UNCHANGED <<guardians, proposalCount, isPause, approvals, approved,
                   targetOwner, cosigned, inherited>>

\* AccessControl: the deployer, as DEFAULT_ADMIN_ROLE, moves the role. Approvals
\* already given and the threshold stay as they are.
GrantRole(g) ==
    /\ g \notin guardians
    /\ guardians' = guardians \cup {g}
    /\ UNCHANGED <<proposalVars, targetVars>>

RevokeRole(g) ==
    /\ g \in guardians
    /\ guardians' = guardians \ {g}
    /\ UNCHANGED <<proposalVars, targetVars>>

\* The target's owner when it is not the guardian: it may hand the target over,
\* to the timelock as deploy-dao.ts:67 instructs or to the guardian. The guardian
\* contract has no function that gives the target away again.
TransferTarget(to) ==
    /\ targetOwner \in Operators
    /\ to # targetOwner
    /\ targetOwner' = to
    /\ inherited' = IF to = Guardian THEN paused ELSE inherited
    /\ UNCHANGED <<guardians, proposalVars, paused>>

\* The target's own onlyOwner pause and unpause, for an owner that can call them.
OwnerSwitches ==
    /\ targetOwner \in Operators
    /\ paused' = ~paused
    /\ UNCHANGED <<guardians, proposalVars, targetOwner, inherited>>

Next ==
    \/ \E g \in Accounts : ProposePause(g) \/ ProposeUnpause(g)
    \/ \E g \in Accounts, i \in Ids : ApprovePause(g, i) \/ ApproveUnpause(g, i)
    \/ \E g \in Accounts, i \in Ids : ExecutePause(g, i) \/ ExecuteUnpause(g, i)
    \/ \E g \in Accounts : GrantRole(g) \/ RevokeRole(g)
    \/ \E to \in Operators \cup {Guardian} : TransferTarget(to)
    \/ OwnerSwitches

\* A pause that has its approvals is executed by some guardian if it can be: the
\* emergency procedure (docs/DISASTER_RECOVERY.md:80-83) ends in that call.
Fairness == WF_vars(\E g \in Accounts, i \in Ids : ExecutePause(g, i))

Spec == Init /\ [][Next]_vars

FairSpec == Spec /\ Fairness

-----------------------------------------------------------------------------
(* Correctness *)

TypeOK ==
    /\ guardians \subseteq Accounts
    /\ proposalCount \in 0 .. MaxProposals
    /\ isPause \in [Ids -> BOOLEAN]
    /\ approvals \in [Ids -> Nat]
    /\ executed \in [Ids -> BOOLEAN]
    /\ approved \in [Ids -> SUBSET Accounts]
    /\ targetOwner \in Operators \cup {Guardian}
    /\ paused \in BOOLEAN
    /\ cosigned \in [Ids -> SUBSET Accounts]
    /\ inherited \in BOOLEAN

\* The approvals counter counts distinct accounts, and whatever was executed had
\* the threshold of them: no account is counted twice however the proposal, the
\* approvals and the role changes interleave (lines 132-138, 85, 107).
ThresholdOfDistinctAccounts ==
    \A i \in Ids :
        /\ approvals[i] = Cardinality(approved[i])
        /\ executed[i] => Cardinality(approved[i]) >= Threshold

Executed(pause) == {i \in Ids : executed[i] /\ isPause[i] = pause}

\* Once the guardian owns the target, the switch is where the executed proposals
\* put it: pauses and unpauses alternate, one proposal each, so the executed flags
\* and the target's flag never part (lines 86-87, 108-109); before that, no
\* proposal is executed.
SwitchFollowsProposals ==
    Cardinality(Executed(TRUE)) - Cardinality(Executed(FALSE)) =
        IF targetOwner = Guardian /\ paused # inherited
        THEN IF paused THEN 1 ELSE -1
        ELSE 0

\* "A configurable threshold of guardians must co-sign a pause request before the
\* VoteLedger is paused" (lines 10-12): each executed pause was proposed or
\* approved as a pause by Threshold accounts.
PauseIsCoSigned ==
    \A i \in Ids : executed[i] /\ isPause[i] => Cardinality(cosigned[i]) >= Threshold

\* "Any guardian calls proposePause(reason)" (line 17): the id the next proposal
\* gets is not one that is already executed, for which proposing would revert.
NextProposalIsOpen == ~executed[proposalCount]

\* "Once threshold signatures are collected, executePause(proposalId) is callable
\* by any guardian" (lines 19-20): a pause with its approvals takes effect, unless
\* the role is taken from every guardian.
ApprovedPauseTakesEffect ==
    \A i \in Ids :
        (isPause[i] /\ approvals[i] >= Threshold /\ ~executed[i])
            ~> (paused \/ guardians = {})

\* The same of a target the guardian owns, so that its call of pause (line 87) can
\* succeed: no order of approvals, other executions and role changes leaves an
\* approved pause that cannot be executed.
OwnedTargetIsPaused ==
    \A i \in Ids :
        (isPause[i] /\ approvals[i] >= Threshold /\ ~executed[i] /\ targetOwner = Guardian)
            ~> (paused \/ guardians = {})
==============================================================================
