---------------------------- MODULE VoterRegistry ----------------------------
(***************************************************************************)
(* blockchain/contracts/VoterRegistry.sol: the identity commitments that    *)
(* may vote. Each external function is one action; a call that reverts is   *)
(* not an action.                                                           *)
(***************************************************************************)
EXTENDS Integers, Sequences, FiniteSets

CONSTANTS
    Commitments,    \* the commitments voters derive; the zero hash is not one
    Countries,      \* the country codes
    Unregistered,   \* the zero country code
    Appointed,      \* the codes the owner appoints registrars for
    Accounts,       \* the addresses that call the contract
    NoAccount       \* the zero address: no registrar, or owner renounced

ASSUME UnregisteredAssumption == Unregistered \notin Countries
ASSUME AppointedAssumption == Appointed \subseteq Countries \cup {Unregistered}
ASSUME NoAccountAssumption == NoAccount \notin Accounts

VARIABLES
    registryOwner,      \* OwnableUpgradeable's owner
    registryPaused,     \* PausableUpgradeable's flag
    countryOf,          \* _commitmentToCountry
    commitments,        \* commitments, in insertion order
    countryRegistrar    \* country -> the account that may register

registryVars == <<registryOwner, registryPaused, countryOf, commitments,
                  countryRegistrar>>

\* A bytes2 argument may be any code, the zero one included.
Codes == Countries \cup {Unregistered}

Registered == {c \in Commitments : countryOf[c] # Unregistered}

\* isRegistered: for this country, not for any.
IsRegistered(c, k) == countryOf[c] = k

-----------------------------------------------------------------------------

RegistryInit ==
    /\ registryOwner \in Accounts
    /\ registryPaused = FALSE
    /\ countryOf = [c \in Commitments |-> Unregistered]
    /\ commitments = <<>>
    /\ countryRegistrar = [k \in Codes |-> NoAccount]

\* Mutant: the uniqueness test asks isRegistered, that is, for one country only.
CanRegister_PerCountry(caller, c, k) ==
    /\ ~registryPaused
    /\ ~IsRegistered(c, k)
    /\ countryRegistrar[k] = caller

\* The conditions of register, in the code's order. The zero registrar is nobody's
\* address, so a country without a registrar accepts nothing.
CanRegister(caller, c, k) ==
    /\ ~registryPaused
    /\ countryOf[c] = Unregistered
    /\ countryRegistrar[k] = caller

\* Mutant: the push to commitments is forgotten.
Register_NotListed(caller, c, k) ==
    /\ CanRegister(caller, c, k)
    /\ countryOf' = [countryOf EXCEPT ![c] = k]
    /\ UNCHANGED <<registryOwner, registryPaused, commitments, countryRegistrar>>

\* Registering for the zero code lists the commitment and leaves it unregistered.
Register(caller, c, k) ==
    /\ CanRegister(caller, c, k)
    /\ countryOf' = [countryOf EXCEPT ![c] = k]
    /\ commitments' = Append(commitments, c)
    /\ UNCHANGED <<registryOwner, registryPaused, countryRegistrar>>

\* NoAccount takes the country's registrar away.
SetCountryRegistrar(caller, k, a) ==
    /\ caller = registryOwner
    /\ countryRegistrar' = [countryRegistrar EXCEPT ![k] = a]
    /\ UNCHANGED <<registryOwner, registryPaused, countryOf, commitments>>

PauseRegistry(caller) ==
    /\ caller = registryOwner
    /\ ~registryPaused
    /\ registryPaused' = TRUE
    /\ UNCHANGED <<registryOwner, countryOf, commitments, countryRegistrar>>

UnpauseRegistry(caller) ==
    /\ caller = registryOwner
    /\ registryPaused
    /\ registryPaused' = FALSE
    /\ UNCHANGED <<registryOwner, countryOf, commitments, countryRegistrar>>

\* OwnableUpgradeable: transferOwnership, and renounceOwnership for NoAccount.
TransferRegistry(caller, to) ==
    /\ caller = registryOwner
    /\ to # registryOwner
    /\ registryOwner' = to
    /\ UNCHANGED <<registryPaused, countryOf, commitments, countryRegistrar>>

RegistryAdmin ==
    \E a \in Accounts :
        \/ \E k \in Appointed, b \in Accounts \cup {NoAccount} :
               SetCountryRegistrar(a, k, b)
        \/ PauseRegistry(a) \/ UnpauseRegistry(a)
        \/ \E b \in Accounts \cup {NoAccount} : TransferRegistry(a, b)

RegistryNext ==
    \/ \E a \in Accounts, c \in Commitments, k \in Codes : Register(a, c, k)
    \/ RegistryAdmin

RegistrySpec == RegistryInit /\ [][RegistryNext]_registryVars

-----------------------------------------------------------------------------
(* Correctness *)

RegistryTypeOK ==
    /\ registryOwner \in Accounts \cup {NoAccount}
    /\ registryPaused \in BOOLEAN
    /\ countryOf \in [Commitments -> Codes]
    /\ commitments \in Seq(Commitments)
    /\ countryRegistrar \in [Codes -> Accounts \cup {NoAccount}]

\* The list the Merkle tree of voters is built from (lines 36-37) names every
\* registered commitment once ("Each commitment can only be registered once", line
\* 18): totalVoters (line 113) counts voters, whatever registrars of several
\* countries submit. It needs that no registrar is appointed for the zero code.
CommitmentsListedOnce ==
    /\ Registered = {commitments[i] : i \in DOMAIN commitments}
    /\ \A i, j \in DOMAIN commitments : commitments[i] = commitments[j] => i = j

\* A registration is for good and for one country (lines 86, 93), through every
\* change of registrar and owner.
RegistrationIsPermanent ==
    [][\A c \in Registered : countryOf'[c] = countryOf[c]]_registryVars
==============================================================================
