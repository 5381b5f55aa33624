------------------------------- MODULE MCAccess -------------------------------
(***************************************************************************)
(* Identity providers, the limiter and the governance routes. They share no *)
(* state, so a behaviour exercises one of them.                             *)
(***************************************************************************)
EXTENDS Identity, RateLimit, Governance, TLC

CONSTANTS ada, bob, c1
Nations == ada :> "GB" @@ bob :> "GB"
AgesInYears == ada :> 40 @@ bob :> 16
Limits == c1 :> 1

\* The limiter tells neither requests nor processes apart.
Symmetry == Permutations(Requests) \cup Permutations(Processes)

VARIABLE part

accessVars == <<part, idVars, limitVars, govVars>>

AccessInit ==
    /\ IdInit /\ LimitInit /\ GovInit
    /\ part \in {"Providers", "Limits", "Governance"}
    /\ part # "Providers" => env = [production |-> TRUE, devMode |-> FALSE, configured |-> TRUE]

AccessNext ==
    \/ part = "Providers" /\ Verify /\ UNCHANGED <<part, limitVars, govVars>>
    \/ part = "Limits" /\ LimitNext /\ UNCHANGED <<part, idVars, govVars>>
    \/ part = "Governance" /\ GovNext /\ UNCHANGED <<part, idVars, limitVars>>

AccessSpec == AccessInit /\ [][AccessNext]_accessVars

=============================================================================
