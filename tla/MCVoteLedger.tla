---------------------------- MODULE MCVoteLedger -----------------------------
(* VoteLedger on a small instance. *)
EXTENDS VoteLedger, TLC

Symmetry == Permutations(Nullifiers) \cup Permutations(Options)
            \cup Permutations(Polls) \cup Permutations(Accounts)
==============================================================================
