------------------------------ MODULE SealedPoll ------------------------------
(***************************************************************************)
(* What the encrypted polls promise, with nothing of curves, ciphertexts,   *)
(* clocks, services and caches.                                             *)
(*                                                                          *)
(* Every option of a poll has a sum nobody sees. Votes add to it until the  *)
(* poll is closed, and never after. Then the sum may be declared, once, if  *)
(* it is within the limit; what has been declared is the sum, and stays.    *)
(***************************************************************************)
EXTENDS Integers

CONSTANTS
    Polls, Options,
    Numbers,        \* what one vote may add
    Limit           \* the largest sum that is declared

NotDeclared == -1

VARIABLES
    sum,            \* poll -> option -> the sealed sum
    closed,         \* the polls that take no more votes
    declared        \* poll -> option -> the published sum, or NotDeclared

sealedVars == <<sum, closed, declared>>

SealedInit ==
    /\ sum = [p \in Polls |-> [o \in Options |-> 0]]
    /\ closed = {}
    /\ declared = [p \in Polls |-> [o \in Options |-> NotDeclared]]

Add(p, o, n) ==
    /\ p \notin closed
    /\ sum' = [sum EXCEPT ![p][o] = @ + n]
    /\ UNCHANGED <<closed, declared>>

Close(ps) ==
    /\ closed' = closed \cup ps
    /\ UNCHANGED <<sum, declared>>

Declare(p, o) ==
    /\ p \in closed
    /\ declared[p][o] = NotDeclared
    /\ sum[p][o] <= Limit
    /\ declared' = [declared EXCEPT ![p][o] = sum[p][o]]
    /\ UNCHANGED <<sum, closed>>

SealedNext ==
    \/ \E p \in Polls, o \in Options, n \in Numbers : Add(p, o, n)
    \/ \E ps \in SUBSET Polls : Close(ps)
    \/ \E p \in Polls, o \in Options : Declare(p, o)

SealedSpec == SealedInit /\ [][SealedNext]_sealedVars

=============================================================================
