-------------------------- MODULE MCHomomorphicTally --------------------------
(* HomomorphicTally over a field of 7 numbers: one poll of two options, two    *)
(* voters whose votes may sum up to more than MAX_VOTERS. The 5 seconds that   *)
(* the timer adds are less than a tick.                                        *)
EXTENDS HomomorphicTally

MCGenerator == <<1, 2>>
MCPlaintext == [n1 |-> 1, n2 |-> 2]
MCNonce == [n1 |-> 3, n2 |-> 4]

===============================================================================
