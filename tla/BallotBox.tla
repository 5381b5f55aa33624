------------------------------ MODULE BallotBox ------------------------------
(***************************************************************************)
(* What the vote ledger promises, with nothing of how it keeps the promise. *)
(*                                                                          *)
(* A ballot box holds ballots. Each ballot carries a nullifier, which may   *)
(* appear on one ballot only, in whatever poll it is dropped. Declaring a   *)
(* poll publishes the number of its ballots; no ballot enters a declared    *)
(* poll, so what was published stays the count.                             *)
(*                                                                          *)
(* The box has no clock, owner, pause switch, counters or list: those are   *)
(* how VoteLedger.sol implements it (module VoteLedger).                    *)
(***************************************************************************)
EXTENDS Integers, FiniteSets

CONSTANTS
    Polls,          \* the poll identifiers
    Options,        \* the option hashes
    Nullifiers      \* the nullifiers voters can derive

\* The result of a poll that has not been declared.
NotDeclared == -1

VARIABLES
    ballots,        \* the ballots cast so far
    declared        \* poll -> the published number of ballots, or NotDeclared

boxVars == <<ballots, declared>>

Ballot == [poll : Polls, nullifier : Nullifiers, option : Options]

BallotsIn(p) == {b \in ballots : b.poll = p}

BoxInit ==
    /\ ballots = {}
    /\ declared = [p \in Polls |-> NotDeclared]

Drop(b) ==
    /\ \A c \in ballots : c.nullifier # b.nullifier
    /\ declared[b.poll] = NotDeclared
    /\ ballots' = ballots \cup {b}
    /\ UNCHANGED declared

Declare(p) ==
    /\ declared[p] = NotDeclared
    /\ declared' = [declared EXCEPT ![p] = Cardinality(BallotsIn(p))]
    /\ UNCHANGED ballots

BoxNext ==
    \/ \E b \in Ballot : Drop(b)
    \/ \E p \in Polls : Declare(p)

BoxSpec == BoxInit /\ [][BoxNext]_boxVars
==============================================================================
