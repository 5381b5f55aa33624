------------------------------ MODULE BabyJubjub ------------------------------
(***************************************************************************)
(* The twisted Edwards curve arithmetic of the homomorphic tally, written   *)
(* twice in the code: in HomomorphicTally.sol (the operators named _...)    *)
(* and in HomomorphicTallyService.ts. A point is a pair <<x, y>>. The field *)
(* and the curve are parameters: the code's prime has 254 bits, a run takes *)
(* a small one with a complete addition law (A a square, D not). A loop is  *)
(* a function from its rounds to their states.                             *)
(***************************************************************************)
EXTENDS Integers

CONSTANTS
    P,      \* BJJ_P, the field's prime
    A, D,   \* BJJ_A, BJJ_D
    G,      \* the generator
    Bits    \* bound: field elements are below 2^Bits

Neutral == <<0, 1>>
Points == (0..P-1) \X (0..P-1)

\* A x^2 + y^2 = 1 + D x^2 y^2
Curve ==
    {q \in Points : LET xx == q[1] * q[1]
                        yy == q[2] * q[2]
                    IN  (A * xx + yy) % P = (1 + D * ((xx * yy) % P)) % P}

ASSUME FieldAssumption ==
    /\ P \in Nat \ {0, 1} /\ A \in Nat /\ D \in Nat /\ Bits \in Nat
    /\ G \in Curve

\* f itself; TLC computes a table of its values once.
Table(f) == CHOOSE t \in {f} : t = f

Bit(n, i) == (n \div 2^i) % 2

-----------------------------------------------------------------------------
(* The contract *)

\* _modExp, _modInv: square and multiply, and Fermat's little theorem.
_modExp(base, exp) ==
    LET square[i \in 0..Bits] == IF i = 0 THEN base % P ELSE (square[i-1] * square[i-1]) % P
        result[i \in 0..Bits] ==
            IF i = 0 THEN 1
            ELSE IF Bit(exp, i-1) = 1 THEN (result[i-1] * square[i-1]) % P ELSE result[i-1]
    IN  result[Bits]

_modInv == Table([n \in 0..P-1 |-> _modExp(n, P - 2)])

\* The formula both sides use, given the inverses they divide with.
EdwardsSum(p, q, inverse) ==
    LET xx  == p[1] * q[1]
        yy  == p[2] * q[2]
        den == (D * ((xx * yy) % P)) % P
    IN  << ((p[1] * q[2] + p[2] * q[1]) * inverse[(1 + den) % P]) % P,
           ((yy - A * xx) * inverse[(1 - den) % P]) % P >>

SumOrOther(p, q, inverse) ==
    IF p = Neutral THEN q ELSE IF q = Neutral THEN p ELSE EdwardsSum(p, q, inverse)

_babyJubAdd(p, q) == SumOrOther(p, q, _modInv)

-----------------------------------------------------------------------------
(* The service *)

\* modInv: the loop of the extended Euclidean algorithm, one state per round.
modInv ==
    Table([n \in 0..P-1 |->
        LET round[i \in 0..2 * Bits] ==
                IF i = 0 THEN [oldR |-> n, r |-> P, oldS |-> 1, s |-> 0]
                ELSE LET b == round[i-1]
                         quot == b.oldR \div b.r
                     IN  IF b.r = 0 THEN b
                         ELSE [oldR |-> b.r, r |-> b.oldR - quot * b.r,
                               oldS |-> b.s, s |-> b.oldS - quot * b.s]
        IN  round[2 * Bits].oldS % P])

bjjAdd(p, q) == SumOrOther(p, q, modInv)

\* A round of double and add, from the lowest bit of s; none is left when s is 0.
DoubleAndAdd(b) ==
    IF b.s = 0 THEN b
    ELSE [r |-> IF b.s % 2 = 1 THEN bjjAdd(b.r, b.c) ELSE b.r,
          c |-> bjjAdd(b.c, b.c), s |-> b.s \div 2]

bjjScalarMul(scalar, p) ==
    LET round[i \in 0..scalar] ==
            IF i = 0 THEN [r |-> Neutral, c |-> p, s |-> scalar]
            ELSE LET b == round[i-1] IN DoubleAndAdd(b)
    IN  round[scalar].r

bjjNeg(p) == <<(P - p[1]) % P, p[2]>>

NotFound == -1          \* bsgs returns null

\* ceil(sqrt(maxK)) + 1
Steps(maxK) ==
    1 + (CHOOSE s \in 0..maxK : s * s >= maxK /\ \A t \in 0..s-1 : t * t < maxK)

\* q, q + p, q + p + p, ...: the points a loop of m rounds looks at.
Walk(q, p, m) ==
    LET step[i \in 0..m-1] == IF i = 0 THEN q ELSE bjjAdd(step[i-1], p)
    IN  step

\* Baby steps and giant steps: the first i, then j, with T - i*(m*G) = j*G; a
\* later point overwrites an earlier one in the table, and a sum beyond maxK is
\* passed over.
bsgs(T, maxK) ==
    LET m     == Steps(maxK)
        baby  == Walk(Neutral, G, m)
        giant == Walk(T, bjjNeg(bjjScalarMul(m, G)), m)
        Found == {x \in (0..m-1) \X (0..m-1) :
                      /\ baby[x[2]] = giant[x[1]]
                      /\ \A k \in x[2]+1..m-1 : baby[k] # giant[x[1]]}
        Hits  == {x[1] * m + x[2] : x \in Found} \cap 0..maxK
    IN  IF Hits = {} THEN NotFound ELSE CHOOSE k \in Hits : \A l \in Hits : k <= l

-----------------------------------------------------------------------------
(* What is known of the code's curve *)

\* P is a prime: both inverses are the inverse modulo P, and 0 for 0.
ASSUME InversesAgree == _modInv = modInv

\* The addition law is complete: the points of the curve form a group.
ASSUME CurveIsAGroup ==
    /\ \A p, q \in Curve : bjjAdd(p, q) \in Curve
    /\ \A p, q, r \in Curve : bjjAdd(bjjAdd(p, q), r) = bjjAdd(p, bjjAdd(q, r))
    /\ \A p \in Curve : bjjAdd(p, bjjNeg(p)) = Neutral

=============================================================================
