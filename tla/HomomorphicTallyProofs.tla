------------------------ MODULE HomomorphicTallyProofs ------------------------
(***************************************************************************)
(* What is proved of the encrypted polls: double and add computes the      *)
(* multiple of a point, the search for the logarithm finds a sum within    *)
(* MaxVoters and nothing else, decryption undoes encryption summed up over  *)
(* any votes, and a result that is posted is the plain sum.                *)
(***************************************************************************)
EXTENDS HomomorphicTally, FiniteSetTheorems, NaturalsInduction, WellFoundedInduction, TLAPS

-----------------------------------------------------------------------------
(* Numbers *)

\* A set of natural numbers has a least element.
LEMMA LeastElement ==
    ASSUME NEW S \in SUBSET Nat, S # {}
    PROVE  \E m \in S : \A k \in S : m <= k
<1> DEFINE R == {ss \in Nat \X Nat : ss[1] < ss[2]}
<1>1. IsWellFoundedOn(R, Nat)
    BY NatLessThanWellFounded DEF OpToRel
<1>2. \A k, m \in Nat : k < m => <<k, m>> \in R
    OBVIOUS
<1> HIDE DEF R
<1>3. PICK m \in S : \A k \in S : <<k, m>> \notin R
    BY <1>1, WFMin
<1>4. ASSUME NEW k \in S PROVE m <= k
    <2>1. ~(k < m)
        BY <1>2, <1>3
    <2>2. QED
        BY <2>1
<1>5. QED
    BY <1>4

\* Induction, for a set of numbers.
LEMMA AllNumbers ==
    ASSUME NEW S \in SUBSET Nat, 0 \in S, \A n \in S : n + 1 \in S
    PROVE  S = Nat
<1> SUFFICES ASSUME Nat \ S # {} PROVE FALSE
    OBVIOUS
<1>1. PICK m \in Nat \ S : \A k \in Nat \ S : m <= k
    BY LeastElement
<1>2. m # 0 /\ m - 1 \in Nat
    BY <1>1
<1>3. m - 1 \in S
    BY <1>1, <1>2
<1>4. m = (m - 1) + 1
    BY <1>1
<1>5. QED
    BY <1>1, <1>3, <1>4

-----------------------------------------------------------------------------
(* Loops *)

\* f is the first n rounds of a loop.
Rounds(f, n, S, base, step) ==
    f \in [0..n -> S] /\ f[0] = base /\ \A i \in 0..n-1 : f[i+1] = step[f[i]]

LEMMA RoundsExist ==
    ASSUME NEW S, NEW base \in S, NEW step \in [S -> S], NEW n \in Nat
    PROVE  \E f : Rounds(f, n, S, base, step)
<1> DEFINE Good == {k \in Nat : \E f : Rounds(f, k, S, base, step)}
<1>1. 0 \in Good
    <2> DEFINE f == [i \in 0..0 |-> base]
    <2>1. f \in [0..0 -> S] /\ f[0] = base /\ 0..0-1 = {}
        OBVIOUS
    <2>2. Rounds(f, 0, S, base, step)
        BY <2>1 DEF Rounds
    <2>3. QED
        BY <2>2
<1>2. ASSUME NEW k \in Good PROVE k + 1 \in Good
    <2>1. PICK f : Rounds(f, k, S, base, step)
        OBVIOUS
    <2> DEFINE g == [i \in 0..k+1 |-> IF i <= k THEN f[i] ELSE step[f[k]]]
    <2>2. f \in [0..k -> S] /\ f[0] = base /\ \A i \in 0..k-1 : f[i+1] = step[f[i]]
        BY <2>1 DEF Rounds
    <2>3. \A i \in 0..k+1 : g[i] \in S
        BY <2>2
    <2>4. g[0] = base
        BY <2>2
    <2>5. ASSUME NEW i \in 0..(k+1)-1 PROVE g[i+1] = step[g[i]]
        <3>1. CASE i = k
            BY <3>1
        <3>2. CASE i # k
            <4>1. i \in 0..k-1 /\ i + 1 <= k
                BY <3>2
            <4>2. QED
                BY <4>1, <2>2
        <3>3. QED
            BY <3>1, <3>2
    <2>6. g \in [0..k+1 -> S]
        BY <2>3
    <2> HIDE DEF g
    <2>7. Rounds(g, k + 1, S, base, step)
        BY <2>4, <2>5, <2>6 DEF Rounds
    <2>8. QED
        BY <2>7
<1> HIDE DEF Good
<1>3. Good \subseteq Nat
    BY DEF Good
<1>4. Good = Nat
    BY <1>1, <1>2, <1>3, AllNumbers
<1>5. QED
    BY <1>4 DEF Good

LEMMA RoundsUnique ==
    ASSUME NEW S, NEW base, NEW step, NEW m \in Nat, NEW n \in Nat,
           NEW f, NEW g, Rounds(f, m, S, base, step), Rounds(g, n, S, base, step),
           NEW i \in Nat, i <= m, i <= n
    PROVE  f[i] = g[i]
<1> DEFINE Same == {k \in Nat : k <= m /\ k <= n => f[k] = g[k]}
<1>1. /\ f[0] = base /\ \A k \in 0..m-1 : f[k+1] = step[f[k]]
      /\ g[0] = base /\ \A k \in 0..n-1 : g[k+1] = step[g[k]]
    BY DEF Rounds
<1>2. 0 \in Same
    BY <1>1
<1>3. ASSUME NEW k \in Same PROVE k + 1 \in Same
    <2>1. CASE k + 1 <= m /\ k + 1 <= n
        <3>1. k \in 0..m-1 /\ k \in 0..n-1 /\ k <= m /\ k <= n
            BY <2>1
        <3>2. QED
            BY <3>1, <1>1
    <2>2. QED
        BY <2>1
<1> HIDE DEF Same
<1>4. Same \subseteq Nat
    BY DEF Same
<1>5. Same = Nat
    BY <1>2, <1>3, <1>4, AllNumbers
<1>6. QED
    BY <1>5 DEF Same

\* A loop that never ends.
LEMMA Iteration ==
    ASSUME NEW S, NEW base \in S, NEW step \in [S -> S]
    PROVE  \E f \in [Nat -> S] : f[0] = base /\ \A n \in Nat : f[n+1] = step[f[n]]
<1> DEFINE Upto(n) == CHOOSE f : Rounds(f, n, S, base, step)
           all == [n \in Nat |-> Upto(n)[n]]
<1>1. \A n \in Nat : Rounds(Upto(n), n, S, base, step)
    BY RoundsExist
<1> HIDE DEF Upto
<1>2. all \in [Nat -> S] /\ all[0] = base
    BY <1>1 DEF Rounds
<1>3. ASSUME NEW n \in Nat PROVE all[n+1] = step[all[n]]
    <2>1. Rounds(Upto(n), n, S, base, step) /\ Rounds(Upto(n+1), n + 1, S, base, step)
        BY <1>1
    <2>2. Upto(n+1)[n] = Upto(n)[n]
        BY <2>1, RoundsUnique
    <2>3. n \in 0..(n+1)-1
        OBVIOUS
    <2>4. Upto(n+1)[n+1] = step[Upto(n+1)[n]]
        BY <2>1, <2>3 DEF Rounds
    <2>5. QED
        BY <2>2, <2>4
<1>4. QED
    BY <1>2, <1>3

-----------------------------------------------------------------------------
(* The curve *)

\* The neutral element lies on the curve; adding it changes nothing.
LEMMA NeutralPoint ==
    /\ Neutral \in Curve
    /\ \A p : bjjAdd(Neutral, p) = p /\ bjjAdd(p, Neutral) = p
<1>1. Neutral \in Points
    BY FieldAssumption DEF Neutral, Points
<1>2. Neutral[1] = 0 /\ Neutral[2] = 1
    BY DEF Neutral
<1>3. (A * (0 * 0) + 1 * 1) % P = (1 + D * (((0 * 0) * (1 * 1)) % P)) % P
    <2>1. P \in Nat /\ P > 1 /\ A \in Nat /\ D \in Nat
        BY FieldAssumption
    <2>2. 0 * 0 = 0 /\ 1 * 1 = 1 /\ 0 * 1 = 0
        OBVIOUS
    <2>3. A * 0 = 0 /\ D * 0 = 0
        BY <2>1
    <2>4. 0 % P = 0
        BY <2>1
    <2>5. QED
        BY <2>2, <2>3, <2>4
<1>4. Neutral \in Curve
    BY <1>1, <1>2, <1>3 DEF Curve
<1>5. QED
    BY <1>4 DEF bjjAdd, SumOrOther

LEMMA OnCurve ==
    ASSUME NEW p \in Curve
    PROVE  p \in Points /\ p = <<p[1], p[2]>> /\ p[1] \in 0..P-1 /\ p[2] \in 0..P-1
<1>1. p \in Points
    BY DEF Curve
<1>2. QED
    BY <1>1 DEF Points

\* The contract and the service add points alike.
LEMMA SameSum ==
    ASSUME NEW p, NEW q
    PROVE  _babyJubAdd(p, q) = bjjAdd(p, q)
BY InversesAgree DEF _babyJubAdd, bjjAdd

\* The formula is symmetric.
LEMMA Commutes ==
    ASSUME NEW p \in Curve, NEW q \in Curve
    PROVE  bjjAdd(p, q) = bjjAdd(q, p)
<1>1. /\ p[1] \in Int /\ p[2] \in Int /\ q[1] \in Int /\ q[2] \in Int
    BY OnCurve, FieldAssumption
<1>2. /\ p[1] * q[1] = q[1] * p[1] /\ p[2] * q[2] = q[2] * p[2]
      /\ p[1] * q[2] \in Int /\ p[2] * q[1] \in Int
      /\ p[1] * q[2] = q[2] * p[1] /\ p[2] * q[1] = q[1] * p[2]
    BY <1>1
<1>3. p[1] * q[2] + p[2] * q[1] = q[1] * p[2] + q[2] * p[1]
    BY <1>2
<1>4. EdwardsSum(p, q, modInv) = EdwardsSum(q, p, modInv)
    BY <1>2, <1>3 DEF EdwardsSum
<1>5. QED
    BY <1>4 DEF bjjAdd, SumOrOther

\* Sums and products.
LEMMA Products ==
    ASSUME NEW a \in Int, NEW b \in Int, NEW c \in Int
    PROVE  /\ a * b \in Int /\ a * b = b * a
           /\ a * (b + c) = a * b + a * c
           /\ a * (b * c) = b * (a * c)
           /\ a * (b * c) = (a * b) * c
<1>1. a * b \in Int /\ a * b = b * a
    OBVIOUS
<1>2. a * (b + c) = a * b + a * c
    OBVIOUS
<1>3. a * (b * c) = b * (a * c)
    OBVIOUS
<1>4. a * (b * c) = (a * b) * c
    OBVIOUS
<1>5. QED
    BY <1>1, <1>2, <1>3, <1>4

\* Quotient and remainder are unique.
LEMMA OneQuotient ==
    ASSUME NEW n \in Nat \ {0}, NEW q \in Int, NEW s \in Int, NEW r \in 0..n-1, NEW t \in 0..n-1,
           n * q + r = n * s + t
    PROVE  q = s /\ r = t
<1>1. ASSUME NEW a \in Int, NEW b \in Int, NEW c \in 0..n-1, NEW d \in 0..n-1,
             n * a + c = n * b + d, a < b
      PROVE  FALSE
    <2>1. n * (b - a) = n * b - n * a
        OBVIOUS
    <2>2. n * (b - a) = c - d
        BY <1>1, <2>1
    <2>3. b - a \in Nat /\ b - a >= 1
        BY <1>1
    <2>4. \A k \in Nat : k >= 1 => n * k >= n
        OBVIOUS
    <2>5. n * (b - a) >= n
        BY <2>3, <2>4
    <2>6. QED
        BY <2>2, <2>5
<1>2. q = s
    BY <1>1
<1>3. QED
    BY <1>2

\* A multiple of P more makes no difference modulo P.
LEMMA SameResidue ==
    ASSUME NEW u \in Int, NEW k \in Int
    PROVE  (u + P * k) % P = u % P
<1>1. P \in Nat \ {0}
    BY FieldAssumption
<1>2. \A a \in Int : a \div P \in Int /\ a % P \in 0..P-1 /\ a = P * (a \div P) + (a % P)
    BY <1>1
<1> DEFINE v == u + P * k
<1>3. v \in Int /\ v = P * (v \div P) + (v % P)
    BY <1>1, <1>2
<1>4. P * ((u \div P) + k) = P * (u \div P) + P * k
    BY <1>1, <1>2, Products
<1>5. v = P * ((u \div P) + k) + (u % P)
    <2>1. /\ P * (u \div P) \in Int /\ P * k \in Int /\ u % P \in Int
          /\ u = P * (u \div P) + (u % P)
        BY <1>1, <1>2
    <2>2. QED
        BY <1>4, <2>1
<1>6. /\ v \div P \in Int /\ (u \div P) + k \in Int
      /\ v % P \in 0..P-1 /\ u % P \in 0..P-1
      /\ P * (v \div P) + (v % P) = P * ((u \div P) + k) + (u % P)
    BY <1>2, <1>3, <1>5
<1> HIDE DEF v
<1>7. v % P = u % P
    BY <1>1, <1>6, OneQuotient
<1>8. QED
    BY <1>7 DEF v

\* The inverse of a point of the curve lies on it.
LEMMA NegationOnCurve ==
    ASSUME NEW p \in Curve
    PROVE  bjjNeg(p) \in Curve
<1> DEFINE x == p[1]
           yy == p[2] * p[2]
           x2 == (P - x) % P
<1>1. /\ x \in 0..P-1 /\ p[2] \in 0..P-1
      /\ (A * (x * x) + yy) % P = (1 + D * (((x * x) * yy) % P)) % P
    BY OnCurve DEF Curve
<1>2. P \in Nat \ {0} /\ A \in Nat /\ D \in Nat
    BY FieldAssumption
<1>3. PICK k \in Int : x2 * x2 = x * x + P * k
    <2>1. CASE x = 0
        <3>1. x2 = 0
            BY <1>2, <2>1
        <3>2. x2 * x2 = x * x + P * 0
            BY <1>2, <2>1, <3>1
        <3>3. QED
            BY <3>2
    <2>2. CASE x # 0
        <3>1. x2 = P - x
            BY <1>1, <1>2, <2>2
        <3>2. (P - x) * (P - x) = x * x + P * (P - 2 * x)
            BY <1>1, <1>2
        <3>3. P - 2 * x \in Int
            BY <1>1, <1>2
        <3>4. QED
            BY <3>1, <3>2, <3>3
    <2>3. QED
        BY <2>1, <2>2
<1>4. x * x \in Int /\ yy \in Int /\ x2 \in 0..P-1 /\ x2 * x2 \in Int
    BY <1>1, <1>2
<1> HIDE DEF x, yy, x2
<1>5. (A * (x2 * x2) + yy) % P = (A * (x * x) + yy) % P
    <2>1. A * (x2 * x2) + yy = (A * (x * x) + yy) + P * (A * k)
        <3>1. A * (x * x + P * k) = A * (x * x) + A * (P * k)
            BY <1>2, <1>3, <1>4, Products
        <3>2. A * (P * k) = P * (A * k)
            BY <1>2, <1>3, Products
        <3>3. A * (x * x) \in Int /\ P * (A * k) \in Int
            BY <1>2, <1>3, <1>4
        <3>4. QED
            BY <1>3, <1>4, <3>1, <3>2, <3>3
    <2>2. A * (x * x) + yy \in Int /\ A * k \in Int
        BY <1>2, <1>3, <1>4
    <2>3. QED
        BY <2>1, <2>2, SameResidue
<1>6. ((x2 * x2) * yy) % P = ((x * x) * yy) % P
    <2>1. (x2 * x2) * yy = (x * x) * yy + P * (k * yy)
        BY <1>2, <1>3, <1>4, Products
    <2>2. (x * x) * yy \in Int /\ k * yy \in Int
        BY <1>3, <1>4
    <2>3. QED
        BY <2>1, <2>2, SameResidue
<1>7. bjjNeg(p) = <<x2, p[2]>> /\ bjjNeg(p) \in Points
    BY <1>1, <1>4 DEF bjjNeg, Points, x2, x
<1>8. (A * (x2 * x2) + yy) % P = (1 + D * (((x2 * x2) * yy) % P)) % P
    BY <1>1, <1>5, <1>6 DEF x, yy
<1> DEFINE q == bjjNeg(p)
<1>9. q \in Points /\ q[1] = x2 /\ q[2] * q[2] = yy
    BY <1>7 DEF yy
<1> HIDE DEF q
<1>10. q \in Curve
    BY <1>8, <1>9 DEF Curve
<1>11. QED
    BY <1>10 DEF q

-----------------------------------------------------------------------------
(* Multiples of a point *)

\* f holds the multiples of p.
AreMultiples(f, p) ==
    f \in [Nat -> Curve] /\ f[0] = Neutral /\ \A n \in Nat : f[n+1] = bjjAdd(f[n], p)

\* p + ... + p, n times
Times(n, p) == (CHOOSE f : AreMultiples(f, p))[n]

LEMMA TimesDef ==
    ASSUME NEW p \in Curve
    PROVE  /\ Times(0, p) = Neutral
           /\ \A n \in Nat : Times(n, p) \in Curve /\ Times(n + 1, p) = bjjAdd(Times(n, p), p)
<1> DEFINE step == [q \in Curve |-> bjjAdd(q, p)]
<1>1. step \in [Curve -> Curve]
    BY CurveIsAGroup
<1>2. \A q \in Curve : step[q] = bjjAdd(q, p)
    OBVIOUS
<1> HIDE DEF step
<1>3. PICK f \in [Nat -> Curve] : f[0] = Neutral /\ \A n \in Nat : f[n+1] = step[f[n]]
    <2>1. Neutral \in Curve
        BY NeutralPoint
    <2>2. QED
        BY <1>1, <2>1, Iteration, SMTT(30)
<1>4. AreMultiples(f, p)
    BY <1>2, <1>3 DEF AreMultiples
<1> DEFINE g == CHOOSE h : AreMultiples(h, p)
<1>5. AreMultiples(g, p)
    BY <1>4
<1>6. \A n : Times(n, p) = g[n]
    BY DEF Times
<1> HIDE DEF g
<1>7. QED
    BY <1>5, <1>6 DEF AreMultiples

\* The group law, as facts on points.
LEMMA Group ==
    ASSUME NEW p \in Curve, NEW q \in Curve, NEW r \in Curve
    PROVE  /\ bjjAdd(p, q) \in Curve /\ bjjAdd(p, q) = bjjAdd(q, p)
           /\ bjjAdd(bjjAdd(p, q), r) = bjjAdd(p, bjjAdd(q, r))
           /\ bjjAdd(p, Neutral) = p /\ bjjAdd(Neutral, p) = p /\ Neutral \in Curve
           /\ bjjNeg(p) \in Curve /\ bjjAdd(p, bjjNeg(p)) = Neutral
BY CurveIsAGroup, Commutes, NeutralPoint, NegationOnCurve

\* Four points: the pairs can be added up either way.
LEMMA Interchange ==
    ASSUME NEW a \in Curve, NEW b \in Curve, NEW c \in Curve, NEW d \in Curve
    PROVE  bjjAdd(bjjAdd(a, b), bjjAdd(c, d)) = bjjAdd(bjjAdd(a, c), bjjAdd(b, d))
<1>1. bjjAdd(c, d) \in Curve /\ bjjAdd(b, d) \in Curve /\ bjjAdd(b, c) \in Curve
    BY Group
<1>2. bjjAdd(bjjAdd(a, b), bjjAdd(c, d)) = bjjAdd(a, bjjAdd(b, bjjAdd(c, d)))
    BY <1>1, Group
<1>3. bjjAdd(b, bjjAdd(c, d)) = bjjAdd(bjjAdd(b, c), d)
    BY Group
<1>4. bjjAdd(bjjAdd(b, c), d) = bjjAdd(bjjAdd(c, b), d)
    BY Group
<1>5. bjjAdd(bjjAdd(c, b), d) = bjjAdd(c, bjjAdd(b, d))
    BY Group
<1>6. bjjAdd(a, bjjAdd(c, bjjAdd(b, d))) = bjjAdd(bjjAdd(a, c), bjjAdd(b, d))
    BY <1>1, Group
<1>7. QED
    BY <1>2, <1>3, <1>4, <1>5, <1>6

LEMMA TimesOne ==
    ASSUME NEW p \in Curve
    PROVE  Times(1, p) = p
<1>1. Times(0 + 1, p) = bjjAdd(Times(0, p), p)
    BY TimesDef
<1>2. QED
    BY <1>1, TimesDef, NeutralPoint

\* (m + n) p = m p + n p
LEMMA TimesAdd ==
    ASSUME NEW p \in Curve, NEW m \in Nat, NEW n \in Nat
    PROVE  Times(m + n, p) = bjjAdd(Times(m, p), Times(n, p))
<1> DEFINE Good == {k \in Nat : Times(m + k, p) = bjjAdd(Times(m, p), Times(k, p))}
<1>1. 0 \in Good
    <2>1. m + 0 = m
        OBVIOUS
    <2>2. QED
        BY <2>1, TimesDef, Group
<1>2. ASSUME NEW k \in Good PROVE k + 1 \in Good
    <2>1. k \in Nat /\ Times(m + k, p) = bjjAdd(Times(m, p), Times(k, p))
        OBVIOUS
    <2>2. m + (k + 1) = (m + k) + 1 /\ m + k \in Nat
        BY <2>1
    <2>3. Times((m + k) + 1, p) = bjjAdd(Times(m + k, p), p)
        BY <2>2, TimesDef
    <2>4. Times(m, p) \in Curve /\ Times(k, p) \in Curve
        BY <2>1, TimesDef
    <2>5. bjjAdd(bjjAdd(Times(m, p), Times(k, p)), p) = bjjAdd(Times(m, p), bjjAdd(Times(k, p), p))
        BY <2>4, Group
    <2>6. Times(k + 1, p) = bjjAdd(Times(k, p), p)
        BY <2>1, TimesDef
    <2>7. QED
        BY <2>1, <2>2, <2>3, <2>5, <2>6
<1> HIDE DEF Good
<1>3. Good = Nat
    <2>1. Good \subseteq Nat
        BY DEF Good
    <2>2. QED
        BY <1>1, <1>2, <2>1, AllNumbers
<1>4. QED
    BY <1>3 DEF Good

\* n (p + q) = n p + n q
LEMMA TimesSum ==
    ASSUME NEW p \in Curve, NEW q \in Curve, NEW n \in Nat
    PROVE  Times(n, bjjAdd(p, q)) = bjjAdd(Times(n, p), Times(n, q))
<1> DEFINE Good == {k \in Nat : Times(k, bjjAdd(p, q)) = bjjAdd(Times(k, p), Times(k, q))}
<1>1. bjjAdd(p, q) \in Curve
    BY Group
<1>2. 0 \in Good
    BY <1>1, TimesDef, NeutralPoint
<1>3. ASSUME NEW k \in Good PROVE k + 1 \in Good
    <2>1. k \in Nat /\ Times(k, bjjAdd(p, q)) = bjjAdd(Times(k, p), Times(k, q))
        OBVIOUS
    <2>2. Times(k, p) \in Curve /\ Times(k, q) \in Curve
        BY <2>1, TimesDef
    <2>3. Times(k + 1, bjjAdd(p, q)) = bjjAdd(Times(k, bjjAdd(p, q)), bjjAdd(p, q))
        BY <1>1, <2>1, TimesDef
    <2>4. bjjAdd(bjjAdd(Times(k, p), Times(k, q)), bjjAdd(p, q))
            = bjjAdd(bjjAdd(Times(k, p), p), bjjAdd(Times(k, q), q))
        BY <2>2, Interchange
    <2>5. Times(k + 1, p) = bjjAdd(Times(k, p), p) /\ Times(k + 1, q) = bjjAdd(Times(k, q), q)
        BY <2>1, TimesDef
    <2>6. QED
        BY <2>1, <2>3, <2>4, <2>5
<1> HIDE DEF Good
<1>4. Good = Nat
    <2>1. Good \subseteq Nat
        BY DEF Good
    <2>2. QED
        BY <1>2, <1>3, <2>1, AllNumbers
<1>5. QED
    BY <1>4 DEF Good

\* n (m p) = (n m) p
LEMMA TimesTimes ==
    ASSUME NEW p \in Curve, NEW m \in Nat, NEW n \in Nat
    PROVE  Times(n, Times(m, p)) = Times(n * m, p)
<1> DEFINE Good == {k \in Nat : Times(k, Times(m, p)) = Times(k * m, p)}
<1>1. Times(m, p) \in Curve
    BY TimesDef
<1>2. 0 \in Good
    <2>1. 0 * m = 0
        OBVIOUS
    <2>2. QED
        BY <1>1, <2>1, TimesDef
<1>3. ASSUME NEW k \in Good PROVE k + 1 \in Good
    <2>1. k \in Nat /\ Times(k, Times(m, p)) = Times(k * m, p)
        OBVIOUS
    <2>2. k * m \in Nat /\ (k + 1) * m = k * m + m
        BY <2>1
    <2>3. Times(k + 1, Times(m, p)) = bjjAdd(Times(k, Times(m, p)), Times(m, p))
        BY <1>1, <2>1, TimesDef
    <2>4. Times(k * m + m, p) = bjjAdd(Times(k * m, p), Times(m, p))
        BY <2>2, TimesAdd
    <2>5. QED
        BY <2>1, <2>2, <2>3, <2>4
<1> HIDE DEF Good
<1>4. Good = Nat
    <2>1. Good \subseteq Nat
        BY DEF Good
    <2>2. QED
        BY <1>2, <1>3, <2>1, AllNumbers
<1>5. QED
    BY <1>4 DEF Good

-----------------------------------------------------------------------------
(* Double and add *)

LoopStates == [r : Curve, c : Curve, s : Nat]

\* What the loop still has to add up.
Goal(b) == bjjAdd(b.r, Times(b.s, b.c))

LEMMA Doubled ==
    ASSUME NEW p \in Curve, NEW n \in Nat
    PROVE  Times(n * 2, p) = Times(n, bjjAdd(p, p))
<1>1. Times(1 + 1, p) = bjjAdd(Times(1, p), p)
    BY TimesDef
<1>2. Times(2, p) = bjjAdd(p, p)
    BY <1>1, TimesOne
<1>3. QED
    BY <1>2, TimesTimes

\* A round keeps the goal and brings s closer to 0.
LEMMA RoundKeepsGoal ==
    ASSUME NEW b \in LoopStates
    PROVE  /\ DoubleAndAdd(b) \in LoopStates
           /\ Goal(DoubleAndAdd(b)) = Goal(b)
           /\ b.s = 0 => DoubleAndAdd(b).s = 0
           /\ b.s # 0 => DoubleAndAdd(b).s < b.s
<1>1. b.r \in Curve /\ b.c \in Curve /\ b.s \in Nat
    BY DEF LoopStates
<1>2. CASE b.s = 0
    <2>1. DoubleAndAdd(b) = b
        BY <1>2 DEF DoubleAndAdd
    <2>2. QED
        BY <1>2, <2>1
<1>3. CASE b.s # 0
    <2> DEFINE h == b.s \div 2
               cc == bjjAdd(b.c, b.c)
    <2>1. h \in Nat /\ h < b.s /\ b.s % 2 \in {0, 1} /\ b.s = h * 2 + (b.s % 2)
        BY <1>1, <1>3
    <2>2. cc \in Curve /\ Times(h, cc) \in Curve /\ bjjAdd(b.r, b.c) \in Curve
        BY <1>1, <2>1, Group, TimesDef
    <2> HIDE DEF h
    <2>3. Times(h * 2, b.c) = Times(h, cc)
        BY <1>1, <2>1, Doubled
    <2>4. CASE b.s % 2 = 1
        <3>1. DoubleAndAdd(b) = [r |-> bjjAdd(b.r, b.c), c |-> cc, s |-> h]
            BY <1>3, <2>4 DEF DoubleAndAdd, h
        <3>2. b.s = h * 2 + 1 /\ h * 2 \in Nat
            BY <2>1, <2>4
        <3>3. Times(b.s, b.c) = bjjAdd(Times(h, cc), b.c)
            BY <1>1, <2>3, <3>2, TimesDef
        <3>4. bjjAdd(Times(h, cc), b.c) = bjjAdd(b.c, Times(h, cc))
            BY <1>1, <2>2, Group
        <3> HIDE DEF cc
        <3>5. bjjAdd(b.r, bjjAdd(b.c, Times(h, cc))) = bjjAdd(bjjAdd(b.r, b.c), Times(h, cc))
            <4>1. \A p, q, r \in Curve : bjjAdd(bjjAdd(p, q), r) = bjjAdd(p, bjjAdd(q, r))
                BY CurveIsAGroup
            <4>2. QED
                BY <1>1, <2>2, <4>1
        <3>6. Goal(DoubleAndAdd(b)) = bjjAdd(bjjAdd(b.r, b.c), Times(h, cc))
            BY <3>1 DEF Goal
        <3>7. Goal(b) = bjjAdd(b.r, bjjAdd(b.c, Times(h, cc)))
            BY <3>3, <3>4 DEF Goal
        <3>8. QED
            BY <1>3, <2>1, <2>2, <3>1, <3>5, <3>6, <3>7 DEF LoopStates
    <2>5. CASE b.s % 2 = 0
        <3>1. DoubleAndAdd(b) = [r |-> b.r, c |-> cc, s |-> h]
            BY <1>3, <2>5 DEF DoubleAndAdd, h
        <3>2. b.s = h * 2
            BY <2>1, <2>5
        <3> HIDE DEF cc
        <3>3. Goal(DoubleAndAdd(b)) = Goal(b)
            BY <2>3, <3>1, <3>2 DEF Goal
        <3>4. QED
            BY <1>1, <1>3, <2>1, <2>2, <3>1, <3>3 DEF LoopStates
    <2>6. QED
        BY <2>1, <2>4, <2>5
<1>4. QED
    BY <1>2, <1>3

\* bjjScalarMul: the loop of the service computes the multiple of the point, for
\* every scalar and every point of the curve.
THEOREM ScalarMulIsTimes ==
    ASSUME NEW n \in Nat, NEW p \in Curve
    PROVE  bjjScalarMul(n, p) = Times(n, p)
<1> DEFINE base == [r |-> Neutral, c |-> p, s |-> n]
           step == [b \in LoopStates |-> DoubleAndAdd(b)]
           Round(f, i) == IF i = 0 THEN base ELSE DoubleAndAdd(f[i-1])
           round == CHOOSE f : f = [i \in 0..n |-> Round(f, i)]
<1>1. bjjScalarMul(n, p) = round[n].r
    BY DEF bjjScalarMul
<1>2. base \in LoopStates /\ Goal(base) = Times(n, p)
    BY Group, TimesDef DEF LoopStates, Goal
<1>3. step \in [LoopStates -> LoopStates]
    BY RoundKeepsGoal
<1>4. \A b \in LoopStates : step[b] = DoubleAndAdd(b)
    OBVIOUS
<1>5. base.s = n
    OBVIOUS
<1> HIDE DEF base, step
<1>6. PICK f : Rounds(f, n, LoopStates, base, step)
    BY <1>2, <1>3, RoundsExist
<1>7. /\ f \in [0..n -> LoopStates] /\ f[0] = base
      /\ \A i \in 0..n-1 : f[i] \in LoopStates /\ f[i+1] = DoubleAndAdd(f[i])
    BY <1>4, <1>6 DEF Rounds
<1>8. f = [i \in 0..n |-> Round(f, i)]
    <2>1. ASSUME NEW i \in 0..n PROVE f[i] = Round(f, i)
        <3>1. CASE i # 0
            <4>1. i - 1 \in 0..n-1 /\ (i - 1) + 1 = i
                BY <3>1
            <4>2. QED
                BY <3>1, <4>1, <1>7
        <3>2. QED
            BY <1>7, <3>1
    <2> HIDE DEF Round
    <2>2. QED
        BY <1>7, <2>1
<1> HIDE DEF Round
<1>9. round = [i \in 0..n |-> Round(round, i)]
    BY <1>8
<1> HIDE DEF round
<1> DEFINE Good == {i \in Nat : i <= n =>
                        /\ round[i] \in LoopStates /\ Goal(round[i]) = Times(n, p)
                        /\ round[i].s = 0 \/ round[i].s + i <= n}
<1>10. 0 \in Good
    <2>1. round[0] = base
        BY <1>9 DEF Round
    <2>2. QED
        BY <1>2, <1>5, <2>1
<1>11. ASSUME NEW k \in Good PROVE k + 1 \in Good
    <2>1. CASE k + 1 <= n
        <3>1. k \in Nat /\ round[k] \in LoopStates /\ Goal(round[k]) = Times(n, p)
                /\ (round[k].s = 0 \/ round[k].s + k <= n)
            BY <2>1
        <3>2. round[k+1] = DoubleAndAdd(round[k])
            <4>1. k + 1 \in 0..n /\ k + 1 # 0 /\ (k + 1) - 1 = k
                BY <2>1, <3>1
            <4>2. round[k+1] = Round(round, k + 1)
                BY <1>9, <4>1
            <4>3. QED
                BY <4>1, <4>2 DEF Round
        <3>3. round[k].s \in Nat /\ round[k+1].s \in Nat
            BY <3>1, <3>2, RoundKeepsGoal DEF LoopStates
        <3>4. round[k+1].s = 0 \/ round[k+1].s + (k + 1) <= n
            BY <3>1, <3>2, <3>3, RoundKeepsGoal
        <3>5. QED
            BY <3>1, <3>2, <3>4, RoundKeepsGoal
    <2>2. QED
        BY <2>1
<1> HIDE DEF Good
<1>12. Good = Nat
    <2>1. Good \subseteq Nat
        BY DEF Good
    <2>2. QED
        BY <1>10, <1>11, <2>1, AllNumbers
<1>13. round[n] \in LoopStates /\ Goal(round[n]) = Times(n, p) /\ (round[n].s = 0 \/ round[n].s + n <= n)
    BY <1>12 DEF Good
<1>14. round[n].s = 0 /\ round[n].r \in Curve /\ round[n].c \in Curve
    BY <1>13 DEF LoopStates
<1>15. Goal(round[n]) = round[n].r
    BY <1>14, TimesDef, Group DEF Goal
<1>16. QED
    BY <1>1, <1>13, <1>15

-----------------------------------------------------------------------------
(* Baby steps and giant steps *)

\* The number of rounds: one more than the square root, rounded up.
LEMMA StepsSquare ==
    ASSUME NEW maxK \in Nat
    PROVE  /\ Steps(maxK) \in Nat \ {0} /\ Steps(maxK) - 1 <= maxK
           /\ maxK < Steps(maxK) * Steps(maxK)
<1> DEFINE Enough == {s \in Nat : s * s >= maxK}
           Root(s) == s * s >= maxK /\ \A t \in 0..s-1 : t * t < maxK
<1>1. maxK \in Enough
    <2>1. maxK = 0 \/ maxK >= 1
        OBVIOUS
    <2>2. maxK * maxK >= maxK
        BY <2>1
    <2>3. QED
        BY <2>2
<1>2. PICK s \in Enough : \A t \in Enough : s <= t
    BY <1>1, LeastElement
<1>3. s \in 0..maxK /\ Root(s)
    <2>1. s \in 0..maxK
        BY <1>1, <1>2
    <2>2. ASSUME NEW t \in 0..s-1 PROVE t * t < maxK
        <3>1. t \in Nat /\ t < s /\ t * t \in Nat
            BY <2>1
        <3>2. t \notin Enough
            BY <1>2, <3>1
        <3>3. QED
            BY <3>1, <3>2
    <2>3. QED
        BY <1>2, <2>1, <2>2
<1> DEFINE r == CHOOSE x \in 0..maxK : Root(x)
<1>4. r \in 0..maxK /\ Root(r)
    BY <1>3
<1>5. Steps(maxK) = 1 + r
    BY DEF Steps
<1> HIDE DEF r
<1>6. r \in Nat /\ r * r >= maxK /\ r * r \in Nat /\ (1 + r) * (1 + r) = r * r + 2 * r + 1
    BY <1>4
<1>7. QED
    BY <1>4, <1>5, <1>6

\* The i-th point of a walk.
LEMMA WalkIs ==
    ASSUME NEW q \in Curve, NEW p \in Curve, NEW m \in Nat \ {0}, NEW i \in 0..m-1
    PROVE  Walk(q, p, m)[i] = bjjAdd(q, Times(i, p))
<1> DEFINE move == [b \in Curve |-> bjjAdd(b, p)]
           Point(f, k) == IF k = 0 THEN q ELSE bjjAdd(f[k-1], p)
           step == CHOOSE f : f = [k \in 0..m-1 |-> Point(f, k)]
<1>1. Walk(q, p, m) = step
    BY DEF Walk
<1>2. move \in [Curve -> Curve]
    BY Group
<1>3. \A b \in Curve : move[b] = bjjAdd(b, p)
    OBVIOUS
<1> HIDE DEF move
<1>4. m - 1 \in Nat
    OBVIOUS
<1>5. PICK f : Rounds(f, m - 1, Curve, q, move)
    BY <1>2, <1>4, RoundsExist
<1>6. /\ f \in [0..m-1 -> Curve] /\ f[0] = q
      /\ \A k \in 0..(m-1)-1 : f[k] \in Curve /\ f[k+1] = bjjAdd(f[k], p)
    BY <1>3, <1>5 DEF Rounds
<1>7. f = [k \in 0..m-1 |-> Point(f, k)]
    <2>1. ASSUME NEW k \in 0..m-1 PROVE f[k] = Point(f, k)
        <3>1. CASE k # 0
            <4>1. k - 1 \in 0..(m-1)-1 /\ (k - 1) + 1 = k
                BY <3>1
            <4>2. QED
                BY <3>1, <4>1, <1>6
        <3>2. QED
            BY <1>6, <3>1
    <2> HIDE DEF Point
    <2>2. QED
        BY <1>6, <2>1
<1> HIDE DEF Point
<1>8. step = [k \in 0..m-1 |-> Point(step, k)]
    BY <1>7
<1> HIDE DEF step
<1> DEFINE Good == {k \in Nat : k <= m - 1 => step[k] = bjjAdd(q, Times(k, p))}
<1>9. 0 \in Good
    <2>1. step[0] = q
        BY <1>8 DEF Point
    <2>2. QED
        BY <2>1, TimesDef, Group
<1>10. ASSUME NEW k \in Good PROVE k + 1 \in Good
    <2>1. CASE k + 1 <= m - 1
        <3>1. k \in Nat /\ step[k] = bjjAdd(q, Times(k, p))
            BY <2>1
        <3>2. step[k+1] = bjjAdd(step[k], p)
            <4>1. k + 1 \in 0..m-1 /\ k + 1 # 0 /\ (k + 1) - 1 = k
                BY <2>1, <3>1
            <4>2. step[k+1] = Point(step, k + 1)
                BY <1>8, <4>1
            <4>3. QED
                BY <4>1, <4>2 DEF Point
        <3>3. Times(k, p) \in Curve /\ Times(k + 1, p) = bjjAdd(Times(k, p), p)
            BY <3>1, TimesDef
        <3>4. bjjAdd(bjjAdd(q, Times(k, p)), p) = bjjAdd(q, bjjAdd(Times(k, p), p))
            BY <3>3, Group
        <3>5. QED
            BY <3>1, <3>2, <3>3, <3>4
    <2>2. QED
        BY <2>1
<1> HIDE DEF Good
<1>11. Good = Nat
    <2>1. Good \subseteq Nat
        BY DEF Good
    <2>2. QED
        BY <1>9, <1>10, <2>1, AllNumbers
<1>12. QED
    BY <1>1, <1>11 DEF Good

\* A giant step of m and a baby step meet at T = (i m + j) G, and only there.
LEMMA StepsMeet ==
    ASSUME NEW T \in Curve, NEW m \in Nat \ {0}, NEW i \in 0..m-1, NEW j \in 0..m-1
    PROVE  Walk(Neutral, G, m)[j] = Walk(T, bjjNeg(bjjScalarMul(m, G)), m)[i]
              <=> T = Times(i * m + j, G)
<1> DEFINE mG == Times(m, G)
           back == bjjNeg(mG)
           there == Times(i * m, G)
           away == Times(i, back)
           jG == Times(j, G)
<1>1. G \in Curve /\ Neutral \in Curve /\ i \in Nat /\ j \in Nat /\ i * m \in Nat /\ i * m + j \in Nat
    BY FieldAssumption, NeutralPoint
<1>2. mG \in Curve /\ there \in Curve /\ jG \in Curve
    BY <1>1, TimesDef
<1>3. back \in Curve
    BY <1>2, Group
<1>4. away \in Curve
    BY <1>1, <1>3, TimesDef
<1>5. bjjScalarMul(m, G) = mG
    BY <1>1, ScalarMulIsTimes
<1>6. bjjAdd(there, away) = Neutral
    <2>1. there = Times(i, mG)
        BY <1>1, TimesTimes
    <2>2. Times(i, bjjAdd(mG, back)) = bjjAdd(Times(i, mG), away)
        BY <1>1, <1>2, <1>3, TimesSum
    <2>3. bjjAdd(mG, back) = Neutral
        BY <1>2, Group
    <2>4. Times(i, Times(0, G)) = Times(i * 0, G) /\ i * 0 = 0
        BY <1>1, TimesTimes
    <2>5. Times(i, Neutral) = Neutral
        BY <1>1, <2>4, TimesDef
    <2>6. QED
        BY <2>1, <2>2, <2>3, <2>5
<1>7. Times(i * m + j, G) = bjjAdd(there, jG)
    BY <1>1, TimesAdd
<1>8. Walk(Neutral, G, m)[j] = jG
    <2>1. Walk(Neutral, G, m)[j] = bjjAdd(Neutral, jG)
        BY <1>1, WalkIs
    <2>2. QED
        BY <1>2, <2>1, Group
<1>9. Walk(T, bjjNeg(bjjScalarMul(m, G)), m)[i] = bjjAdd(T, away)
    BY <1>3, <1>5, WalkIs
<1> HIDE DEF mG, back, there, away, jG
<1>10. ASSUME jG = bjjAdd(T, away) PROVE T = bjjAdd(there, jG)
    <2>1. bjjAdd(there, bjjAdd(T, away)) = bjjAdd(there, bjjAdd(away, T))
        BY <1>4, Group
    <2>2. bjjAdd(there, bjjAdd(away, T)) = bjjAdd(bjjAdd(there, away), T)
        BY <1>2, <1>4, Group
    <2>3. bjjAdd(Neutral, T) = T
        BY Group
    <2>4. QED
        BY <1>6, <1>10, <2>1, <2>2, <2>3
<1>11. ASSUME T = bjjAdd(there, jG) PROVE jG = bjjAdd(T, away)
    <2>1. bjjAdd(there, jG) = bjjAdd(jG, there)
        BY <1>2, Group
    <2>2. bjjAdd(bjjAdd(jG, there), away) = bjjAdd(jG, bjjAdd(there, away))
        BY <1>2, <1>4, Group
    <2>3. bjjAdd(jG, Neutral) = jG
        BY <1>2, Group
    <2>4. QED
        BY <1>6, <1>11, <2>1, <2>2, <2>3
<1>12. QED
    BY <1>7, <1>8, <1>9, <1>10, <1>11

\* Multiples of G that the search may confuse: none.
ToldApart(S) == \A h, k \in S : Times(h, G) = Times(k, G) => h = k

\* bsgs: the search returns k for k G whenever k is within the bound, and null
\* for every other multiple, as long as the multiples are told apart.
THEOREM SearchIsExact ==
    ASSUME NEW maxK \in Nat, NEW k \in Nat, ToldApart(0..maxK \cup {k})
    PROVE  bsgs(Times(k, G), maxK) = IF k <= maxK THEN k ELSE NotFound
<1> DEFINE T == Times(k, G)
           m == Steps(maxK)
           baby == Walk(Neutral, G, m)
           giant == Walk(T, bjjNeg(bjjScalarMul(m, G)), m)
           Found == {x \in (0..m-1) \X (0..m-1) :
                         /\ baby[x[2]] = giant[x[1]]
                         /\ \A l \in x[2]+1..m-1 : baby[l] # giant[x[1]]}
           Hits == {x[1] * m + x[2] : x \in Found} \cap 0..maxK
<1>1. bsgs(T, maxK) = IF Hits = {} THEN NotFound ELSE CHOOSE h \in Hits : \A l \in Hits : h <= l
    BY DEF bsgs
<1>2. m \in Nat \ {0} /\ m - 1 <= maxK /\ maxK < m * m
    BY StepsSquare
<1>3. G \in Curve /\ T \in Curve
    BY FieldAssumption, TimesDef
<1>4. \A i, j \in 0..m-1 : baby[j] = giant[i] <=> T = Times(i * m + j, G)
    BY <1>2, <1>3, StepsMeet
<1>5. \A j \in 0..m-1 : baby[j] = Times(j, G)
    <2>1. ASSUME NEW j \in 0..m-1 PROVE baby[j] = Times(j, G)
        <3>1. j \in Nat /\ Neutral \in Curve
            BY NeutralPoint
        <3>2. Times(j, G) \in Curve
            BY <1>3, <3>1, TimesDef
        <3>3. baby[j] = bjjAdd(Neutral, Times(j, G))
            BY <1>2, <1>3, <3>1, WalkIs
        <3>4. QED
            BY <3>2, <3>3, Group
    <2>2. QED
        BY <2>1
<1> HIDE DEF T, m, baby, giant
<1>6. ASSUME NEW h \in Hits PROVE h = k /\ k <= maxK
    <2>1. PICK x \in Found : h = x[1] * m + x[2] /\ h \in 0..maxK
        OBVIOUS
    <2>2. x[1] \in 0..m-1 /\ x[2] \in 0..m-1 /\ baby[x[2]] = giant[x[1]]
        BY <2>1
    <2> HIDE DEF Hits, Found
    <2>3. T = Times(h, G)
        BY <1>4, <2>1, <2>2
    <2>4. h = k
        BY <2>1, <2>3 DEF ToldApart, T
    <2>5. QED
        BY <2>1, <2>4
<1>7. ASSUME k <= maxK PROVE k \in Hits
    <2> DEFINE i == k \div m
               j == k % m
    <2>1. i \in Nat /\ j \in 0..m-1 /\ k = i * m + j
        <3>1. i \in Int /\ j \in 0..m-1 /\ k = m * i + j
            BY <1>2
        <3>2. i \in Nat
            BY <1>2
        <3>3. QED
            BY <1>2, <3>1, <3>2, Products
    <2> HIDE DEF i, j
    <2>2. i \in 0..m-1
        <3>1. ASSUME i >= m PROVE FALSE
            <4>1. \A a \in Nat : a >= m => a * m >= m * m
                BY <1>2
            <4>2. i * m >= m * m
                BY <2>1, <3>1, <4>1
            <4>3. i * m \in Nat /\ m * m \in Nat
                BY <1>2, <2>1
            <4>4. QED
                BY <1>2, <1>7, <2>1, <4>2, <4>3
        <3>2. QED
            BY <1>2, <2>1, <3>1
    <2>3. baby[j] = giant[i]
        BY <1>4, <2>1, <2>2 DEF T
    <2>4. ASSUME NEW l \in j+1..m-1 PROVE baby[l] # giant[i]
        <3>1. l \in 0..m-1 /\ l # j /\ l \in 0..maxK /\ j \in 0..maxK
            BY <1>2, <2>1
        <3>2. baby[l] = Times(l, G) /\ baby[j] = Times(j, G)
            BY <1>5, <2>1, <3>1
        <3>3. QED
            BY <2>3, <3>1, <3>2 DEF ToldApart
    <2>5. <<i, j>> \in Found
        BY <2>1, <2>2, <2>3, <2>4
    <2>6. k = <<i, j>>[1] * m + <<i, j>>[2]
        BY <2>1
    <2> HIDE DEF Found
    <2>7. QED
        BY <1>7, <2>5, <2>6
<1> HIDE DEF Hits
<1>8. CASE k <= maxK
    <2>1. Hits = {k}
        BY <1>6, <1>7, <1>8
    <2>2. (CHOOSE h \in Hits : \A l \in Hits : h <= l) = k
        BY <2>1
    <2>3. QED
        BY <1>1, <1>8, <2>1, <2>2 DEF T
<1>9. CASE ~(k <= maxK)
    <2>1. Hits = {}
        BY <1>6, <1>9
    <2>2. QED
        BY <1>1, <1>9, <2>1 DEF T
<1>10. QED
    BY <1>8, <1>9

-----------------------------------------------------------------------------
(* Encryption and decryption *)

LEMMA TableIs ==
    ASSUME NEW f
    PROVE  Table(f) = f
BY DEF Table

\* (C1, C2) is an encryption of the number k under the authority's key.
Encrypts(c, k) == c.C1 \in Curve /\ c.C2 = bjjAdd(bjjScalarMul(k, G), bjjScalarMul(SK, c.C1))

LEMMA EncryptsTimes ==
    ASSUME NEW c, NEW k \in Nat
    PROVE  Encrypts(c, k) <=> c.C1 \in Curve /\ c.C2 = bjjAdd(Times(k, G), Times(SK, c.C1))
BY ScalarMulIsTimes, FieldAssumption, TallyAssumption DEF Encrypts

LEMMA TimesNeutral ==
    ASSUME NEW n \in Nat
    PROVE  Times(n, Neutral) = Neutral
<1>1. Times(n, Times(0, G)) = Times(n * 0, G) /\ n * 0 = 0
    BY FieldAssumption, TimesTimes
<1>2. QED
    BY <1>1, FieldAssumption, TimesDef

\* A fresh accumulator encrypts 0.
LEMMA NothingEncrypted ==
    Encrypts([C1 |-> Neutral, C2 |-> Neutral, count |-> 0], 0)
<1>1. Times(0, G) = Neutral /\ Times(SK, Neutral) = Neutral /\ Neutral \in Curve
    BY FieldAssumption, TallyAssumption, TimesDef, TimesNeutral, NeutralPoint
<1>2. bjjAdd(Neutral, Neutral) = Neutral
    BY NeutralPoint
<1>3. QED
    BY <1>1, <1>2, EncryptsTimes

\* What a voter sends encrypts the number the voter chose.
LEMMA VoteEncrypted ==
    ASSUME NEW n \in Voters
    PROVE  Encrypts(Encrypted[n], Plaintext[n]) /\ Encrypted[n].C2 \in Curve
<1> DEFINE c == [C1 |-> bjjScalarMul(Nonce[n], G),
                 C2 |-> bjjAdd(bjjScalarMul(Plaintext[n], G), bjjScalarMul(Nonce[n], PK))]
<1>1. Encrypted[n] = c
    BY TableIs DEF Encrypted
<1>2. Nonce[n] \in Nat /\ Plaintext[n] \in Nat /\ SK \in Nat /\ G \in Curve
    BY TallyAssumption, FieldAssumption
<1>3. Times(SK, G) \in Curve /\ Times(Nonce[n], G) \in Curve /\ Times(Plaintext[n], G) \in Curve
    BY <1>2, TimesDef
<1>4. PK = Times(SK, G)
    BY <1>2, ScalarMulIsTimes DEF PK
<1>5. c.C1 = Times(Nonce[n], G)
    BY <1>2, ScalarMulIsTimes
<1>6. c.C2 = bjjAdd(Times(Plaintext[n], G), Times(Nonce[n], Times(SK, G)))
    BY <1>2, <1>3, <1>4, ScalarMulIsTimes
<1> HIDE DEF c
<1>7. Times(Nonce[n], Times(SK, G)) = Times(SK, Times(Nonce[n], G))
    <2>1. Times(Nonce[n], Times(SK, G)) = Times(Nonce[n] * SK, G)
        BY <1>2, TimesTimes
    <2>2. Times(SK, Times(Nonce[n], G)) = Times(SK * Nonce[n], G)
        BY <1>2, TimesTimes
    <2>3. Nonce[n] * SK = SK * Nonce[n]
        BY <1>2
    <2>4. QED
        BY <2>1, <2>2, <2>3
<1>8. Times(SK, Times(Nonce[n], G)) \in Curve
    BY <1>2, <1>3, TimesDef
<1>9. c.C2 \in Curve
    BY <1>3, <1>6, <1>7, <1>8, Group
<1>10. QED
    BY <1>1, <1>2, <1>3, <1>5, <1>6, <1>7, <1>9, EncryptsTimes

\* Adding ciphertexts up, as the contract does, adds the numbers up.
LEMMA SumEncrypted ==
    ASSUME NEW a, NEW c, NEW d, NEW j \in Nat, NEW k \in Nat,
           Encrypts(a, j), Encrypts(c, k),
           d.C1 = _babyJubAdd(a.C1, c.C1), d.C2 = _babyJubAdd(a.C2, c.C2)
    PROVE  Encrypts(d, j + k) /\ d.C1 \in Points /\ d.C2 \in Points
<1>1. /\ a.C1 \in Curve /\ a.C2 = bjjAdd(Times(j, G), Times(SK, a.C1))
      /\ c.C1 \in Curve /\ c.C2 = bjjAdd(Times(k, G), Times(SK, c.C1))
    BY EncryptsTimes
<1>2. d.C1 = bjjAdd(a.C1, c.C1) /\ d.C2 = bjjAdd(a.C2, c.C2)
    BY SameSum
<1>3. SK \in Nat /\ G \in Curve
    BY TallyAssumption, FieldAssumption
<1>4. /\ Times(j, G) \in Curve /\ Times(k, G) \in Curve
      /\ Times(SK, a.C1) \in Curve /\ Times(SK, c.C1) \in Curve
    BY <1>1, <1>3, TimesDef
<1>5. d.C2 = bjjAdd(bjjAdd(Times(j, G), Times(k, G)), bjjAdd(Times(SK, a.C1), Times(SK, c.C1)))
    BY <1>1, <1>2, <1>4, Interchange
<1>6. bjjAdd(Times(j, G), Times(k, G)) = Times(j + k, G)
    BY <1>3, TimesAdd
<1>7. bjjAdd(Times(SK, a.C1), Times(SK, c.C1)) = Times(SK, d.C1)
    BY <1>1, <1>2, <1>3, TimesSum
<1>8. d.C1 \in Curve
    BY <1>1, <1>2, Group
<1>9. d.C2 \in Curve
    <2>1. j + k \in Nat
        OBVIOUS
    <2>2. Times(j + k, G) \in Curve /\ Times(SK, d.C1) \in Curve
        BY <1>3, <1>8, <2>1, TimesDef
    <2>3. QED
        BY <1>5, <1>6, <1>7, <2>2, Group
<1>10. Encrypts(d, j + k)
    <2>1. j + k \in Nat
        OBVIOUS
    <2>2. QED
        BY <1>5, <1>6, <1>7, <1>8, <2>1, EncryptsTimes
<1>11. QED
    BY <1>8, <1>9, <1>10, OnCurve

\* Sums that can be reached and numbers that are tried are told apart.
LEMMA SumsToldApart ==
    ASSUME NEW k \in 0..MaxSum
    PROVE  ToldApart(0..MaxVoters \cup {k})
<1>1. MaxVoters \in Nat /\ MaxSum \in Nat /\ G \in Curve
    BY FS_CardinalityType, TallyAssumption, FieldAssumption DEF MaxSum
<1>2. \A h \in Nat : bjjScalarMul(h, G) = Times(h, G)
    BY <1>1, ScalarMulIsTimes
<1>3. \A h \in 0..MaxVoters \cup {k} : h \in Nat /\ h \in 0..MaxVoters \cup 0..MaxSum
    BY <1>1
<1>4. ASSUME NEW g \in 0..MaxVoters \cup {k}, NEW h \in 0..MaxVoters \cup {k}, Times(g, G) = Times(h, G)
      PROVE  g = h
    <2>1. bjjScalarMul(g, G) = bjjScalarMul(h, G)
        BY <1>2, <1>3, <1>4
    <2>2. QED
        BY <1>3, <2>1, OrderAssumption
<1>5. QED
    BY <1>4 DEF ToldApart

\* _finaliseOption: from an encryption of a sum k, the service recovers k when it
\* is at most MAX_VOTERS, and nothing otherwise.
THEOREM DecryptionUndoesEncryption ==
    ASSUME NEW c, NEW k \in 0..MaxSum, Encrypts(c, k)
    PROVE  Decrypted(c) = IF k <= MaxVoters THEN k ELSE NotFound
<1>1. MaxVoters \in Nat /\ MaxSum \in Nat /\ SK \in Nat /\ G \in Curve /\ k \in Nat
    BY FS_CardinalityType, TallyAssumption, FieldAssumption DEF MaxSum
<1>2. c.C1 \in Curve /\ c.C2 = bjjAdd(Times(k, G), Times(SK, c.C1))
    BY <1>1, EncryptsTimes
<1>3. Times(k, G) \in Curve /\ Times(SK, c.C1) \in Curve
    BY <1>1, <1>2, TimesDef
<1>4. SecretMultiple[c.C1] = Times(SK, c.C1)
    <2>1. SecretMultiple[c.C1] = bjjScalarMul(SK, c.C1)
        BY <1>2, TableIs, OnCurve DEF SecretMultiple
    <2>2. QED
        BY <1>1, <1>2, <2>1, ScalarMulIsTimes
<1>5. bjjAdd(c.C2, bjjNeg(Times(SK, c.C1))) = Times(k, G)
    <2> DEFINE q == Times(SK, c.C1)
    <2>1. q \in Curve /\ bjjNeg(q) \in Curve /\ bjjAdd(q, bjjNeg(q)) = Neutral
        BY <1>3, Group
    <2>2. bjjAdd(bjjAdd(Times(k, G), q), bjjNeg(q)) = bjjAdd(Times(k, G), bjjAdd(q, bjjNeg(q)))
        BY <1>3, <2>1, CurveIsAGroup
    <2>3. bjjAdd(Times(k, G), Neutral) = Times(k, G)
        BY NeutralPoint
    <2>4. QED
        BY <1>2, <2>1, <2>2, <2>3
<1>6. Decrypted(c) = bsgs(Times(k, G), MaxVoters)
    <2>1. Decrypted(c) = Logarithm[Times(k, G)]
        BY <1>4, <1>5 DEF Decrypted
    <2>2. Times(k, G) \in Points
        BY <1>3, OnCurve
    <2>3. \A T \in Points : Logarithm[T] = bsgs(T, MaxVoters)
        BY TableIs DEF Logarithm
    <2>4. QED
        BY <2>1, <2>2, <2>3
<1>7. QED
    BY <1>1, <1>6, SumsToldApart, SearchIsExact

-----------------------------------------------------------------------------
(* The inductive invariant *)

Events ==
    [event : {"PollRegistered"}, poll : Polls]
        \cup [event : {"EncryptedVoteAccumulated"}, poll : Polls, option : Options, newCount : Int]
Timers == [poll : Polls, at : Int]
Refreshes == [by : Services, poll : Polls, option : Options, snap : Ciphertext]
JobStates ==
    {Idle} \cup [pc : {"Check", "Read"}, option : Options]
           \cup [pc : {"Submit"}, option : Options, tally : 0..MaxVoters]

Registered(p) == closeTime[p] # Unregistered
Closed(p) == Registered(p) /\ closeTime[p] <= now

ChainType ==
    /\ now \in 0..MaxTime
    /\ closeTime \in [Polls -> CloseTimes \cup {Unregistered}]
    /\ ciphertexts \in [Polls -> [Options -> Ciphertext]]
    /\ results \in [Polls -> [Options -> 0..MaxVoters \cup {Pending}]]
    /\ nullifiersUsed \in [Polls -> SUBSET Voters]
    /\ plain \in [Polls -> [Options -> Nat]]
    /\ decodable \in BOOLEAN /\ spoiled \subseteq Polls \X Options

ServiceType ==
    /\ cache \in [Polls -> [Options -> Ciphertext \cup {Cold}]]
    /\ started \subseteq Services /\ disturbed \subseteq Services
    /\ events \in [Services -> SUBSET Events]
    /\ refreshes \subseteq Refreshes
    /\ timers \in [Services -> SUBSET Timers]
    /\ jobs \in [Services -> [Polls -> JobStates]]

\* Events and timers are about polls the contract has.
KnownPolls ==
    \A s \in Services : /\ \A e \in events[s] : Registered(e.poll)
                        /\ \A t \in timers[s] : Registered(t.poll)

\* Accumulators of a registered poll encrypt the plain sums; a poll the contract
\* does not know has none.
SumsEncrypted ==
    \A p \in Polls, o \in Options :
        /\ Registered(p) => /\ Encrypts(ciphertexts[p][o], plain[p][o])
                            /\ plain[p][o] <= MaxPlaintext * ciphertexts[p][o].count
        /\ ~Registered(p) => plain[p][o] = 0 /\ ciphertexts[p][o].count = 0

\* What is posted, or about to be, is the sum of a poll that takes no more votes.
ResultsPlain ==
    \A p \in Polls, o \in Options :
        results[p][o] # Pending => Closed(p) /\ results[p][o] = plain[p][o]

JobsPlain ==
    \A s \in Services, p \in Polls :
        jobs[s][p] # Idle =>
            /\ Closed(p)
            /\ jobs[s][p].pc = "Submit" => jobs[s][p].tally = plain[p][jobs[s][p].option]

TallyInv ==
    /\ ChainType /\ ServiceType /\ KnownPolls
    /\ SumsEncrypted /\ ResultsPlain /\ JobsPlain /\ OneCiphertextPerNullifier

\* The parts of the invariant about the contract alone.
ChainInv == ChainType /\ SumsEncrypted /\ ResultsPlain /\ OneCiphertextPerNullifier

\* Times are numbers.
LEMMA ClockTimes ==
    ASSUME ChainType
    PROVE  now \in Nat /\ MaxTime \in Nat /\ \A p \in Polls : closeTime[p] \in Nat
<1>1. MaxTime \in Nat /\ CloseTimes \subseteq Nat
    BY TallyAssumption
<1>2. now \in 0..MaxTime /\ \A p \in Polls : closeTime[p] \in CloseTimes \cup {Unregistered}
    BY DEF ChainType
<1>3. Unregistered \in Nat
    BY DEF Unregistered
<1>4. \A p \in Polls : closeTime[p] \in Nat
    BY <1>1, <1>2, <1>3
<1>5. now \in Nat
    BY <1>1, <1>2
<1>6. QED
    BY <1>1, <1>4, <1>5

\* No service changes the contract's state, except through finaliseDecryption.
LEMMA ChainUntouched ==
    ASSUME TallyInv, UNCHANGED chainVars
    PROVE  ChainInv' /\ \A p : (Registered(p)' <=> Registered(p)) /\ (Closed(p)' <=> Closed(p))
<1>1. ChainType' /\ SumsEncrypted'
    BY DEF TallyInv, chainVars, ChainType, SumsEncrypted, Registered
<1>2. ResultsPlain' /\ OneCiphertextPerNullifier'
    BY DEF TallyInv, chainVars, ResultsPlain, OneCiphertextPerNullifier, Closed, Registered
<1>3. \A p : (Registered(p)' <=> Registered(p)) /\ (Closed(p)' <=> Closed(p))
    BY DEF chainVars, Registered, Closed
<1>4. QED
    BY <1>1, <1>2, <1>3 DEF ChainInv

\* Jobs that do not move stay what they are while sums of closed polls do.
LEMMA JobsUntouched ==
    ASSUME TallyInv, UNCHANGED jobs, \A p \in Polls : Closed(p) => Closed(p)' /\ plain'[p] = plain[p]
    PROVE  JobsPlain'
BY DEF TallyInv, JobsPlain

LEMMA InitTally ==
    ASSUME Init
    PROVE  TallyInv
<1>1. Cardinality(Voters) \in Nat /\ Neutral \in Points
    BY FS_CardinalityType, TallyAssumption, NeutralPoint, OnCurve
<1>2. [C1 |-> <<0, 0>>, C2 |-> <<0, 0>>, count |-> 0] \in Ciphertext
    BY <1>1, FieldAssumption DEF Ciphertext, Points
<1>3. ChainType
    BY <1>2, TallyAssumption DEF Init, ChainType, Pending
<1>4. ServiceType
    BY DEF Init, ServiceType, JobStates
<1>5. KnownPolls /\ SumsEncrypted /\ ResultsPlain /\ JobsPlain
    BY DEF Init, KnownPolls, SumsEncrypted, ResultsPlain, JobsPlain, Registered
<1>6. OneCiphertextPerNullifier
    <2> SUFFICES ASSUME NEW p \in Polls
                 PROVE  Cardinality({x \in Options \X (1..Cardinality(Voters)) :
                                        x[2] <= ciphertexts[p][x[1]].count}) = Cardinality(nullifiersUsed[p])
        BY DEF OneCiphertextPerNullifier
    <2>1. {x \in Options \X (1..Cardinality(Voters)) : x[2] <= ciphertexts[p][x[1]].count} = {}
        BY <1>1 DEF Init
    <2>2. nullifiersUsed[p] = {}
        BY DEF Init
    <2>3. QED
        BY <2>1, <2>2
<1>7. QED
    BY <1>3, <1>4, <1>5, <1>6 DEF TallyInv

\* Notify: the events of a known poll.
LEMMA Notified ==
    ASSUME TallyInv, NEW e \in Events, Notify(e), Registered(e.poll)',
           \A p \in Polls : Registered(p) => Registered(p)', UNCHANGED timers
    PROVE  events' \in [Services -> SUBSET Events] /\ KnownPolls'
<1>1. /\ events \in [Services -> SUBSET Events] /\ timers \in [Services -> SUBSET Timers]
      /\ \A s \in Services : /\ \A f \in events[s] : Registered(f.poll)
                             /\ \A t \in timers[s] : Registered(t.poll)
    BY DEF TallyInv, ServiceType, KnownPolls
<1>2. \A s \in Services : events'[s] \subseteq events[s] \cup {e}
    BY DEF Notify
<1>3. \A f \in Events : f.poll \in Polls
    BY DEF Events
<1>4. \A t \in Timers : t.poll \in Polls
    BY DEF Timers
<1>5. events' \in [Services -> SUBSET Events]
    BY <1>1 DEF Notify
<1>6. ASSUME NEW s \in Services PROVE /\ \A f \in events'[s] : Registered(f.poll)'
                                      /\ \A t \in timers'[s] : Registered(t.poll)'
    BY <1>1, <1>2, <1>3, <1>4
<1>7. QED
    BY <1>5, <1>6 DEF KnownPolls

\* registerPoll: a poll the contract did not know starts with sums that encrypt 0;
\* it has no votes, no results and no jobs.
LEMMA RegisterPollKeeps ==
    ASSUME TallyInv, NEW q \in Polls, NEW close \in CloseTimes, RegisterPoll(q, close)
    PROVE  TallyInv'
<1> DEFINE zero == [C1 |-> Neutral, C2 |-> Neutral, count |-> 0]
           e == [event |-> "PollRegistered", poll |-> q]
<1>1. /\ closeTime[q] = Unregistered /\ closeTime' = [closeTime EXCEPT ![q] = close]
      /\ ciphertexts' = [ciphertexts EXCEPT ![q] = [o \in Options |-> zero]]
      /\ Notify(e)
      /\ UNCHANGED <<now, results, nullifiersUsed, decodable, spoiled, plain, cacheVars, started, jobVars>>
    BY DEF RegisterPoll
<1>2. ChainType /\ ServiceType /\ SumsEncrypted /\ ResultsPlain /\ JobsPlain /\ OneCiphertextPerNullifier
    BY DEF TallyInv
<1>3. close # Unregistered /\ close \in CloseTimes
    BY TallyAssumption
<1>4. /\ ~Registered(q) /\ Registered(q)'
      /\ \A p \in Polls : p # q => closeTime'[p] = closeTime[p] /\ ciphertexts'[p] = ciphertexts[p]
    BY <1>1, <1>2, <1>3 DEF ChainType, Registered
<1>5. zero \in Ciphertext /\ zero.count = 0 /\ Encrypts(zero, 0)
    BY FS_CardinalityType, TallyAssumption, NeutralPoint, OnCurve, NothingEncrypted DEF Ciphertext
<1> HIDE DEF zero
<1>6. ChainType'
    BY <1>1, <1>2, <1>5 DEF ChainType
<1>7. \A p \in Polls : Registered(p) => Registered(p)'
    BY <1>4 DEF Registered
<1>8. \A p \in Polls : Closed(p) => p # q /\ Closed(p)'
    BY <1>1, <1>4 DEF Closed, Registered
<1>9. ServiceType' /\ KnownPolls'
    <2>1. e \in Events /\ e.poll = q
        BY DEF Events
    <2> HIDE DEF e
    <2>2. UNCHANGED timers
        BY <1>1 DEF jobVars
    <2>3. events' \in [Services -> SUBSET Events] /\ KnownPolls'
        BY <1>1, <1>4, <1>7, <2>1, <2>2, Notified
    <2>4. QED
        BY <1>1, <1>2, <2>3 DEF ServiceType, cacheVars, jobVars
<1>10. ResultsPlain'
    BY <1>1, <1>2, <1>8 DEF ResultsPlain
<1>11. JobsPlain'
    BY <1>1, <1>8, JobsUntouched DEF jobVars
<1>12. \A o \in Options : ciphertexts'[q][o] = zero /\ plain[q][o] = 0 /\ ciphertexts[q][o].count = 0
    BY <1>1, <1>2, <1>4 DEF SumsEncrypted, ChainType
<1>13. OneCiphertextPerNullifier'
    <2> SUFFICES ASSUME NEW p \in Polls
                 PROVE  Cardinality({x \in Options \X (1..Cardinality(Voters)) :
                                        x[2] <= ciphertexts'[p][x[1]].count}) = Cardinality(nullifiersUsed'[p])
        BY DEF OneCiphertextPerNullifier
    <2>1. \A o \in Options : ciphertexts'[p][o].count = ciphertexts[p][o].count
        BY <1>4, <1>5, <1>12
    <2>2. {x \in Options \X (1..Cardinality(Voters)) : x[2] <= ciphertexts'[p][x[1]].count}
            = {x \in Options \X (1..Cardinality(Voters)) : x[2] <= ciphertexts[p][x[1]].count}
        BY <2>1
    <2>3. QED
        BY <1>1, <1>2, <2>2 DEF OneCiphertextPerNullifier
<1>14. SumsEncrypted'
    <2> SUFFICES ASSUME NEW p \in Polls, NEW o \in Options
                 PROVE  /\ Registered(p)' => /\ Encrypts(ciphertexts'[p][o], plain'[p][o])
                                             /\ plain'[p][o] <= MaxPlaintext * ciphertexts'[p][o].count
                        /\ ~Registered(p)' => plain'[p][o] = 0 /\ ciphertexts'[p][o].count = 0
        BY DEF SumsEncrypted, Encrypts
    <2>1. CASE p = q
        <3>1. MaxPlaintext * 0 = 0
            BY TallyAssumption
        <3>2. QED
            BY <1>1, <1>4, <1>5, <1>12, <2>1, <3>1
    <2>2. CASE p # q
        <3>1. ciphertexts'[p] = ciphertexts[p] /\ plain'[p] = plain[p] /\ (Registered(p)' <=> Registered(p))
            BY <1>1, <1>4, <2>2 DEF Registered
        <3>2. QED
            BY <1>2, <3>1 DEF SumsEncrypted
    <2>3. QED
        BY <2>1, <2>2
<1>15. QED
    BY <1>6, <1>9, <1>10, <1>11, <1>13, <1>14 DEF TallyInv

\* The ciphertexts added to the sums of a poll: option, and which of the option's.
Added(p) == {y \in Options \X (1..Cardinality(Voters)) : y[2] <= ciphertexts[p][y[1]].count}

LEMMA AddedCounted ==
    ASSUME TallyInv, NEW p \in Polls
    PROVE  /\ IsFiniteSet(Added(p)) /\ IsFiniteSet(nullifiersUsed[p])
           /\ Cardinality(Added(p)) = Cardinality(nullifiersUsed[p])
<1>1. OptionCount \in Nat /\ Cardinality(Voters) \in Nat /\ IsFiniteSet(Voters)
    BY FS_CardinalityType, TallyAssumption
<1>2. IsFiniteSet(Options) /\ IsFiniteSet(1..Cardinality(Voters))
    BY <1>1, FS_Interval DEF Options
<1>3. IsFiniteSet(Options \X (1..Cardinality(Voters)))
    BY <1>2, FS_Product
<1>4. IsFiniteSet(Added(p))
    BY <1>3, FS_Subset DEF Added
<1>5. IsFiniteSet(nullifiersUsed[p])
    BY <1>1, FS_Subset DEF TallyInv, ChainType
<1>6. QED
    BY <1>4, <1>5 DEF Added, TallyInv, OneCiphertextPerNullifier

\* A voter whose nullifier is not used leaves room for one more ciphertext.
LEMMA RoomForOne ==
    ASSUME TallyInv, NEW p \in Polls, NEW o \in Options, NEW n \in Voters, n \notin nullifiersUsed[p]
    PROVE  ciphertexts[p][o].count + 1 \in 1..Cardinality(Voters)
<1> DEFINE V == Cardinality(Voters)
           count == ciphertexts[p][o].count
           f == [i \in 1..V |-> <<o, i>>]
<1>1. V \in Nat /\ IsFiniteSet(Voters) /\ count \in 0..V
    BY FS_CardinalityType, TallyAssumption DEF TallyInv, ChainType, Ciphertext
<1>2. Cardinality(nullifiersUsed[p]) < V
    <2>1. IsFiniteSet(Voters \ {n}) /\ Cardinality(Voters \ {n}) = V - 1
        BY <1>1, FS_RemoveElement
    <2>2. nullifiersUsed[p] \subseteq Voters \ {n}
        BY DEF TallyInv, ChainType
    <2>3. Cardinality(nullifiersUsed[p]) <= V - 1
        BY <2>1, <2>2, FS_Subset
    <2>4. Cardinality(nullifiersUsed[p]) \in Nat
        BY AddedCounted, FS_CardinalityType
    <2>5. QED
        BY <1>1, <2>3, <2>4
<1>3. ASSUME count = V PROVE FALSE
    <2>1. f \in [1..V -> Added(p)]
        BY <1>1, <1>3 DEF Added
    <2>2. \A i, j \in 1..V : f[i] = f[j] => i = j
        OBVIOUS
    <2>3. DOMAIN f = 1..V
        OBVIOUS
    <2> HIDE DEF f
    <2>4. f \in Injection(1..V, Added(p))
        BY <2>1, <2>2, <2>3 DEF Injection, IsInjective
    <2>5. Cardinality(1..V) <= Cardinality(Added(p))
        BY <2>4, AddedCounted, FS_Injection
    <2>6. Cardinality(1..V) = V
        BY <1>1, FS_Interval
    <2>7. Cardinality(Added(p)) \in Nat /\ Cardinality(Added(p)) < V
        BY <1>2, AddedCounted, FS_CardinalityType
    <2>8. QED
        BY <1>1, <2>5, <2>6, <2>7
<1>4. QED
    BY <1>1, <1>3

\* A vote with a new nullifier, whatever its numbers: one more is summed up as one
\* more nullifier is used.
LEMMA VoteCounted ==
    ASSUME TallyInv, NEW q \in Polls, NEW x \in Options, NEW n \in Voters,
           Accepts(q, x, n), Count(q, x, n), UNCHANGED <<now, closeTime, timers>>,
           \A p \in Polls, o \in Options :
               ciphertexts'[p][o].count = IF p = q /\ o = x THEN ciphertexts[q][x].count + 1
                                          ELSE ciphertexts[p][o].count
    PROVE  /\ Registered(q) /\ ~Closed(q)
           /\ \A p : (Registered(p)' <=> Registered(p)) /\ (Closed(p)' <=> Closed(p))
           /\ nullifiersUsed' \in [Polls -> SUBSET Voters]
           /\ events' \in [Services -> SUBSET Events] /\ KnownPolls'
           /\ OneCiphertextPerNullifier'
<1> DEFINE count == ciphertexts[q][x].count
           e == [event |-> "EncryptedVoteAccumulated", poll |-> q, option |-> x,
                 newCount |-> count + 1]
           V == Cardinality(Voters)
<1>1. nullifiersUsed' = [nullifiersUsed EXCEPT ![q] = @ \cup {n}] /\ Notify(e)
    BY DEF Count
<1>2. ChainType /\ ServiceType /\ OneCiphertextPerNullifier
    BY DEF TallyInv
<1>3. Registered(q) /\ ~Closed(q) /\ n \notin nullifiersUsed[q]
    <2>1. closeTime[q] \in Nat /\ now \in Nat
        BY <1>2, ClockTimes
    <2>2. closeTime[q] # Unregistered /\ now < closeTime[q] /\ n \notin nullifiersUsed[q]
        BY DEF Accepts
    <2>3. ~(closeTime[q] <= now)
        BY <2>1, <2>2
    <2>4. QED
        BY <2>2, <2>3 DEF Registered, Closed
<1>4. \A p : (Registered(p)' <=> Registered(p)) /\ (Closed(p)' <=> Closed(p))
    BY DEF Registered, Closed
<1>5. V \in Nat /\ count \in 0..V /\ count + 1 \in 1..V
    BY <1>2, <1>3, RoomForOne, FS_CardinalityType, TallyAssumption DEF ChainType, Ciphertext
<1>6. nullifiersUsed' \in [Polls -> SUBSET Voters]
    BY <1>1, <1>2 DEF ChainType
<1>7. events' \in [Services -> SUBSET Events] /\ KnownPolls'
    <2>1. e \in Events /\ e.poll = q
        BY <1>5 DEF Events
    <2> HIDE DEF e
    <2>2. QED
        BY <1>1, <1>3, <1>4, <2>1, Notified
<1>8. OneCiphertextPerNullifier'
    <2> SUFFICES ASSUME NEW p \in Polls
                 PROVE  Cardinality({y \in Options \X (1..V) : y[2] <= ciphertexts'[p][y[1]].count})
                            = Cardinality(nullifiersUsed'[p])
        BY DEF OneCiphertextPerNullifier
    <2>1. CASE p # q
        <3>1. nullifiersUsed'[p] = nullifiersUsed[p]
            BY <1>1, <1>2, <2>1 DEF ChainType
        <3>2. {y \in Options \X (1..V) : y[2] <= ciphertexts'[p][y[1]].count} = Added(p)
            BY <2>1 DEF Added
        <3>3. QED
            BY <3>1, <3>2, AddedCounted
    <2>2. CASE p = q
        <3> DEFINE y0 == <<x, count + 1>>
                   After == {y \in Options \X (1..V) : y[2] <= ciphertexts'[q][y[1]].count}
        <3>1. y0 \in Options \X (1..V) /\ y0[1] = x /\ y0[2] = count + 1 /\ y0 \notin Added(q)
            BY <1>5 DEF Added
        <3>2. \A o \in Options : ciphertexts'[q][o].count
                                    = IF o = x THEN count + 1 ELSE ciphertexts[q][o].count
            OBVIOUS
        <3>3. \A y \in Options \X (1..V) : y[1] = x /\ y[2] = count + 1 => y = y0
            OBVIOUS
        <3> HIDE DEF y0
        <3>4. \A y \in Options \X (1..V) : y[2] <= ciphertexts'[q][y[1]].count
                                              <=> y \in Added(q) \/ y = y0
            BY <1>5, <3>1, <3>2, <3>3 DEF Added
        <3>5. After = Added(q) \cup {y0}
            <4>1. Added(q) \subseteq Options \X (1..V)
                BY DEF Added
            <4>2. QED
                BY <3>1, <3>4, <4>1
        <3>6. Cardinality(Added(q) \cup {y0}) = Cardinality(Added(q)) + 1
            BY <3>1, AddedCounted, FS_AddElement
        <3>7. Cardinality(nullifiersUsed[q] \cup {n}) = Cardinality(nullifiersUsed[q]) + 1
            BY <1>3, AddedCounted, FS_AddElement
        <3>8. nullifiersUsed'[q] = nullifiersUsed[q] \cup {n}
            BY <1>1, <1>2 DEF ChainType
        <3>9. Cardinality(Added(q)) = Cardinality(nullifiersUsed[q])
            BY AddedCounted
        <3>10. QED
            BY <2>2, <3>5, <3>6, <3>7, <3>8, <3>9
    <2>3. QED
        BY <2>1, <2>2
<1>9. QED
    BY <1>3, <1>4, <1>6, <1>7, <1>8

\* submitEncryptedVote: the sums go on encrypting the plain sum.
LEMMA SubmitEncryptedVoteKeeps ==
    ASSUME TallyInv, NEW q \in Polls, NEW x \in Options, NEW n \in Voters, SubmitEncryptedVote(q, x, n)
    PROVE  TallyInv'
<1> DEFINE c == Encrypted[n]
           a == ciphertexts[q][x]
           d == [C1 |-> _babyJubAdd(a.C1, c.C1), C2 |-> _babyJubAdd(a.C2, c.C2), count |-> a.count + 1]
           V == Cardinality(Voters)
<1>1. /\ Accepts(q, x, n) /\ Count(q, x, n)
      /\ ciphertexts' = [ciphertexts EXCEPT ![q][x] = d]
      /\ plain' = [plain EXCEPT ![q][x] = @ + Plaintext[n]]
      /\ UNCHANGED <<now, closeTime, results, decodable, spoiled, cacheVars, started, jobVars>>
    BY DEF SubmitEncryptedVote
<1>2. ChainType /\ ServiceType /\ SumsEncrypted /\ ResultsPlain /\ JobsPlain
    BY DEF TallyInv
<1>3. Registered(q) /\ n \notin nullifiersUsed[q]
    BY <1>1 DEF Accepts, Registered
<1>4. UNCHANGED <<timers, jobs>>
    BY <1>1 DEF jobVars
<1>5. V \in Nat /\ a.count \in 0..V /\ a.count + 1 \in 1..V
    BY <1>2, <1>3, RoomForOne, FS_CardinalityType, TallyAssumption DEF ChainType, Ciphertext
<1>6. /\ MaxPlaintext \in Nat /\ Plaintext[n] \in 0..MaxPlaintext
      /\ plain[q][x] \in Nat /\ plain[q][x] <= MaxPlaintext * a.count
      /\ Encrypts(a, plain[q][x]) /\ Encrypts(c, Plaintext[n])
    BY <1>2, <1>3, VoteEncrypted, TallyAssumption DEF SumsEncrypted, ChainType
<1>7. Encrypts(d, plain[q][x] + Plaintext[n]) /\ d.C1 \in Points /\ d.C2 \in Points
    <2>1. d.C1 = _babyJubAdd(a.C1, c.C1) /\ d.C2 = _babyJubAdd(a.C2, c.C2)
        OBVIOUS
    <2>2. Plaintext[n] \in Nat
        BY <1>6
    <2> HIDE DEF a, c, d
    <2>3. QED
        BY <1>6, <2>1, <2>2, SumEncrypted
<1>8. d.count = a.count + 1 /\ d \in Ciphertext
    BY <1>5, <1>7 DEF Ciphertext
<1> HIDE DEF c, d
<1>9. \A p \in Polls, o \in Options :
          IF p = q /\ o = x
          THEN plain'[p][o] = plain[q][x] + Plaintext[n] /\ ciphertexts'[p][o] = d
          ELSE plain'[p][o] = plain[p][o] /\ ciphertexts'[p][o] = ciphertexts[p][o]
    BY <1>1, <1>2 DEF ChainType
<1>10. \A p \in Polls, o \in Options :
          ciphertexts'[p][o].count = IF p = q /\ o = x THEN ciphertexts[q][x].count + 1
                                     ELSE ciphertexts[p][o].count
    BY <1>8, <1>9
<1>11. /\ ~Closed(q) /\ \A p : (Registered(p)' <=> Registered(p)) /\ (Closed(p)' <=> Closed(p))
       /\ nullifiersUsed' \in [Polls -> SUBSET Voters]
       /\ events' \in [Services -> SUBSET Events] /\ KnownPolls' /\ OneCiphertextPerNullifier'
    BY <1>1, <1>4, <1>10, VoteCounted
<1>12. ChainType'
    <2>1. ciphertexts' \in [Polls -> [Options -> Ciphertext]]
        BY <1>1, <1>2, <1>8 DEF ChainType
    <2>2. plain' \in [Polls -> [Options -> Nat]]
        BY <1>1, <1>2, <1>6 DEF ChainType
    <2>3. QED
        BY <1>1, <1>2, <1>11, <2>1, <2>2 DEF ChainType
<1>13. ServiceType'
    BY <1>1, <1>2, <1>11 DEF ServiceType, cacheVars, jobVars
<1>14. \A p \in Polls : p # q => plain'[p] = plain[p]
    BY <1>1, <1>2 DEF ChainType
<1>15. ResultsPlain'
    <2>1. \A p \in Polls : Closed(p) => plain'[p] = plain[p]
        BY <1>11, <1>14
    <2>2. QED
        BY <1>1, <1>2, <1>11, <2>1 DEF ResultsPlain
<1>16. JobsPlain'
    BY <1>4, <1>11, <1>14, JobsUntouched
<1>17. SumsEncrypted'
    <2> SUFFICES ASSUME NEW p \in Polls, NEW o \in Options
                 PROVE  /\ Registered(p)' => /\ Encrypts(ciphertexts'[p][o], plain'[p][o])
                                             /\ plain'[p][o] <= MaxPlaintext * ciphertexts'[p][o].count
                        /\ ~Registered(p)' => plain'[p][o] = 0 /\ ciphertexts'[p][o].count = 0
        BY DEF SumsEncrypted, Encrypts
    <2>1. CASE p = q /\ o = x
        <3>1. MaxPlaintext * (a.count + 1) = MaxPlaintext * a.count + MaxPlaintext /\ MaxPlaintext * a.count \in Nat
            BY <1>5, <1>6
        <3>2. plain'[q][x] <= MaxPlaintext * (a.count + 1)
            BY <1>6, <1>9, <3>1
        <3>3. QED
            BY <1>3, <1>11, <1>7, <1>8, <1>9, <2>1, <3>2
    <2>2. CASE p # q \/ o # x
        <3>1. plain'[p][o] = plain[p][o] /\ ciphertexts'[p][o] = ciphertexts[p][o]
            BY <1>9, <2>2
        <3>2. QED
            BY <1>2, <1>11, <3>1 DEF SumsEncrypted
    <2>3. QED
        BY <2>1, <2>2
<1>18. QED
    BY <1>11, <1>12, <1>13, <1>15, <1>16, <1>17 DEF TallyInv

\* submitEncryptedVote with numbers that are no ciphertext: it is counted, and the
\* sum of the others stays what it is.
LEMMA SubmitMalformedVoteKeeps ==
    ASSUME TallyInv, NEW q \in Polls, NEW x \in Options, NEW n \in Voters, SubmitMalformedVote(q, x, n)
    PROVE  TallyInv'
<1> DEFINE a == ciphertexts[q][x]
           d == [a EXCEPT !.count = @ + 1]
           V == Cardinality(Voters)
<1>1. /\ Accepts(q, x, n) /\ Count(q, x, n)
      /\ ciphertexts' = [ciphertexts EXCEPT ![q][x].count = @ + 1]
      /\ spoiled' = spoiled \cup {<<q, x>>}
      /\ UNCHANGED <<now, closeTime, results, decodable, plain, cacheVars, started, jobVars>>
    BY DEF SubmitMalformedVote
<1>2. ChainType /\ ServiceType /\ SumsEncrypted /\ ResultsPlain /\ JobsPlain
    BY DEF TallyInv
<1>3. Registered(q) /\ n \notin nullifiersUsed[q]
    BY <1>1 DEF Accepts, Registered
<1>4. UNCHANGED <<timers, jobs>>
    BY <1>1 DEF jobVars
<1>5. V \in Nat /\ a.count \in 0..V /\ a.count + 1 \in 1..V
    BY <1>2, <1>3, RoomForOne, FS_CardinalityType, TallyAssumption DEF ChainType, Ciphertext
<1>6. a \in Ciphertext /\ d \in Ciphertext /\ d.C1 = a.C1 /\ d.C2 = a.C2 /\ d.count = a.count + 1
    <2>1. a \in Ciphertext
        BY <1>2 DEF ChainType
    <2>2. \A b \in Ciphertext : b.count + 1 \in 1..V =>
             LET c == [b EXCEPT !.count = @ + 1]
             IN  c \in Ciphertext /\ c.C1 = b.C1 /\ c.C2 = b.C2 /\ c.count = b.count + 1
        BY <1>5 DEF Ciphertext
    <2> HIDE DEF a
    <2>3. QED
        BY <1>5, <2>1, <2>2
<1>7. ciphertexts' = [ciphertexts EXCEPT ![q][x] = d]
    BY <1>1, <1>2 DEF ChainType
<1> HIDE DEF d
<1>8. \A p \in Polls, o \in Options :
          ciphertexts'[p][o] = IF p = q /\ o = x THEN d ELSE ciphertexts[p][o]
    BY <1>2, <1>7 DEF ChainType
<1>9. \A p \in Polls, o \in Options :
          ciphertexts'[p][o].count = IF p = q /\ o = x THEN ciphertexts[q][x].count + 1
                                     ELSE ciphertexts[p][o].count
    BY <1>6, <1>8
<1>10. /\ ~Closed(q) /\ \A p : (Registered(p)' <=> Registered(p)) /\ (Closed(p)' <=> Closed(p))
       /\ nullifiersUsed' \in [Polls -> SUBSET Voters]
       /\ events' \in [Services -> SUBSET Events] /\ KnownPolls' /\ OneCiphertextPerNullifier'
    BY <1>1, <1>4, <1>9, VoteCounted
<1>11. ChainType'
    <2>1. ciphertexts' \in [Polls -> [Options -> Ciphertext]]
        BY <1>2, <1>6, <1>7 DEF ChainType
    <2>2. spoiled' \subseteq Polls \X Options
        BY <1>1, <1>2 DEF ChainType
    <2>3. QED
        BY <1>1, <1>2, <1>10, <2>1, <2>2 DEF ChainType
<1>12. ServiceType'
    BY <1>1, <1>2, <1>10 DEF ServiceType, cacheVars, jobVars
<1>13. ResultsPlain'
    BY <1>1, <1>2, <1>10 DEF ResultsPlain
<1>14. JobsPlain'
    BY <1>1, <1>4, <1>10, JobsUntouched
<1>15. SumsEncrypted'
    <2> SUFFICES ASSUME NEW p \in Polls, NEW o \in Options
                 PROVE  /\ Registered(p)' => /\ Encrypts(ciphertexts'[p][o], plain'[p][o])
                                             /\ plain'[p][o] <= MaxPlaintext * ciphertexts'[p][o].count
                        /\ ~Registered(p)' => plain'[p][o] = 0 /\ ciphertexts'[p][o].count = 0
        BY DEF SumsEncrypted, Encrypts
    <2>1. CASE p = q /\ o = x
        <3>1. /\ MaxPlaintext \in Nat /\ plain[q][x] \in Nat
              /\ plain[q][x] <= MaxPlaintext * a.count /\ Encrypts(a, plain[q][x])
            BY <1>2, <1>3, TallyAssumption DEF SumsEncrypted, ChainType
        <3>2. MaxPlaintext * (a.count + 1) = MaxPlaintext * a.count + MaxPlaintext /\ MaxPlaintext * a.count \in Nat
            BY <1>5, <3>1
        <3>3. plain[q][x] <= MaxPlaintext * d.count
            BY <1>6, <3>1, <3>2
        <3>4. Encrypts(d, plain[q][x])
            BY <1>6, <3>1 DEF Encrypts
        <3>5. QED
            BY <1>1, <1>3, <1>8, <1>10, <2>1, <3>3, <3>4
    <2>2. CASE p # q \/ o # x
        BY <1>1, <1>2, <1>8, <1>10, <2>2 DEF SumsEncrypted
    <2>3. QED
        BY <2>1, <2>2
<1>16. QED
    BY <1>10, <1>11, <1>12, <1>13, <1>14, <1>15 DEF TallyInv

\* Time closes polls, and opens none.
LEMMA TickKeeps ==
    ASSUME TallyInv, Tick
    PROVE  TallyInv'
<1>1. /\ now < MaxTime /\ now' = now + 1
      /\ UNCHANGED <<closeTime, ciphertexts, results, nullifiersUsed, decodable, spoiled, plain,
                     cacheVars, started, events, jobVars>>
    BY DEF Tick
<1>2. ChainType /\ ServiceType /\ KnownPolls /\ SumsEncrypted /\ ResultsPlain /\ OneCiphertextPerNullifier
    BY DEF TallyInv
<1>3. now \in Nat /\ now' \in 0..MaxTime /\ \A p \in Polls : closeTime[p] \in Nat
    <2>1. now \in Nat /\ MaxTime \in Nat /\ \A p \in Polls : closeTime[p] \in Nat
        BY <1>2, ClockTimes
    <2>2. QED
        BY <1>1, <2>1
<1>4. \A p \in Polls : Closed(p) => Closed(p)'
    BY <1>1, <1>3 DEF Closed, Registered
<1>5. ChainType' /\ ServiceType'
    BY <1>1, <1>2, <1>3 DEF ChainType, ServiceType, cacheVars, jobVars
<1>6. KnownPolls' /\ SumsEncrypted' /\ OneCiphertextPerNullifier'
    BY <1>1, <1>2 DEF KnownPolls, SumsEncrypted, OneCiphertextPerNullifier, Registered, jobVars
<1>7. ResultsPlain'
    BY <1>1, <1>2, <1>4 DEF ResultsPlain
<1>8. JobsPlain'
    BY <1>1, <1>4, JobsUntouched DEF jobVars
<1>9. QED
    BY <1>5, <1>6, <1>7, <1>8 DEF TallyInv

\* Steps that leave contract, events, timers and jobs alone keep what is known of them.
LEMMA ServiceUntouched ==
    ASSUME TallyInv, UNCHANGED chainVars, ServiceType', UNCHANGED jobs,
           \A s \in Services : events'[s] \subseteq events[s] /\ timers'[s] \subseteq timers[s]
    PROVE  TallyInv'
<1>1. ChainInv' /\ \A p : (Registered(p)' <=> Registered(p)) /\ (Closed(p)' <=> Closed(p))
    BY ChainUntouched
<1>2. KnownPolls'
    BY <1>1 DEF TallyInv, KnownPolls
<1>3. JobsPlain'
    BY <1>1, JobsUntouched DEF chainVars
<1>4. QED
    BY <1>1, <1>2, <1>3 DEF TallyInv, ChainInv

\* setVerifier is about votes to come.
LEMMA SetVerifierKeeps ==
    ASSUME TallyInv, SetVerifier
    PROVE  TallyInv'
BY DEF SetVerifier, TallyInv, ChainType, ServiceType, KnownPolls, SumsEncrypted, ResultsPlain,
       JobsPlain, OneCiphertextPerNullifier, Registered, Closed, cacheVars, jobVars

\* Listeners and the cache.
LEMMA StartKeeps ==
    ASSUME TallyInv, NEW s \in Services, Start(s)
    PROVE  TallyInv'
<1>1. UNCHANGED <<chainVars, events, timers, jobs>>
    BY DEF Start, jobVars
<1>2. ServiceType'
    BY DEF Start, TallyInv, ServiceType, cacheVars, jobVars
<1>3. QED
    BY <1>1, <1>2, ServiceUntouched

LEMMA StopKeeps ==
    ASSUME TallyInv, NEW s \in Services, Stop(s)
    PROVE  TallyInv'
<1>1. UNCHANGED <<chainVars, timers, jobs>> /\ events' = [events EXCEPT ![s] = {}]
    BY DEF Stop, jobVars
<1>2. ServiceType'
    BY <1>1 DEF Stop, TallyInv, ServiceType, cacheVars, jobVars
<1>3. \A t \in Services : events'[t] \subseteq events[t] /\ timers'[t] \subseteq timers[t]
    BY <1>1 DEF TallyInv, ServiceType
<1>4. QED
    BY <1>1, <1>2, <1>3, ServiceUntouched

\* A refresh holds a ciphertext the contract had.
LEMMA RefreshTyped ==
    ASSUME TallyInv, NEW s \in Services, NEW p \in Polls, NEW o \in Options, BeginRefresh(s, p, o)
    PROVE  refreshes' \subseteq Refreshes
BY DEF BeginRefresh, TallyInv, ChainType, ServiceType, Refreshes

LEMMA OnAccumulatedKeeps ==
    ASSUME TallyInv, NEW s \in Services, NEW e \in events[s], OnAccumulated(s, e)
    PROVE  TallyInv'
<1>1. /\ UNCHANGED <<chainVars, cache, started, timers, jobs, disturbed>>
      /\ events' = [events EXCEPT ![s] = @ \ {e}]
      /\ e.event = "EncryptedVoteAccumulated" /\ BeginRefresh(s, e.poll, e.option)
    BY DEF OnAccumulated, jobVars
<1>2. e \in Events
    BY DEF TallyInv, ServiceType
<1>3. e.poll \in Polls /\ e.option \in Options
    BY <1>1, <1>2 DEF Events
<1>4. refreshes' \subseteq Refreshes
    BY <1>1, <1>3, RefreshTyped
<1>5. ServiceType'
    BY <1>1, <1>4 DEF TallyInv, ServiceType
<1>6. \A t \in Services : events'[t] \subseteq events[t] /\ timers'[t] \subseteq timers[t]
    BY <1>1 DEF TallyInv, ServiceType
<1>7. QED
    BY <1>1, <1>5, <1>6, ServiceUntouched

LEMMA CacheKeeps ==
    ASSUME TallyInv,
           \/ \E s \in Services, p \in Polls, o \in Options : GetCiphertexts(s, p, o)
           \/ \E r \in refreshes : WriteSnapshot(r) \/ RefreshFails(r)
           \/ \E p \in Polls, o \in Options : SnapshotExpires(p, o)
    PROVE  TallyInv'
<1>1. UNCHANGED <<chainVars, started, events, timers, jobs, disturbed>>
    BY DEF GetCiphertexts, WriteSnapshot, RefreshFails, SnapshotExpires, jobVars
<1>2. refreshes' \subseteq Refreshes
    <2>1. CASE \E s \in Services, p \in Polls, o \in Options : GetCiphertexts(s, p, o)
        BY <2>1, RefreshTyped DEF GetCiphertexts
    <2>2. CASE refreshes' \subseteq refreshes
        BY <2>2 DEF TallyInv, ServiceType
    <2>3. QED
        BY <2>1, <2>2 DEF WriteSnapshot, RefreshFails, SnapshotExpires
<1>3. cache' \in [Polls -> [Options -> Ciphertext \cup {Cold}]]
    <2>1. CASE UNCHANGED cache
        BY <2>1 DEF TallyInv, ServiceType
    <2>2. ASSUME NEW r \in refreshes, WriteSnapshot(r)
          PROVE  cache' \in [Polls -> [Options -> Ciphertext \cup {Cold}]]
        <3>1. r.snap \in Ciphertext
            BY DEF TallyInv, ServiceType, Refreshes
        <3>2. QED
            BY <2>2, <3>1 DEF WriteSnapshot, TallyInv, ServiceType
    <2>3. ASSUME NEW p \in Polls, NEW o \in Options, SnapshotExpires(p, o)
          PROVE  cache' \in [Polls -> [Options -> Ciphertext \cup {Cold}]]
        BY <2>3 DEF SnapshotExpires, TallyInv, ServiceType
    <2>4. QED
        BY <2>1, <2>2, <2>3 DEF GetCiphertexts, RefreshFails
<1>4. ServiceType'
    BY <1>1, <1>2, <1>3 DEF TallyInv, ServiceType
<1>5. QED
    BY <1>1, <1>4, ServiceUntouched

\* The PollRegistered listener sets timers for polls the contract has.
LEMMA OnPollRegisteredKeeps ==
    ASSUME TallyInv, NEW s \in Services, NEW e \in events[s], OnPollRegistered(s, e)
    PROVE  TallyInv'
<1> DEFINE wait == closeTime[e.poll] - now
           at == IF wait + Buffer <= MaxDelay THEN now + wait + Buffer ELSE now
           t == [poll |-> e.poll, at |-> at]
<1>1. /\ UNCHANGED <<chainVars, cache, refreshes, started, jobs, disturbed>>
      /\ events' = [events EXCEPT ![s] = @ \ {e}]
      /\ timers' = IF wait > 0 THEN [timers EXCEPT ![s] = @ \cup {t}] ELSE timers
    BY DEF OnPollRegistered, cacheVars
<1>2. e \in Events /\ Registered(e.poll)
    BY DEF TallyInv, ServiceType, KnownPolls
<1>3. e.poll \in Polls
    BY <1>2 DEF Events
<1>4. t \in Timers /\ t.poll = e.poll
    <2>1. now \in Int /\ closeTime[e.poll] \in Int /\ Buffer \in Int
        BY <1>3, ClockTimes, TallyAssumption DEF TallyInv
    <2>2. at \in Int
        BY <2>1
    <2> HIDE DEF at
    <2>3. QED
        BY <1>3, <2>2 DEF Timers
<1> HIDE DEF wait, t
<1>5. ServiceType'
    BY <1>1, <1>4 DEF TallyInv, ServiceType
<1>6. ChainInv' /\ \A p : (Registered(p)' <=> Registered(p)) /\ (Closed(p)' <=> Closed(p))
    BY <1>1, ChainUntouched
<1>7. \A r \in Services : events'[r] \subseteq events[r] /\ timers'[r] \subseteq timers[r] \cup {t}
    BY <1>1 DEF TallyInv, ServiceType
<1>8. KnownPolls'
    BY <1>2, <1>4, <1>6, <1>7 DEF TallyInv, KnownPolls
<1>9. JobsPlain'
    BY <1>1, <1>6, JobsUntouched DEF chainVars
<1>10. QED
    BY <1>5, <1>6, <1>8, <1>9 DEF TallyInv, ChainInv

\* A step of a job: contract, events and timers keep what is known of them if the
\* job's new state is one a job may have.
GoodJob(p, j) ==
    /\ j \in JobStates
    /\ j # Idle => Closed(p) /\ (j.pc = "Submit" => j.tally = plain[p][j.option])

LEMMA JobMoves ==
    ASSUME TallyInv, UNCHANGED <<chainVars, cacheVars, started, events>>, disturbed' \subseteq Services,
           NEW s \in Services, NEW p \in Polls, NEW j, GoodJob(p, j),
           jobs' = [jobs EXCEPT ![s][p] = j], timers' \in [Services -> SUBSET Timers],
           \A r \in Services : timers'[r] \subseteq timers[r]
    PROVE  TallyInv'
<1>1. ChainInv' /\ \A q : (Registered(q)' <=> Registered(q)) /\ (Closed(q)' <=> Closed(q))
    BY ChainUntouched
<1>2. ServiceType'
    BY DEF TallyInv, ServiceType, cacheVars, GoodJob
<1>3. KnownPolls'
    BY <1>1 DEF TallyInv, KnownPolls
<1>4. \A r \in Services, q \in Polls : jobs'[r][q] = IF r = s /\ q = p THEN j ELSE jobs[r][q]
    BY DEF TallyInv, ServiceType
<1>5. UNCHANGED plain
    BY DEF chainVars
<1>6. JobsPlain'
    <2> SUFFICES ASSUME NEW r \in Services, NEW q \in Polls, jobs'[r][q] # Idle
                 PROVE  /\ Closed(q)'
                        /\ jobs'[r][q].pc = "Submit" => jobs'[r][q].tally = plain'[q][jobs'[r][q].option]
        BY DEF JobsPlain
    <2>1. CASE r = s /\ q = p
        BY <1>1, <1>4, <1>5, <2>1 DEF GoodJob
    <2>2. CASE ~(r = s /\ q = p)
        BY <1>1, <1>4, <1>5, <2>2 DEF TallyInv, JobsPlain
    <2>3. QED
        BY <2>1, <2>2
<1>7. QED
    BY <1>1, <1>2, <1>3, <1>6 DEF TallyInv, ChainInv

\* A job that runs stands at an option of a closed poll.
LEMMA JobAt ==
    ASSUME TallyInv, NEW s \in Services, NEW p \in Polls, jobs[s][p] # Idle
    PROVE  /\ Closed(p) /\ jobs[s][p].option \in Options
           /\ jobs[s][p].pc \in {"Check", "Read", "Submit"}
           /\ jobs[s][p].pc \in {"Check", "Read"} => jobs[s][p] \in [pc : {"Check", "Read"}, option : Options]
           /\ jobs[s][p].pc = "Submit" => /\ jobs[s][p].tally \in 0..MaxVoters
                                          /\ jobs[s][p].tally = plain[p][jobs[s][p].option]
<1>1. jobs[s][p] \in JobStates
    BY DEF TallyInv, ServiceType
<1>2. QED
    BY <1>1 DEF TallyInv, JobsPlain, JobStates

LEMMA NotIdle ==
    ASSUME NEW j, j.pc \in {"Check", "Read", "Submit"}
    PROVE  j # Idle
BY DEF Idle

\* A round of the loop is a state a job may have.
LEMMA LoopIsGood ==
    ASSUME TallyInv, NEW p \in Polls, Closed(p), NEW o \in Nat
    PROVE  GoodJob(p, LoopAt(o))
<1>1. OptionCount \in Nat
    BY TallyAssumption
<1>2. LoopAt(o) \in JobStates
    <2>1. CASE o < OptionCount
        <3>1. o \in 0..OptionCount - 1
            BY <1>1, <2>1
        <3>2. QED
            BY <2>1, <3>1 DEF LoopAt, JobStates, Options
    <2>2. CASE ~(o < OptionCount)
        BY <2>2 DEF LoopAt, JobStates
    <2>3. QED
        BY <2>1, <2>2
<1>3. LoopAt(o) # Idle => LoopAt(o).pc = "Check"
    BY DEF LoopAt
<1>4. QED
    BY <1>2, <1>3 DEF GoodJob

LEMMA NextOptionIs ==
    ASSUME TallyInv, NEW s \in Services, NEW p \in Polls, jobs[s][p] # Idle, NextOption(s, p)
    PROVE  /\ jobs' = [jobs EXCEPT ![s][p] = LoopAt(jobs[s][p].option + 1)]
           /\ GoodJob(p, LoopAt(jobs[s][p].option + 1))
<1>1. jobs' = [jobs EXCEPT ![s][p] = LoopAt(jobs[s][p].option + 1)]
    BY DEF NextOption
<1>2. Closed(p) /\ jobs[s][p].option \in 0..OptionCount - 1 /\ OptionCount \in Nat
    BY JobAt, TallyAssumption DEF Options
<1>3. jobs[s][p].option + 1 \in Nat
    BY <1>2
<1>4. QED
    BY <1>1, <1>2, <1>3, LoopIsGood

LEMMA TimersTyped ==
    ASSUME TallyInv, UNCHANGED timers
    PROVE  timers' \in [Services -> SUBSET Timers] /\ \A r \in Services : timers'[r] \subseteq timers[r]
BY DEF TallyInv, ServiceType

\* _finaliseAll: the loop starts at the first option of a closed poll.
LEMMA FinaliseAllKeeps ==
    ASSUME TallyInv, NEW s \in Services, NEW t \in timers[s], FinaliseAll(s, t)
    PROVE  TallyInv'
<1> DEFINE j == LoopAt(0)
<1>1. /\ UNCHANGED <<chainVars, cacheVars, started, events, disturbed>>
      /\ timers' = [timers EXCEPT ![s] = @ \ {t}]
      /\ jobs' = IF closeTime[t.poll] > now THEN jobs ELSE [jobs EXCEPT ![s][t.poll] = j]
    BY DEF FinaliseAll
<1>2. t \in Timers /\ Registered(t.poll)
    BY DEF TallyInv, ServiceType, KnownPolls
<1>3. t.poll \in Polls
    BY <1>2 DEF Timers
<1>4. timers' \in [Services -> SUBSET Timers] /\ \A r \in Services : timers'[r] \subseteq timers[r]
    BY <1>1 DEF TallyInv, ServiceType
<1>5. disturbed' \subseteq Services
    BY <1>1 DEF TallyInv, ServiceType
<1>6. CASE closeTime[t.poll] > now
    <2>1. ServiceType'
        BY <1>1, <1>4, <1>6 DEF TallyInv, ServiceType, cacheVars
    <2>2. QED
        BY <1>1, <1>4, <1>6, <2>1, ServiceUntouched
<1>7. CASE ~(closeTime[t.poll] > now)
    <2>1. closeTime[t.poll] \in Nat /\ now \in Nat
        BY <1>3, ClockTimes DEF TallyInv
    <2>2. Closed(t.poll)
        BY <1>2, <1>7, <2>1 DEF Closed
    <2>4. GoodJob(t.poll, j)
        BY <1>3, <2>2, LoopIsGood
    <2> HIDE DEF j
    <2>5. QED
        BY <1>1, <1>3, <1>4, <1>5, <1>7, <2>4, JobMoves
<1>8. QED
    BY <1>6, <1>7

\* _finaliseOption: an option that has a result is passed over.
LEMMA CheckResultKeeps ==
    ASSUME TallyInv, NEW s \in Services, NEW p \in Polls, CheckResult(s, p)
    PROVE  TallyInv'
<1>1. /\ UNCHANGED <<chainVars, cacheVars, started, events, timers, disturbed>>
      /\ jobs[s][p].pc = "Check"
    BY DEF CheckResult
<1>2. timers' \in [Services -> SUBSET Timers] /\ \A r \in Services : timers'[r] \subseteq timers[r]
    BY <1>1, TimersTyped
<1>3. disturbed' \subseteq Services
    BY <1>1 DEF TallyInv, ServiceType
<1>4. jobs[s][p] # Idle
    BY <1>1, NotIdle
<1>5. CASE NextOption(s, p)
    BY <1>1, <1>2, <1>3, <1>4, <1>5, NextOptionIs, JobMoves
<1>6. CASE jobs' = [jobs EXCEPT ![s][p].pc = "Read"]
    <2> DEFINE j == [pc |-> "Read", option |-> jobs[s][p].option]
    <2>1. /\ Closed(p) /\ jobs[s][p].option \in Options
          /\ jobs[s][p] \in [pc : {"Check", "Read"}, option : Options]
        BY <1>1, <1>4, JobAt
    <2>2. [jobs[s][p] EXCEPT !.pc = "Read"] = j
        BY <2>1
    <2>3. jobs' = [jobs EXCEPT ![s][p] = j]
        BY <1>6, <2>2
    <2>4. GoodJob(p, j)
        BY <2>1 DEF GoodJob, JobStates
    <2> HIDE DEF j
    <2>5. QED
        BY <1>1, <1>2, <1>3, <2>3, <2>4, JobMoves
<1>7. QED
    BY <1>5, <1>6 DEF CheckResult

\* What the service decrypts from the sums of an option.
LEMMA SumDecrypts ==
    ASSUME TallyInv, NEW p \in Polls, NEW o \in Options, Registered(p)
    PROVE  Decrypted(ciphertexts[p][o]) = IF plain[p][o] <= MaxVoters THEN plain[p][o] ELSE NotFound
<1>1. /\ Encrypts(ciphertexts[p][o], plain[p][o])
      /\ plain[p][o] <= MaxPlaintext * ciphertexts[p][o].count
    BY DEF TallyInv, SumsEncrypted
<1>2. /\ Cardinality(Voters) \in Nat /\ MaxPlaintext \in Nat
      /\ ciphertexts[p][o].count \in 0..Cardinality(Voters) /\ plain[p][o] \in Nat
    BY FS_CardinalityType, TallyAssumption DEF TallyInv, ChainType, Ciphertext
<1>3. MaxPlaintext * ciphertexts[p][o].count <= MaxPlaintext * Cardinality(Voters)
    <2>1. PICK d \in Nat : Cardinality(Voters) = ciphertexts[p][o].count + d
        <3>1. Cardinality(Voters) - ciphertexts[p][o].count \in Nat
            BY <1>2
        <3>2. QED
            BY <1>2, <3>1
    <2>2. MaxPlaintext * d \in Nat
        BY <1>2
    <2>3. MaxPlaintext * Cardinality(Voters) = MaxPlaintext * ciphertexts[p][o].count + MaxPlaintext * d
        BY <1>2, <2>1
    <2>4. MaxPlaintext * ciphertexts[p][o].count \in Nat
        BY <1>2
    <2>5. QED
        BY <2>2, <2>3, <2>4
<1>4. plain[p][o] \in 0..MaxSum
    <2>1. MaxSum \in Nat /\ MaxPlaintext * ciphertexts[p][o].count \in Nat
        BY <1>2 DEF MaxSum
    <2>2. QED
        BY <1>1, <1>2, <1>3, <2>1 DEF MaxSum
<1>5. QED
    BY <1>1, <1>4, DecryptionUndoesEncryption

\* _finaliseOption: the number found is the sum, and the poll takes no more votes.
LEMMA ReadAccumulatedKeeps ==
    ASSUME TallyInv, NEW s \in Services, NEW p \in Polls, ReadAccumulated(s, p)
    PROVE  TallyInv'
<1> DEFINE o == jobs[s][p].option
           v == Recovered(p, o)
           j == [pc |-> "Submit", option |-> o, tally |-> v]
<1>1. /\ UNCHANGED <<chainVars, cacheVars, started, events, timers, disturbed>>
      /\ jobs[s][p].pc = "Read"
      /\ IF v = NotFound THEN NextOption(s, p) ELSE jobs' = [jobs EXCEPT ![s][p] = j]
    BY DEF ReadAccumulated
<1>2. timers' \in [Services -> SUBSET Timers] /\ \A r \in Services : timers'[r] \subseteq timers[r]
    BY <1>1, TimersTyped
<1>3. disturbed' \subseteq Services
    BY <1>1 DEF TallyInv, ServiceType
<1>4. jobs[s][p] # Idle
    BY <1>1, NotIdle
<1>5. CASE v = NotFound
    BY <1>1, <1>2, <1>3, <1>4, <1>5, NextOptionIs, JobMoves
<1>6. CASE v # NotFound
    <2>1. Closed(p) /\ o \in Options
        BY <1>4, JobAt
    <2>2. v = IF plain[p][o] <= MaxVoters THEN plain[p][o] ELSE NotFound
        BY <1>6, <2>1, SumDecrypts DEF Closed, Recovered
    <2>3. plain[p][o] \in Nat /\ MaxVoters \in Nat
        BY <2>1, TallyAssumption DEF TallyInv, ChainType
    <2> HIDE DEF v
    <2>4. v = plain[p][o] /\ v \in 0..MaxVoters
        BY <1>6, <2>2, <2>3
    <2>5. j \in JobStates
        BY <2>1, <2>4 DEF JobStates
    <2>6. GoodJob(p, j)
        BY <2>1, <2>4, <2>5 DEF GoodJob
    <2> HIDE DEF j
    <2>7. QED
        BY <1>1, <1>2, <1>3, <1>6, <2>6, JobMoves
<1>7. QED
    BY <1>5, <1>6

\* finaliseDecryption: what is posted is the sum, after the close, and the loop
\* goes on whether the call reverts or not.
LEMMA FinaliseDecryptionKeeps ==
    ASSUME TallyInv, NEW s \in Services, NEW p \in Polls, FinaliseDecryption(s, p)
    PROVE  TallyInv'
<1> DEFINE o == jobs[s][p].option
           j == LoopAt(o + 1)
<1>1. /\ UNCHANGED <<now, closeTime, ciphertexts, nullifiersUsed, decodable, spoiled, plain,
                     cacheVars, started, events, timers, disturbed>>
      /\ jobs[s][p].pc = "Submit" /\ NextOption(s, p)
      /\ results' = IF CanFinalise(p, o) THEN [results EXCEPT ![p][o] = jobs[s][p].tally] ELSE results
    BY DEF FinaliseDecryption
<1>2. jobs[s][p] # Idle
    BY <1>1, NotIdle
<1>3. Closed(p) /\ o \in Options /\ jobs[s][p].tally \in 0..MaxVoters /\ jobs[s][p].tally = plain[p][o]
    BY <1>1, <1>2, JobAt
<1>4. jobs' = [jobs EXCEPT ![s][p] = j] /\ GoodJob(p, j)
    BY <1>1, <1>2, NextOptionIs
<1> HIDE DEF j
<1>5. \A q : (Registered(q)' <=> Registered(q)) /\ (Closed(q)' <=> Closed(q))
    BY <1>1 DEF Registered, Closed
<1>6. /\ results' \in [Polls -> [Options -> 0..MaxVoters \cup {Pending}]]
      /\ \A q \in Polls, i \in Options :
            results'[q][i] = results[q][i] \/ (q = p /\ i = o /\ results'[q][i] = plain[p][o])
    <2> HIDE DEF o
    <2>1. results \in [Polls -> [Options -> 0..MaxVoters \cup {Pending}]]
        BY DEF TallyInv, ChainType
    <2>2. QED
        BY <1>1, <1>3, <2>1
<1>7. ChainType' /\ SumsEncrypted' /\ OneCiphertextPerNullifier' /\ KnownPolls'
    <2>1. ChainType'
        BY <1>1, <1>6 DEF TallyInv, ChainType
    <2>2. SumsEncrypted' /\ OneCiphertextPerNullifier' /\ KnownPolls'
        BY <1>1 DEF TallyInv, SumsEncrypted, OneCiphertextPerNullifier, KnownPolls, Registered
    <2>3. QED
        BY <2>1, <2>2
<1>8. ResultsPlain'
    <2> SUFFICES ASSUME NEW q \in Polls, NEW i \in Options, results'[q][i] # Pending
                 PROVE  Closed(q)' /\ results'[q][i] = plain'[q][i]
        BY DEF ResultsPlain, Pending
    <2>1. CASE results'[q][i] = results[q][i]
        BY <1>1, <1>5, <2>1 DEF TallyInv, ResultsPlain
    <2>2. CASE q = p /\ i = o /\ results'[q][i] = plain[p][o]
        BY <1>1, <1>3, <1>5, <2>2
    <2>3. QED
        BY <1>6, <2>1, <2>2
<1>9. ServiceType'
    BY <1>1, <1>4 DEF TallyInv, ServiceType, cacheVars, GoodJob
<1>10. JobsPlain'
    <2>1. \A r \in Services, q \in Polls : jobs'[r][q] = IF r = s /\ q = p THEN j ELSE jobs[r][q]
        BY <1>4 DEF TallyInv, ServiceType
    <2> SUFFICES ASSUME NEW r \in Services, NEW q \in Polls, jobs'[r][q] # Idle
                 PROVE  /\ Closed(q)'
                        /\ jobs'[r][q].pc = "Submit" => jobs'[r][q].tally = plain'[q][jobs'[r][q].option]
        BY DEF JobsPlain
    <2>2. CASE r = s /\ q = p
        BY <1>1, <1>4, <1>5, <2>1, <2>2 DEF GoodJob
    <2>3. CASE ~(r = s /\ q = p)
        BY <1>1, <1>5, <2>1, <2>3 DEF TallyInv, JobsPlain
    <2>4. QED
        BY <2>2, <2>3
<1>11. QED
    BY <1>7, <1>8, <1>9, <1>10 DEF TallyInv

\* A call that fails: the loop goes on.
LEMMA CallFailsKeeps ==
    ASSUME TallyInv, NEW s \in Services, NEW p \in Polls, CallFails(s, p)
    PROVE  TallyInv'
<1>1. /\ UNCHANGED <<chainVars, cacheVars, started, events, timers>>
      /\ jobs[s][p] # Idle /\ NextOption(s, p) /\ disturbed' = disturbed \cup {s}
    BY DEF CallFails
<1>2. timers' \in [Services -> SUBSET Timers] /\ \A r \in Services : timers'[r] \subseteq timers[r]
    BY <1>1, TimersTyped
<1>3. disturbed' \subseteq Services
    BY <1>1 DEF TallyInv, ServiceType
<1>4. QED
    BY <1>1, <1>2, <1>3, NextOptionIs, JobMoves

\* A process that ends takes its listeners, refreshes, timers and jobs with it.
LEMMA DiesKeeps ==
    ASSUME TallyInv, NEW s \in Services, Dies(s), disturbed' \subseteq Services
    PROVE  TallyInv'
<1> DEFINE none == [p \in Polls |-> Idle]
<1>1. /\ UNCHANGED <<chainVars, cache>> /\ started' = started \ {s}
      /\ events' = [events EXCEPT ![s] = {}]
      /\ refreshes' = {r \in refreshes : r.by # s}
      /\ timers' = [timers EXCEPT ![s] = {}]
      /\ jobs' = [jobs EXCEPT ![s] = none]
    BY DEF Dies
<1>2. none \in [Polls -> JobStates] /\ \A p \in Polls : none[p] = Idle
    BY DEF JobStates
<1> HIDE DEF none
<1>3. ServiceType'
    BY <1>1, <1>2 DEF TallyInv, ServiceType
<1>4. ChainInv' /\ \A p : (Registered(p)' <=> Registered(p)) /\ (Closed(p)' <=> Closed(p))
    BY <1>1, ChainUntouched
<1>5. \A r \in Services : events'[r] \subseteq events[r] /\ timers'[r] \subseteq timers[r]
    BY <1>1 DEF TallyInv, ServiceType
<1>6. KnownPolls'
    BY <1>4, <1>5 DEF TallyInv, KnownPolls
<1>7. JobsPlain'
    <2>1. \A r \in Services, p \in Polls : jobs'[r][p] \in {Idle, jobs[r][p]}
        BY <1>1, <1>2 DEF TallyInv, ServiceType
    <2>2. UNCHANGED plain
        BY <1>1 DEF chainVars
    <2>3. QED
        BY <1>4, <2>1, <2>2 DEF TallyInv, JobsPlain
<1>8. QED
    BY <1>3, <1>4, <1>6, <1>7 DEF TallyInv, ChainInv

LEMMA CrashKeeps ==
    ASSUME TallyInv, NEW s \in Services, Crash(s)
    PROVE  TallyInv'
<1>1. disturbed' \subseteq Services
    BY DEF Crash, TallyInv, ServiceType
<1>2. QED
    BY <1>1, DiesKeeps DEF Crash

LEMMA PollsThrowsKeeps ==
    ASSUME TallyInv, NEW s \in Services, NEW t \in timers[s], PollsThrows(s, t)
    PROVE  TallyInv'
<1>1. disturbed' \subseteq Services
    BY DEF PollsThrows, TallyInv, ServiceType
<1>2. QED
    BY <1>1, DiesKeeps DEF PollsThrows

-----------------------------------------------------------------------------
(* Theorems of the specification *)

LEMMA NextTally ==
    ASSUME TallyInv, [Next]_vars
    PROVE  TallyInv'
<1>1. CASE ContractStep
    BY <1>1, RegisterPollKeeps, SubmitEncryptedVoteKeeps, SubmitMalformedVoteKeeps, SetVerifierKeeps
    DEF ContractStep
<1>2. CASE Tick
    BY <1>2, TickKeeps
<1>3. ASSUME NEW s \in Services, Start(s) \/ Stop(s) \/ Crash(s)
      PROVE  TallyInv'
    BY <1>3, StartKeeps, StopKeeps, CrashKeeps
<1>4. ASSUME NEW s \in Services, NEW e \in events[s], OnAccumulated(s, e) \/ OnPollRegistered(s, e)
      PROVE  TallyInv'
    BY <1>4, OnAccumulatedKeeps, OnPollRegisteredKeeps
<1>5. ASSUME NEW s \in Services, NEW t \in timers[s], FinaliseAll(s, t) \/ PollsThrows(s, t)
      PROVE  TallyInv'
    BY <1>5, FinaliseAllKeeps, PollsThrowsKeeps
<1>6. ASSUME NEW s \in Services, NEW p \in Polls, Job(s, p) \/ CallFails(s, p)
      PROVE  TallyInv'
    BY <1>6, CheckResultKeeps, ReadAccumulatedKeeps, FinaliseDecryptionKeeps, CallFailsKeeps DEF Job
<1>7. CASE \/ \E s \in Services, p \in Polls, o \in Options : GetCiphertexts(s, p, o)
           \/ \E r \in refreshes : WriteSnapshot(r) \/ RefreshFails(r)
           \/ \E p \in Polls, o \in Options : SnapshotExpires(p, o)
    BY <1>7, CacheKeeps
<1>8. CASE UNCHANGED vars
    <2>1. UNCHANGED <<chainVars, cacheVars, started, events, jobVars>>
        BY <1>8 DEF vars
    <2>2. ServiceType'
        BY <2>1 DEF TallyInv, ServiceType, cacheVars, jobVars
    <2>3. UNCHANGED <<jobs, events, timers>>
        BY <2>1 DEF jobVars
    <2>4. QED
        BY <2>1, <2>2, <2>3, ServiceUntouched
<1>9. QED
    BY <1>1, <1>2, <1>3, <1>4, <1>5, <1>6, <1>7, <1>8 DEF Next

\* The inductive invariant: the contract's accumulators encrypt the plain sums,
\* results and jobs about to post one hold the sum of a closed poll.
\* (Every handler of contract and service)
THEOREM TallyInvariant == Spec => []TallyInv
<1>1. Init => TallyInv
    BY InitTally
<1>2. TallyInv /\ [Next]_vars => TallyInv'
    BY NextTally
<1>3. QED
    BY <1>1, <1>2, PTL DEF Spec

\* State of contract, cache and instances keeps its shape, a running job stands
\* at an option of a closed poll, and counts match nullifiers. (All handlers)
THEOREM TallyTypeCorrect == Spec => []TypeOK
<1>1. TallyInv => TypeOK
    <2> SUFFICES ASSUME TallyInv PROVE TypeOK
        OBVIOUS
    <2>1. ASSUME NEW s \in Services, NEW p \in Polls, jobs[s][p] # Idle
          PROVE  /\ jobs[s][p].option \in Options
                 /\ jobs[s][p].pc \in {"Check", "Read", "Submit"}
                 /\ closeTime[p] <= now
        BY <2>1, JobAt DEF Closed
    <2>2. QED
        BY <2>1 DEF TallyInv, ChainType, ServiceType, TypeOK
<1>2. QED
    BY <1>1, TallyInvariant, PTL

\* A result shown is the sum of all plaintexts the option received, for every
\* curve, key, set of voters and number of services.
\* (submitEncryptedVote, _finaliseOption, finaliseDecryption, getTallyResults)
THEOREM ResultsArePlainSums == Spec => []ResultIsThePlainSum
<1>1. TallyInv => ResultIsThePlainSum
    BY DEF TallyInv, ResultsPlain, ResultIsThePlainSum, getTallyResults
<1>2. QED
    BY <1>1, TallyInvariant, PTL

\* Decrypting an option's sums at any time yields the sum of its plaintexts, if
\* it is at most MAX_VOTERS and all the option received are ciphertexts, and
\* nothing otherwise. (_babyJubAdd, bjjScalarMul, bsgs, _finaliseOption)
THEOREM SumsDecrypt == Spec => []EverySumDecrypts
<1>1. TallyInv => EverySumDecrypts
    BY SumDecrypts DEF EverySumDecrypts, Registered, Recovered
<1>2. QED
    BY <1>1, TallyInvariant, PTL

-----------------------------------------------------------------------------
(* Refinement of the sealed poll *)

\* Steps that add no vote and post no result close polls, or do nothing.
LEMMA PollsClose ==
    ASSUME UNCHANGED <<plain, results>>, \A p \in Polls : Closed(p) => Closed(p)'
    PROVE  Sealed!SealedNext
<1>1. ClosedPolls \subseteq ClosedPolls' /\ ClosedPolls' \in SUBSET Polls
    BY DEF ClosedPolls, Closed, Registered
<1>2. Sealed!Close(ClosedPolls')
    BY <1>1 DEF Sealed!Close
<1>3. QED
    BY <1>1, <1>2 DEF Sealed!SealedNext

LEMMA VoteAdds ==
    ASSUME TallyInv, NEW p \in Polls, NEW o \in Options, NEW n \in Voters, SubmitEncryptedVote(p, o, n)
    PROVE  Sealed!SealedNext
<1>1. /\ now < closeTime[p] /\ UNCHANGED <<now, closeTime, results>>
      /\ plain' = [plain EXCEPT ![p][o] = @ + Plaintext[n]]
    BY DEF SubmitEncryptedVote, Accepts
<1>2. p \notin ClosedPolls /\ UNCHANGED ClosedPolls
    <2>1. now \in Nat /\ closeTime[p] \in Nat
        BY ClockTimes DEF TallyInv
    <2>2. ~(closeTime[p] <= now)
        BY <1>1, <2>1
    <2>3. QED
        BY <1>1, <2>2 DEF ClosedPolls
<1>3. Plaintext[n] \in 0..MaxPlaintext
    BY TallyAssumption
<1>4. Sealed!Add(p, o, Plaintext[n])
    BY <1>1, <1>2 DEF Sealed!Add
<1>5. QED
    BY <1>3, <1>4 DEF Sealed!SealedNext

LEMMA ResultDeclares ==
    ASSUME TallyInv, NEW s \in Services, NEW p \in Polls, FinaliseDecryption(s, p)
    PROVE  Sealed!SealedNext
<1> DEFINE o == jobs[s][p].option
<1>1. /\ UNCHANGED <<now, closeTime, plain>> /\ jobs[s][p].pc = "Submit"
      /\ results' = IF CanFinalise(p, o) THEN [results EXCEPT ![p][o] = jobs[s][p].tally] ELSE results
    BY DEF FinaliseDecryption
<1>2. UNCHANGED ClosedPolls
    BY <1>1 DEF ClosedPolls
<1>3. CASE CanFinalise(p, o)
    <2>1. Closed(p) /\ o \in Options /\ jobs[s][p].tally \in 0..MaxVoters /\ jobs[s][p].tally = plain[p][o]
        BY <1>1, NotIdle, JobAt
    <2>2. p \in ClosedPolls /\ plain[p][o] <= MaxVoters
        BY <2>1, TallyAssumption DEF ClosedPolls, Closed, Registered
    <2>3. results[p][o] = Sealed!NotDeclared
        BY <1>3 DEF CanFinalise, Pending, Sealed!NotDeclared
    <2>4. results' = [results EXCEPT ![p][o] = plain[p][o]]
        BY <1>1, <1>3, <2>1
    <2>5. Sealed!Declare(p, o)
        BY <1>1, <1>2, <2>2, <2>3, <2>4 DEF Sealed!Declare
    <2>6. QED
        BY <2>1, <2>5 DEF Sealed!SealedNext
<1>4. CASE ~CanFinalise(p, o)
    BY <1>1, <1>4, PollsClose DEF Closed, Registered
<1>5. QED
    BY <1>3, <1>4

LEMMA OthersClosePolls ==
    ASSUME TallyInv, [Next]_vars,
           \A p \in Polls, o \in Options, n \in Voters : ~SubmitEncryptedVote(p, o, n),
           \A s \in Services, p \in Polls : ~FinaliseDecryption(s, p)
    PROVE  Sealed!SealedNext
<1>1. now \in Nat /\ \A p \in Polls : closeTime[p] \in Nat
    BY ClockTimes DEF TallyInv
<1>2. ASSUME NEW q \in Polls, NEW close \in CloseTimes, RegisterPoll(q, close)
      PROVE  Sealed!SealedNext
    <2>1. /\ closeTime[q] = Unregistered /\ UNCHANGED <<now, results, plain>>
          /\ closeTime' = [closeTime EXCEPT ![q] = close]
        BY <1>2 DEF RegisterPoll
    <2>2. \A p \in Polls : Closed(p) => p # q
        BY <2>1 DEF Closed, Registered
    <2>3. \A p \in Polls : p # q => closeTime'[p] = closeTime[p]
        BY <2>1 DEF TallyInv, ChainType
    <2>4. \A p \in Polls : Closed(p) => Closed(p)'
        BY <2>1, <2>2, <2>3 DEF Closed, Registered
    <2>5. QED
        BY <2>1, <2>4, PollsClose
<1>3. CASE Tick
    <2>1. now' = now + 1 /\ UNCHANGED <<closeTime, results, plain>>
        BY <1>3 DEF Tick
    <2>2. \A p \in Polls : Closed(p) => Closed(p)'
        BY <1>1, <2>1 DEF Closed, Registered
    <2>3. QED
        BY <2>1, <2>2, PollsClose
<1>4. CASE UNCHANGED <<now, closeTime, results, plain>>
    BY <1>4, PollsClose DEF Closed, Registered
<1>5. ASSUME NEW s \in Services, NEW p \in Polls, Job(s, p)
      PROVE  UNCHANGED <<now, closeTime, results, plain>>
    BY <1>5 DEF Job, CheckResult, ReadAccumulated, chainVars
<1>6. QED
    BY <1>2, <1>3, <1>4, <1>5
    DEF Next, ContractStep, SubmitMalformedVote, SetVerifier, Start, Stop, Crash, Dies, OnAccumulated,
        OnPollRegistered, FinaliseAll, PollsThrows, CallFails, GetCiphertexts, WriteSnapshot, RefreshFails, SnapshotExpires, vars, chainVars

\* Whoever sees the plain sums, the closed polls and the posted results sees a
\* sealed poll: no vote is added after the close, and a result is posted once,
\* after it. (submitEncryptedVote, _finaliseAll, finaliseDecryption)
THEOREM TallyImplementsSealedPoll == Spec => ImplementsSealedPoll
<1>1. Init => Sealed!SealedInit
    BY DEF Init, Sealed!SealedInit, ClosedPolls, Pending, Sealed!NotDeclared
<1>2. TallyInv /\ [Next]_vars => [Sealed!SealedNext]_Sealed!sealedVars
    BY VoteAdds, ResultDeclares, OthersClosePolls
<1>3. QED
    BY <1>1, <1>2, TallyInvariant, PTL DEF Spec, ImplementsSealedPoll, Sealed!SealedSpec

=============================================================================
