---------------------------- MODULE LiveTallyProofs ----------------------------
(***************************************************************************)
(* Proofs about the live results feed, for any policies, options, clients,  *)
(* start blocks and bounds on the chain and the restarts.                   *)
(***************************************************************************)
EXTENDS LiveTally, FiniteSetTheorems, SequenceTheorems, WellFoundedInduction, TLAPS

-----------------------------------------------------------------------------
(* The invariant *)

Events == [event : {"VoteCast"}, policy : Policies, option : Options, block : 1 .. MaxHeight]
          \cup [event : {"PolicyFinalized"}, policy : Policies, block : 1 .. MaxHeight]

\* The chain's events are in the order of their blocks, the newest in the next block.
ChainInv ==
    /\ declared \in BOOLEAN
    /\ events \in Seq(Events)
    /\ height \in 0 .. MaxHeight
    /\ \A i \in 1 .. Len(events) : events[i].block <= height + 1
    /\ \A i, j \in 1 .. Len(events) : i <= j => events[i].block <= events[j].block

\* Subscriptions exist while the service subscribes, and begin at what was sealed.
ServiceInv ==
    /\ service \in {"Down", "CatchUp", "Subscribing", "Failed", "Stopped"}
    /\ lastSeen \in Nat
    /\ starts \in 0 .. MaxStarts
    /\ origin \in Origins
    /\ tallies \in [Tracked -> Tally]
    /\ voteCursor = Off \/ (voteCursor \in Sealed \cup {0} /\ base \in 0 .. voteCursor)
    /\ base = Off \/ base \in Sealed \cup {0}
    /\ finalCursor = Off \/ finalCursor \in 0 .. Len(events)
    /\ service # "Subscribing" => voteCursor = Off /\ finalCursor = Off
    /\ service = "Down" => origin = "Live"
    /\ service \in {"CatchUp", "Failed"} => origin # "Live"

\* What the subscription delivered is not after the last seen block.
SeenInv ==
    \A i \in Sealed : base < i /\ i <= voteCursor /\ IsVote(i) => events[i].block <= lastSeen

\* The events a process can have counted: those delivered, or before that the sealed.
Passed == IF voteCursor = Off THEN Sealed ELSE 1 .. voteCursor

\* Nothing is counted twice before a restart.
OnceInv ==
    origin # "Restarted" =>
        \A p \in Tracked :
            /\ service \in {"Down", "CatchUp"} => tallies[p].total = 0
            /\ tallies[p].total <= Cardinality(VotesAmong(p, Passed))

ClientInv ==
    /\ subs \in [Clients -> SUBSET Policies]
    /\ shown \in [Clients -> [Policies -> Tally \cup {Nothing}]]
    /\ \A c \in Clients, p \in Policies :
          shown[c][p] # Nothing => p \in Tracked /\ shown[c][p].total <= tallies[p].total
    /\ ClientsShowTheTally

FeedInv == ChainInv /\ ServiceInv /\ SeenInv /\ OnceInv /\ ClientInv

\* In a process that lives on its subscription, the last seen block is that of a vote
\* it was delivered, and the tallies hold the first vote of every block.
Zero(t) == t.total = 0 /\ \A o \in Fields : t.counts[o] = 0

LiveInv ==
    origin = "Live" =>
        /\ voteCursor = Off /\ service # "Stopped" =>
              lastSeen = 0 /\ \A p \in Tracked : Zero(tallies[p])
        /\ voteCursor # Off =>
              lastSeen = 0 \/ \E i \in base + 1 .. voteCursor : IsVote(i) /\ events[i].block = lastSeen

CountInv == LiveInv /\ FirstVotesCounted

-----------------------------------------------------------------------------
(* Numbers *)

\* A set of natural numbers has a least element.
LEMMA LeastElement ==
    ASSUME NEW S \in SUBSET Nat, S # {}
    PROVE  \E m \in S : \A k \in S : m <= k
<1> DEFINE R == {ss \in Nat \X Nat : ss[1] < ss[2]}
<1>1. IsWellFoundedOn(R, Nat)
    BY NatLessThanWellFounded DEF OpToRel
<1>2. \A k, m \in Nat : k < m => <<k, m>> \in R
    OBVIOUS
<1> HIDE DEF R
<1>3. PICK m \in S : \A k \in S : <<k, m>> \notin R
    BY <1>1, WFMin
<1>4. ASSUME NEW k \in S PROVE m <= k
    <2>1. ~(k < m)
        BY <1>2, <1>3
    <2>2. QED
        BY <2>1
<1>5. QED
    BY <1>4

\* A set of natural numbers with an upper bound has a greatest element.
LEMMA GreatestElement ==
    ASSUME NEW S \in SUBSET Nat, S # {}, NEW b \in Nat, \A k \in S : k <= b
    PROVE  \E m \in S : \A k \in S : k <= m
<1> DEFINE Above == {u \in Nat : \A k \in S : k <= u}
<1>1. PICK u \in Above : \A v \in Above : u <= v
    <2>1. b \in Above
        OBVIOUS
    <2>2. QED
        BY <2>1, LeastElement
<1>2. u \in S
    <2> SUFFICES ASSUME u \notin S PROVE FALSE
        OBVIOUS
    <2>1. \A k \in S : k \in Nat /\ k <= u - 1
        BY <1>1
    <2>2. u - 1 \in Above
        <3>1. PICK k \in S : TRUE
            OBVIOUS
        <3>2. u - 1 \in Nat
            BY <1>1, <2>1, <3>1
        <3>3. QED
            BY <2>1, <3>2
    <2>3. QED
        BY <1>1, <2>2
<1>3. QED
    BY <1>1, <1>2

-----------------------------------------------------------------------------
(* The chain *)

\* The chain's numbers.
LEMMA ChainLength ==
    ASSUME ChainInv
    PROVE  /\ Len(events) \in Nat
           /\ DOMAIN events = 1 .. Len(events)
           /\ \A i \in 1 .. Len(events) : /\ events[i] \in Events
                                          /\ events[i].block \in 1 .. MaxHeight
                                          /\ events[i].policy \in Policies
<1>1. Len(events) \in Nat /\ DOMAIN events = 1 .. Len(events)
    BY LenProperties DEF ChainInv
<1>2. \A i \in 1 .. Len(events) : events[i] \in Events
    BY ElementOfSeq DEF ChainInv
<1>3. QED
    BY <1>1, <1>2 DEF Events

\* Sealed events are a prefix of the chain, and their number is the last of them.
LEMMA SealedPrefix ==
    ASSUME ChainInv
    PROVE  /\ Cardinality(Sealed) \in 0 .. Len(events)
           /\ Sealed = 1 .. Cardinality(Sealed)
<1>1. /\ Len(events) \in Nat /\ Sealed \subseteq 1 .. Len(events)
      /\ \A i \in Sealed : \A j \in 1 .. i : j \in Sealed
    <2>1. Len(events) \in Nat /\ Sealed \subseteq 1 .. Len(events)
        BY ChainLength DEF Sealed
    <2>2. ASSUME NEW i \in Sealed, NEW j \in 1 .. i
          PROVE  j \in Sealed
        <3>1. i \in 1 .. Len(events) /\ j \in 1 .. Len(events) /\ j <= i
            BY <2>1
        <3>2. events[j].block <= events[i].block /\ events[i].block <= height
            BY <3>1 DEF ChainInv, Sealed
        <3>3. height \in Int /\ events[i].block \in Int /\ events[j].block \in Int
            BY <3>1, ChainLength, BoundAssumption DEF ChainInv
        <3>4. events[j].block <= height
            BY <3>2, <3>3
        <3>5. QED
            BY <3>1, <3>4, ChainLength DEF Sealed
    <2>3. QED
        BY <2>1, <2>2
<1>2. CASE Sealed = {}
    BY <1>1, <1>2, FS_EmptySet
<1>3. CASE Sealed # {}
    <2>1. PICK m \in Sealed : \A k \in Sealed : k <= m
        <3>1. Sealed \in SUBSET Nat /\ \A k \in Sealed : k <= Len(events)
            BY <1>1
        <3>2. QED
            BY <1>1, <1>3, <3>1, GreatestElement
    <2>2. Sealed = 1 .. m
        <3>1. Sealed \subseteq 1 .. m
            BY <1>1, <2>1
        <3>2. 1 .. m \subseteq Sealed
            BY <1>1, <2>1
        <3>3. QED
            BY <3>1, <3>2
    <2>3. Cardinality(1 .. m) = m
        BY <1>1, <2>1, FS_Interval
    <2>4. QED
        BY <1>1, <2>1, <2>2, <2>3
<1>4. QED
    BY <1>2, <1>3

\* Votes among events of the chain are finitely many.
LEMMA VotesFinite ==
    ASSUME NEW n \in Nat, NEW I \in SUBSET (1 .. n), NEW p
    PROVE  /\ IsFiniteSet(I)
           /\ IsFiniteSet(VotesAmong(p, I))
           /\ VotesAmong(p, I) \subseteq I
           /\ Cardinality(VotesAmong(p, I)) \in Nat
<1>1. IsFiniteSet(1 .. n)
    BY FS_Interval
<1>2. VotesAmong(p, I) \in SUBSET (1 .. n)
    BY DEF VotesAmong
<1>3. QED
    BY <1>1, <1>2, FS_Subset, FS_CardinalityType DEF VotesAmong

\* More events, no fewer votes.
LEMMA MoreVotes ==
    ASSUME NEW n \in Nat, NEW J \in SUBSET (1 .. n), NEW I \in SUBSET J, NEW p
    PROVE  Cardinality(VotesAmong(p, I)) <= Cardinality(VotesAmong(p, J))
<1>1. VotesAmong(p, I) \in SUBSET VotesAmong(p, J)
    BY DEF VotesAmong
<1>2. QED
    BY <1>1, VotesFinite, FS_Subset

\* One more event adds a vote of its policy or none.
LEMMA OneMoreVote ==
    ASSUME NEW n \in Nat, NEW I \in SUBSET (1 .. n), NEW i \in (1 .. n) \ I, NEW p
    PROVE  /\ VotesAmong(p, I \cup {i}) =
                  IF IsVote(i) /\ events[i].policy = p THEN VotesAmong(p, I) \cup {i} ELSE VotesAmong(p, I)
           /\ Cardinality(VotesAmong(p, I \cup {i})) =
                  IF IsVote(i) /\ events[i].policy = p THEN Cardinality(VotesAmong(p, I)) + 1
                  ELSE Cardinality(VotesAmong(p, I))
<1>1. VotesAmong(p, I \cup {i}) =
          IF IsVote(i) /\ events[i].policy = p THEN VotesAmong(p, I) \cup {i} ELSE VotesAmong(p, I)
    BY DEF VotesAmong
<1>2. i \notin VotesAmong(p, I) /\ IsFiniteSet(VotesAmong(p, I))
    BY VotesFinite DEF VotesAmong
<1>3. QED
    BY <1>1, <1>2, FS_AddElement

\* applyVoteCast adds the votes of the policy to its tally.
LEMMA ApplyEffect ==
    ASSUME ChainInv, NEW t \in Tally, NEW I \in SUBSET (1 .. Len(events)), NEW p
    PROVE  /\ Apply(t, p, I) \in Tally
           /\ Apply(t, p, I).total = t.total + Cardinality(VotesAmong(p, I))
           /\ \A o \in Fields : Apply(t, p, I).counts[o] =
                  t.counts[o] + Cardinality({i \in VotesAmong(p, I) : events[i].option = o})
           /\ Apply(t, p, I).finalized = t.finalized
<1> DEFINE V == VotesAmong(p, I)
           B == {events[i].block : i \in V}
<1>1. IsFiniteSet(V) /\ V \subseteq 1 .. Len(events) /\ Cardinality(V) \in Nat
    BY VotesFinite, ChainLength
<1>2. \A o \in Fields : Cardinality({i \in V : events[i].option = o}) \in Nat
    <2> SUFFICES ASSUME NEW o \in Fields
                 PROVE  Cardinality({i \in V : events[i].option = o}) \in Nat
        OBVIOUS
    <2>1. {i \in V : events[i].option = o} \in SUBSET V
        OBVIOUS
    <2>2. QED
        BY <1>1, <2>1, FS_Subset, FS_CardinalityType
<1>3. t.total \in Nat /\ t.counts \in [Fields -> Nat] /\ t.lastBlock \in Nat /\ t.finalized \in BOOLEAN
    BY DEF Tally
<1>4. (\E i \in V : events[i].block > t.lastBlock) =>
          (CHOOSE b \in B : \A i \in V : events[i].block <= b) \in Nat
    <2> SUFFICES ASSUME NEW j \in V
                 PROVE  (CHOOSE b \in B : \A i \in V : events[i].block <= b) \in Nat
        OBVIOUS
    <2>1. B \subseteq Nat /\ B # {} /\ \A k \in B : k <= MaxHeight
        BY <1>1, ChainLength, BoundAssumption
    <2>2. MaxHeight \in Nat
        BY BoundAssumption
    <2>3. PICK b \in B : \A k \in B : k <= b
        BY <2>1, <2>2, GreatestElement
    <2>4. \A i \in V : events[i].block <= b
        BY <2>3
    <2>5. QED
        BY <2>1, <2>3, <2>4
<1>5. /\ Apply(t, p, I).total = t.total + Cardinality(V)
      /\ Apply(t, p, I).finalized = t.finalized
      /\ Apply(t, p, I).counts = [o \in Fields |-> t.counts[o] + Cardinality({i \in V : events[i].option = o})]
      /\ Apply(t, p, I).lastBlock \in Nat
    BY <1>3, <1>4 DEF Apply
<1>6. Apply(t, p, I) \in Tally
    <2>1. Apply(t, p, I) = [counts |-> Apply(t, p, I).counts, total |-> Apply(t, p, I).total,
                            lastBlock |-> Apply(t, p, I).lastBlock, finalized |-> Apply(t, p, I).finalized]
        BY DEF Apply
    <2>2. QED
        <3>1. t.total + Cardinality(V) \in Nat
            BY <1>1, <1>3
        <3>2. Apply(t, p, I).counts \in [Fields -> Nat]
            BY <1>2, <1>3, <1>5
        <3>3. QED
            BY <1>3, <1>5, <2>1, <3>1, <3>2 DEF Tally
<1>7. QED
    BY <1>5, <1>6

\* Events a process has passed are readable, and were before they were passed.
LEMMA PassedSealed ==
    ASSUME ChainInv, ServiceInv
    PROVE  /\ Passed \subseteq Sealed
           /\ Sealed \subseteq 1 .. Len(events)
           /\ voteCursor # Off => /\ voteCursor \in 0 .. Len(events) /\ base \in 0 .. voteCursor
                                  /\ Passed = 1 .. voteCursor
                                  /\ base + 1 .. voteCursor \subseteq Passed
<1>1. /\ Cardinality(Sealed) \in 0 .. Len(events)
      /\ Sealed = 1 .. Cardinality(Sealed)
      /\ Len(events) \in Nat
    BY SealedPrefix, ChainLength
<1>2. CASE voteCursor = Off
    BY <1>1, <1>2 DEF Passed
<1>3. CASE voteCursor # Off
    <2>1. voteCursor \in 0 .. Cardinality(Sealed) /\ base \in 0 .. voteCursor
        BY <1>1, <1>3 DEF ServiceInv
    <2>2. Passed = 1 .. voteCursor
        BY <1>3 DEF Passed
    <2>3. QED
        BY <1>1, <2>1, <2>2
<1>4. QED
    BY <1>2, <1>3

-----------------------------------------------------------------------------
(* What steps of the chain do *)

\* The service and its clients do not notice that the chain grows.
LEMMA ChainGrows ==
    ASSUME FeedInv, ChainInv', UNCHANGED <<serviceVars, clientVars>>,
           Len(events) <= Len(events'),
           \A i \in 1 .. Len(events) : events'[i] = events[i],
           Sealed \subseteq Sealed'
    PROVE  /\ FeedInv'
           /\ LiveInv /\ FirstVotesCounted => LiveInv' /\ FirstVotesCounted'
<1>1. UNCHANGED <<service, lastSeen, tallies, voteCursor, finalCursor, starts, base, origin, subs, shown>>
    BY DEF serviceVars, clientVars
<1>2. ChainInv /\ ServiceInv
    BY DEF FeedInv
<1>3. /\ Passed \subseteq Sealed /\ Sealed \subseteq 1 .. Len(events)
      /\ Len(events) \in Nat /\ Len(events') \in Nat
      /\ Sealed' \subseteq 1 .. Len(events')
      /\ voteCursor # Off => /\ voteCursor \in 0 .. Len(events) /\ base \in 0 .. voteCursor
                             /\ base + 1 .. voteCursor \subseteq Passed
                             /\ Passed = 1 .. voteCursor
    <2>1. Len(events') \in Nat /\ Sealed' \subseteq 1 .. Len(events')
        <3>1. Len(events') \in Nat /\ DOMAIN events' = 1 .. Len(events')
            BY LenProperties DEF ChainInv
        <3>2. QED
            BY <3>1 DEF Sealed
    <2>2. QED
        BY <1>2, <2>1, PassedSealed, ChainLength
<1>4. Passed \subseteq Passed'
    BY <1>1, <1>3 DEF Passed
<1>5. ServiceInv'
    <2>1. finalCursor = Off \/ finalCursor \in 0 .. Len(events')
        BY <1>2, <1>3 DEF ServiceInv
    <2>2. voteCursor = Off \/ (voteCursor \in Sealed' \cup {0} /\ base \in 0 .. voteCursor)
        BY <1>2 DEF ServiceInv
    <2>3. base = Off \/ base \in Sealed' \cup {0}
        BY <1>2 DEF ServiceInv
    <2> HIDE DEF Sealed
    <2>4. QED
        BY <1>1, <1>2, <2>1, <2>2, <2>3 DEF ServiceInv
<1>6. SeenInv'
    <2> SUFFICES ASSUME NEW i \in Sealed', base < i, i <= voteCursor, IsVote(i)'
                 PROVE  events'[i].block <= lastSeen
        BY <1>1 DEF SeenInv
    <2>1. i \in Nat /\ 1 <= i
        BY <1>3
    <2>2. voteCursor # Off
        BY <2>1 DEF Off
    <2>3. i \in Sealed
        BY <1>3, <2>1, <2>2
    <2>4. events'[i] = events[i]
        BY <1>3, <2>3
    <2>5. QED
        BY <2>3, <2>4 DEF FeedInv, SeenInv, IsVote
<1>7. OnceInv'
    <2> SUFFICES ASSUME origin # "Restarted", NEW p \in Tracked
                 PROVE  tallies[p].total <= Cardinality(VotesAmong(p, Passed)')
                        /\ (service \in {"Down", "CatchUp"} => tallies[p].total = 0)
        BY <1>1 DEF OnceInv
    <2>1. VotesAmong(p, Passed) \subseteq VotesAmong(p, Passed)'
        BY <1>3, <1>4 DEF VotesAmong, IsVote
    <2>2. VotesAmong(p, Passed)' \subseteq 1 .. Len(events')
        <3>1. Passed' \subseteq 1 .. Len(events')
            BY <1>1, <1>3 DEF Passed
        <3>2. QED
            BY <3>1 DEF VotesAmong
    <2>3. IsFiniteSet(VotesAmong(p, Passed)')
        <3>1. IsFiniteSet(1 .. Len(events'))
            BY <1>3, FS_Interval
        <3>2. QED
            BY <2>2, <3>1, FS_Subset
    <2>4. Cardinality(VotesAmong(p, Passed)) <= Cardinality(VotesAmong(p, Passed)')
        BY <2>1, <2>3, FS_Subset
    <2>5. /\ tallies[p].total \in Nat
          /\ Cardinality(VotesAmong(p, Passed)) \in Nat
          /\ Cardinality(VotesAmong(p, Passed)') \in Nat
        BY <1>2, <1>3, <2>3, VotesFinite, FS_CardinalityType DEF ServiceInv, Tally
    <2>6. QED
        BY <2>4, <2>5 DEF FeedInv, OnceInv
<1>8. ClientInv'
    BY <1>1 DEF FeedInv, ClientInv, ClientsShowTheTally
<1>9. FeedInv'
    BY <1>5, <1>6, <1>7, <1>8 DEF FeedInv
<1>10. ASSUME LiveInv PROVE LiveInv'
    BY <1>1, <1>3, <1>10 DEF LiveInv, IsVote
<1>11. ASSUME FirstVotesCounted PROVE FirstVotesCounted'
    <2> SUFFICES ASSUME origin = "Live", voteCursor # Off, NEW p \in Tracked
                 PROVE  LET V == FirstVotes(p, voteCursor)'
                        IN  /\ tallies[p].total = Cardinality(V)
                            /\ \A o \in Fields : tallies[p].counts[o] =
                                   Cardinality({i \in V : events'[i].option = o})
        BY <1>1 DEF FirstVotesCounted
    <2> DEFINE I == base + 1 .. voteCursor
               V == FirstVotes(p, voteCursor)
    <2>1. /\ \A i \in I : events'[i] = events[i]
          /\ \A i \in I : \A j \in base + 1 .. i - 1 : events'[j] = events[j]
        BY <1>1, <1>3
    <2>2. V' = V
        BY <1>1, <2>1 DEF FirstVotes, VotesAmong, IsVote
    <2>3. V \subseteq I
        BY DEF FirstVotes, VotesAmong
    <2>4. /\ tallies[p].total = Cardinality(V)
          /\ \A o \in Fields : tallies[p].counts[o] = Cardinality({i \in V : events[i].option = o})
        BY <1>11 DEF FirstVotesCounted
    <2> HIDE DEF V
    <2>5. \A o \in Fields : {i \in V : events'[i].option = o} = {i \in V : events[i].option = o}
        BY <2>1, <2>3
    <2>6. QED
        BY <2>2, <2>4, <2>5 DEF V
<1>12. QED
    BY <1>9, <1>10, <1>11

\* An event is added to the next block: it is the last, and not yet readable.
LEMMA EventAppended ==
    ASSUME ChainInv, height < MaxHeight, NEW e \in Events, e.block = height + 1,
           events' = Append(events, e), height' = height, declared' = declared
    PROVE  /\ ChainInv'
           /\ Len(events') = Len(events) + 1
           /\ \A i \in 1 .. Len(events) : events'[i] = events[i]
           /\ events'[Len(events) + 1] = e
           /\ Sealed' = Sealed
<1>1. Len(events) \in Nat /\ height \in Int /\ MaxHeight \in Nat
    BY ChainLength, BoundAssumption DEF ChainInv
<1>2. /\ events' \in Seq(Events)
      /\ Len(events') = Len(events) + 1
      /\ \A i \in 1 .. Len(events) : events'[i] = events[i]
      /\ events'[Len(events) + 1] = e
    BY AppendProperties DEF ChainInv
<1>3. DOMAIN events = 1 .. Len(events) /\ DOMAIN events' = 1 .. Len(events) + 1
    BY <1>2, ChainLength, LenProperties
<1>4. \A i \in 1 .. Len(events) + 1 : i \in 1 .. Len(events) \/ i = Len(events) + 1
    BY <1>1
<1>5. Sealed' = Sealed
    <2>1. ~(e.block <= height)
        BY <1>1
    <2>2. QED
        BY <1>1, <1>2, <1>3, <1>4, <2>1 DEF Sealed
<1>6. \A i \in 1 .. Len(events') : events'[i].block <= height' + 1
    BY <1>1, <1>2, <1>4 DEF ChainInv
<1>7. \A i, j \in 1 .. Len(events') : i <= j => events'[i].block <= events'[j].block
    <2> SUFFICES ASSUME NEW i \in 1 .. Len(events'), NEW j \in 1 .. Len(events'), i <= j
                 PROVE  events'[i].block <= events'[j].block
        OBVIOUS
    <2>1. CASE j \in 1 .. Len(events)
        <3>1. i \in 1 .. Len(events)
            BY <1>1, <1>2, <2>1
        <3>2. QED
            BY <1>2, <2>1, <3>1 DEF ChainInv
    <2>2. CASE j = Len(events) + 1
        BY <1>1, <1>2, <1>6, <2>2
    <2>3. QED
        BY <1>2, <1>4, <2>1, <2>2
<1>8. QED
    BY <1>2, <1>5, <1>6, <1>7 DEF ChainInv

-----------------------------------------------------------------------------
(* What each step preserves *)

\* The step part of ShownNeverShrinks.
ShownGrows ==
    \A c \in Clients, p \in Policies :
        shown[c][p] # Nothing /\ shown'[c][p] # Nothing =>
            shown'[c][p].total >= shown[c][p].total

\* What a client shows is a tally or nothing, and its total a number.
LEMMA ShownTotals ==
    ASSUME ClientInv, NEW c \in Clients, NEW p \in Policies, shown[c][p] # Nothing
    PROVE  shown[c][p] \in Tally /\ shown[c][p].total \in Nat
<1>1. shown[c][p] \in Tally
    BY DEF ClientInv
<1>2. QED
    BY <1>1 DEF Tally

\* The same messages shown: nothing shrinks.
LEMMA ShownRests ==
    ASSUME ClientInv, shown' = shown
    PROVE  ShownGrows
<1> SUFFICES ASSUME NEW c \in Clients, NEW p \in Policies, shown[c][p] # Nothing
             PROVE  shown[c][p].total >= shown[c][p].total
    BY DEF ShownGrows
<1>1. shown[c][p].total \in Nat
    BY ShownTotals
<1>2. QED
    BY <1>1

\* A step that leaves the chain alone keeps what is said of the chain.
LEMMA SameChain ==
    ASSUME ChainInv, UNCHANGED chainVars
    PROVE  /\ events' = events /\ height' = height /\ Sealed' = Sealed
           /\ ChainInv'
<1>1. declared' = declared /\ events' = events /\ height' = height
    BY DEF chainVars
<1>2. QED
    BY <1>1 DEF Sealed, ChainInv

\* A vote is emitted: it is in a block not sealed yet.
LEMMA VoteEmittedStep ==
    ASSUME FeedInv, NEW p \in Policies, NEW o \in Options, VoteEmitted(p, o)
    PROVE  FeedInv' /\ ShownGrows /\ (CountInv => CountInv')
<1> DEFINE e == [event |-> "VoteCast", policy |-> p, option |-> o, block |-> height + 1]
<1>1. ChainInv /\ height \in 0 .. MaxHeight /\ MaxHeight \in Nat
    BY BoundAssumption DEF FeedInv, ChainInv
<1>2. /\ height < MaxHeight /\ events' = Append(events, e)
      /\ declared' = declared /\ height' = height /\ UNCHANGED <<serviceVars, clientVars>>
    BY DEF VoteEmitted, Room
<1>3. e \in Events /\ e.block = height + 1 /\ e.event = "VoteCast"
    BY <1>1, <1>2 DEF Events
<1> HIDE DEF e
<1>4. /\ ChainInv'
      /\ Len(events') = Len(events) + 1
      /\ \A i \in 1 .. Len(events) : events'[i] = events[i]
      /\ events'[Len(events) + 1] = e
      /\ Sealed' = Sealed
    BY <1>1, <1>2, <1>3, EventAppended
<1>5. Len(events) \in Nat /\ DOMAIN events = 1 .. Len(events)
    BY <1>1, ChainLength
<1>6. FeedInv' /\ (LiveInv /\ FirstVotesCounted => LiveInv' /\ FirstVotesCounted')
    BY <1>2, <1>4, <1>5, ChainGrows
<1>7. ShownGrows
    BY <1>2, ShownRests DEF FeedInv, clientVars
<1>8. QED
    BY <1>6, <1>7 DEF CountInv

\* A policy is finalised: the event is no vote.
LEMMA FinalEmittedStep ==
    ASSUME FeedInv, NEW p \in Policies, FinalEmitted(p)
    PROVE  FeedInv' /\ ShownGrows /\ (CountInv => CountInv')
<1> DEFINE e == [event |-> "PolicyFinalized", policy |-> p, block |-> height + 1]
<1>1. ChainInv /\ height \in 0 .. MaxHeight /\ MaxHeight \in Nat
    BY BoundAssumption DEF FeedInv, ChainInv
<1>2. /\ height < MaxHeight /\ events' = Append(events, e)
      /\ declared' = declared /\ height' = height /\ UNCHANGED <<serviceVars, clientVars>>
    BY DEF FinalEmitted, Room
<1>3. e \in Events /\ e.block = height + 1 /\ e.event # "VoteCast"
    BY <1>1, <1>2 DEF Events
<1> HIDE DEF e
<1>4. /\ ChainInv'
      /\ Len(events') = Len(events) + 1
      /\ \A i \in 1 .. Len(events) : events'[i] = events[i]
      /\ events'[Len(events) + 1] = e
      /\ Sealed' = Sealed
    BY <1>1, <1>2, <1>3, EventAppended
<1>5. Len(events) \in Nat
    BY <1>1, ChainLength
<1>6. FeedInv' /\ (LiveInv /\ FirstVotesCounted => LiveInv' /\ FirstVotesCounted')
    BY <1>2, <1>4, <1>5, ChainGrows
<1>7. ShownGrows
    BY <1>2, ShownRests DEF FeedInv, clientVars
<1>8. QED
    BY <1>6, <1>7 DEF CountInv

\* A block is sealed: what could be read still can be.
LEMMA BlockSealedStep ==
    ASSUME FeedInv, BlockSealed
    PROVE  FeedInv' /\ ShownGrows /\ (CountInv => CountInv')
<1>1. ChainInv /\ height \in 0 .. MaxHeight /\ MaxHeight \in Nat
    BY BoundAssumption DEF FeedInv, ChainInv
<1>2. /\ height < MaxHeight /\ height' = height + 1 /\ events' = events /\ declared' = declared
      /\ UNCHANGED <<serviceVars, clientVars>>
    BY DEF BlockSealed
<1>3. \A i \in 1 .. Len(events) : events[i].block \in 1 .. MaxHeight
    BY <1>1, ChainLength
<1>4. ChainInv'
    <2>1. \A i \in 1 .. Len(events) : events[i].block <= height' + 1
        BY <1>1, <1>2, <1>3 DEF ChainInv
    <2>2. height' \in 0 .. MaxHeight
        BY <1>1, <1>2
    <2>3. QED
        BY <1>1, <1>2, <2>1, <2>2 DEF ChainInv
<1>5. Sealed \subseteq Sealed'
    <2>1. DOMAIN events = 1 .. Len(events) /\ Len(events) \in Nat
        BY <1>1, ChainLength
    <2>2. QED
        BY <1>1, <1>2, <1>3, <2>1 DEF Sealed
<1>6. Len(events) \in Nat
    BY <1>1, ChainLength
<1>7. FeedInv' /\ (LiveInv /\ FirstVotesCounted => LiveInv' /\ FirstVotesCounted')
    BY <1>2, <1>4, <1>5, <1>6, ChainGrows
<1>8. ShownGrows
    BY <1>2, ShownRests DEF FeedInv, clientVars
<1>9. QED
    BY <1>7, <1>8 DEF CountInv

\* A step of the clients alone.
LEMMA ServiceRests ==
    ASSUME FeedInv, UNCHANGED <<chainVars, serviceVars>>, ClientInv'
    PROVE  FeedInv' /\ (CountInv => CountInv')
<1>1. UNCHANGED <<declared, events, height, service, lastSeen, tallies, voteCursor, finalCursor, starts, base, origin>>
    BY DEF chainVars, serviceVars
<1>2. ChainInv' /\ Sealed' = Sealed
    BY SameChain DEF FeedInv
<1>3. ServiceInv' /\ SeenInv'
    <2>1. ServiceInv /\ SeenInv
        BY DEF FeedInv
    <2> HIDE DEF Sealed
    <2>2. ServiceInv'
        BY <1>1, <1>2, <2>1 DEF ServiceInv
    <2>3. SeenInv'
        BY <1>1, <1>2, <2>1 DEF SeenInv, IsVote
    <2>4. QED
        BY <2>2, <2>3
<1>4. OnceInv'
    <2>1. Passed' = Passed
        BY <1>1, <1>2 DEF Passed
    <2>2. \A p : VotesAmong(p, Passed)' = VotesAmong(p, Passed)
        BY <1>1, <2>1 DEF VotesAmong, IsVote
    <2>3. QED
        BY <1>1, <2>2 DEF FeedInv, OnceInv
<1>5. ASSUME CountInv PROVE LiveInv' /\ FirstVotesCounted'
    BY <1>1, <1>5 DEF CountInv, LiveInv, FirstVotesCounted, FirstVotes, VotesAmong, IsVote
<1>6. QED
    BY <1>2, <1>3, <1>4, <1>5 DEF FeedInv, CountInv

\* A client subscribes and is sent the snapshot.
LEMMA SubscribeStep ==
    ASSUME FeedInv, NEW c \in Clients, NEW p \in Policies, Subscribe(c, p)
    PROVE  FeedInv' /\ ShownGrows /\ (CountInv => CountInv')
<1>1. /\ subs' = [subs EXCEPT ![c] = @ \cup {p}]
      /\ shown' = IF p \in Tracked THEN [shown EXCEPT ![c][p] = tallies[p]] ELSE shown
      /\ UNCHANGED <<chainVars, serviceVars>> /\ tallies' = tallies /\ origin' = origin
    BY DEF Subscribe, serviceVars
<1>2. /\ ClientInv /\ tallies \in [Tracked -> Tally]
      /\ subs \in [Clients -> SUBSET Policies]
      /\ shown \in [Clients -> [Policies -> Tally \cup {Nothing}]]
    BY DEF FeedInv, ClientInv, ServiceInv
<1>3. \A t \in Tally : t.total \in Nat
    BY DEF Tally
<1>4. subs' \in [Clients -> SUBSET Policies]
    BY <1>1, <1>2
<1>5. shown' \in [Clients -> [Policies -> Tally \cup {Nothing}]]
    BY <1>1, <1>2
<1>6. \A d \in Clients, q \in Policies :
          shown'[d][q] = IF d = c /\ q = p /\ p \in Tracked THEN tallies[p] ELSE shown[d][q]
    BY <1>1, <1>2
<1>7. \A d \in Clients, q \in Policies :
          shown'[d][q] # Nothing => q \in Tracked /\ shown'[d][q].total <= tallies'[q].total
    <2> SUFFICES ASSUME NEW d \in Clients, NEW q \in Policies, shown'[d][q] # Nothing
                 PROVE  q \in Tracked /\ shown'[d][q].total <= tallies[q].total
        BY <1>1
    <2>1. CASE d = c /\ q = p /\ p \in Tracked
        <3>1. tallies[p].total \in Nat
            BY <1>2, <1>3, <2>1
        <3>2. QED
            BY <1>6, <2>1, <3>1
    <2>2. CASE ~(d = c /\ q = p /\ p \in Tracked)
        BY <1>2, <1>6, <2>2 DEF ClientInv
    <2>3. QED
        BY <2>1, <2>2
<1>8. ClientsShowTheTally'
    <2> SUFFICES ASSUME origin = "Live", NEW d \in Clients, NEW q \in subs'[d] \cap Tracked
                 PROVE  shown'[d][q] = tallies[q]
        BY <1>1 DEF ClientsShowTheTally
    <2>1. q \in Policies /\ (q \in subs[d] \/ (d = c /\ q = p))
        BY <1>1, <1>2
    <2>2. QED
        BY <1>2, <1>6, <2>1 DEF ClientInv, ClientsShowTheTally
<1>9. ClientInv'
    BY <1>4, <1>5, <1>7, <1>8 DEF ClientInv
<1>10. ShownGrows
    <2> SUFFICES ASSUME NEW d \in Clients, NEW q \in Policies, shown[d][q] # Nothing
                 PROVE  shown'[d][q].total >= shown[d][q].total
        BY DEF ShownGrows
    <2>1. q \in Tracked /\ shown[d][q].total <= tallies[q].total
        BY <1>2 DEF ClientInv
    <2>2. shown[d][q].total \in Nat /\ tallies[q].total \in Nat
        BY <1>2, <1>3, <2>1, ShownTotals
    <2>3. shown'[d][q] = shown[d][q] \/ shown'[d][q] = tallies[q]
        BY <1>6
    <2>4. QED
        BY <2>1, <2>2, <2>3
<1>11. QED
    BY <1>1, <1>9, <1>10, ServiceRests

\* A client unsubscribes.
LEMMA UnsubscribeStep ==
    ASSUME FeedInv, NEW c \in Clients, NEW p \in Policies, Unsubscribe(c, p)
    PROVE  FeedInv' /\ ShownGrows /\ (CountInv => CountInv')
<1>1. /\ subs' = [subs EXCEPT ![c] = @ \ {p}] /\ shown' = shown
      /\ UNCHANGED <<chainVars, serviceVars>> /\ tallies' = tallies /\ origin' = origin
    BY DEF Unsubscribe, serviceVars
<1>2. ClientInv
    BY DEF FeedInv
<1>3. subs' \in [Clients -> SUBSET Policies]
      /\ \A d \in Clients : subs'[d] \subseteq subs[d]
    BY <1>1, <1>2 DEF ClientInv
<1>4. ClientInv'
    BY <1>1, <1>2, <1>3 DEF ClientInv, ClientsShowTheTally
<1>5. QED
    BY <1>1, <1>2, <1>4, ServiceRests, ShownRests

\* A client's connection ends.
LEMMA DisconnectStep ==
    ASSUME FeedInv, NEW c \in Clients, Disconnect(c)
    PROVE  FeedInv' /\ ShownGrows /\ (CountInv => CountInv')
<1>1. /\ subs' = [subs EXCEPT ![c] = {}]
      /\ shown' = [shown EXCEPT ![c] = [p \in Policies |-> Nothing]]
      /\ UNCHANGED <<chainVars, serviceVars>> /\ tallies' = tallies /\ origin' = origin
    BY DEF Disconnect, serviceVars
<1>2. ClientInv
    BY DEF FeedInv
<1>3. /\ subs' \in [Clients -> SUBSET Policies]
      /\ shown' \in [Clients -> [Policies -> Tally \cup {Nothing}]]
      /\ \A d \in Clients, q \in Policies :
            shown'[d][q] = IF d = c THEN Nothing ELSE shown[d][q]
      /\ \A d \in Clients : subs'[d] = IF d = c THEN {} ELSE subs[d]
    BY <1>1, <1>2 DEF ClientInv
<1>4. ClientInv'
    <2>1. ClientsShowTheTally'
        <3> SUFFICES ASSUME origin = "Live", NEW d \in Clients, NEW q \in subs'[d] \cap Tracked
                     PROVE  shown'[d][q] = tallies[q]
            BY <1>1 DEF ClientsShowTheTally
        <3>1. d # c /\ q \in subs[d] /\ q \in Policies
            BY <1>2, <1>3 DEF ClientInv
        <3>2. QED
            BY <1>2, <1>3, <3>1 DEF ClientInv, ClientsShowTheTally
    <2>2. QED
        BY <1>1, <1>2, <1>3, <2>1 DEF ClientInv
<1>5. ShownGrows
    <2> SUFFICES ASSUME NEW d \in Clients, NEW q \in Policies,
                        shown[d][q] # Nothing, shown'[d][q] # Nothing
                 PROVE  shown'[d][q].total >= shown[d][q].total
        BY DEF ShownGrows
    <2>1. shown'[d][q] = shown[d][q] /\ shown[d][q].total \in Nat
        BY <1>2, <1>3, ShownTotals
    <2>2. QED
        BY <2>1
<1>6. QED
    BY <1>1, <1>4, <1>5, ServiceRests

\* start: the tallies stay as they are.
LEMMA StartStep ==
    ASSUME FeedInv, NEW from \in FromBlocks \cup {lastSeen}, Start(from)
    PROVE  FeedInv' /\ ShownGrows /\ (CountInv => CountInv')
<1>1. /\ UNCHANGED <<declared, events, height, tallies, voteCursor, finalCursor, base, subs, shown>>
      /\ UNCHANGED chainVars
      /\ service \in {"Down", "Stopped"}
      /\ lastSeen' = from
      /\ service' = IF from > 0 THEN "CatchUp" ELSE "Subscribing"
      /\ starts < MaxStarts /\ starts' = starts + 1
      /\ service = "Down" => origin' = IF from > 0 THEN "CaughtUp" ELSE "Live"
      /\ service = "Stopped" => origin' = "Restarted"
    BY DEF Start, chainVars, clientVars
<1>2. ChainInv /\ ServiceInv /\ SeenInv /\ OnceInv /\ ClientInv
    BY DEF FeedInv
<1>3. voteCursor = Off /\ finalCursor = Off /\ (service = "Down" => origin = "Live")
    BY <1>1, <1>2 DEF ServiceInv
<1>4. from \in Nat
    BY <1>2, BoundAssumption DEF ServiceInv
<1>5. ChainInv' /\ Sealed' = Sealed
    BY <1>1, <1>2, SameChain
<1>6. ServiceInv'
    <2>1. starts' \in 0 .. MaxStarts
        BY <1>1, <1>2, BoundAssumption DEF ServiceInv
    <2>2. origin' \in Origins /\ (service' \in {"CatchUp", "Failed"} => origin' # "Live")
        BY <1>1, <1>3 DEF Origins
    <2> HIDE DEF Sealed
    <2>3. QED
        BY <1>1, <1>2, <1>3, <1>4, <1>5, <2>1, <2>2 DEF ServiceInv
<1>7. SeenInv'
    <2>1. Sealed \subseteq Nat /\ \A i \in Sealed : 1 <= i
        BY <1>2, SealedPrefix
    <2>2. \A i \in Sealed : ~(i <= voteCursor')
        BY <1>1, <1>3, <2>1 DEF Off
    <2>3. QED
        BY <1>5, <2>2 DEF SeenInv
<1>8. OnceInv'
    <2>1. Passed' = Passed
        BY <1>1, <1>5 DEF Passed
    <2>2. \A p : VotesAmong(p, Passed)' = VotesAmong(p, Passed)
        BY <1>1, <2>1 DEF VotesAmong, IsVote
    <2>3. QED
        BY <1>1, <1>2, <1>3, <2>2 DEF OnceInv
<1>9. ClientInv'
    BY <1>1, <1>2, <1>3 DEF ClientInv, ClientsShowTheTally
<1>10. ASSUME CountInv PROVE CountInv'
    <2>1. LiveInv'
        <3> SUFFICES ASSUME origin' = "Live"
                     PROVE  lastSeen' = 0 /\ \A p \in Tracked : Zero(tallies[p])
            BY <1>1, <1>3 DEF LiveInv, Zero
        <3>1. service = "Down" /\ ~(from > 0)
            BY <1>1
        <3>2. QED
            BY <1>1, <1>3, <1>4, <1>10, <3>1 DEF CountInv, LiveInv
    <2>2. FirstVotesCounted'
        BY <1>1, <1>3 DEF FirstVotesCounted
    <2>3. QED
        BY <1>5, <1>10, <2>1, <2>2 DEF CountInv
<1>11. ShownGrows
    BY <1>1, <1>2, ShownRests
<1>12. QED
    BY <1>5, <1>6, <1>7, <1>8, <1>9, <1>10, <1>11 DEF FeedInv

\* catchUp: what it counts was there, and the tallies were at zero before it.
LEMMA CatchUpStep ==
    ASSUME FeedInv, CatchUp
    PROVE  FeedInv' /\ ShownGrows /\ (CountInv => CountInv')
<1> DEFINE Late == {i \in Matched : events[i].block >= lastSeen}
<1>1. /\ UNCHANGED <<declared, events, height, lastSeen, voteCursor, finalCursor, starts, base, origin, subs, shown>>
      /\ UNCHANGED chainVars
      /\ service = "CatchUp" /\ service' = "Subscribing"
      /\ tallies' = [p \in Tracked |-> Apply(tallies[p], p, Late)]
    BY DEF CatchUp, chainVars, clientVars
<1>2. ChainInv /\ ServiceInv /\ SeenInv /\ OnceInv /\ ClientInv
    BY DEF FeedInv
<1>3. voteCursor = Off /\ finalCursor = Off /\ origin # "Live"
    BY <1>1, <1>2 DEF ServiceInv
<1>4. ChainInv' /\ Sealed' = Sealed
    BY <1>1, <1>2, SameChain
<1>5. Late \subseteq Sealed /\ Sealed \subseteq 1 .. Len(events) /\ Len(events) \in Nat
    BY <1>2, SealedPrefix, ChainLength DEF Matched
<1> HIDE DEF Late
<1>6. /\ tallies \in [Tracked -> Tally]
      /\ \A p \in Tracked : tallies[p] \in Tally /\ tallies[p].total \in Nat
    BY <1>2 DEF ServiceInv, Tally
<1>7. \A p \in Tracked : /\ tallies'[p] \in Tally
                         /\ tallies'[p].total = tallies[p].total + Cardinality(VotesAmong(p, Late))
                         /\ tallies[p].total <= tallies'[p].total
    <2> SUFFICES ASSUME NEW p \in Tracked
                 PROVE  /\ tallies'[p] \in Tally
                        /\ tallies'[p].total = tallies[p].total + Cardinality(VotesAmong(p, Late))
                        /\ tallies[p].total <= tallies'[p].total
        OBVIOUS
    <2>1. tallies'[p] = Apply(tallies[p], p, Late)
        BY <1>1
    <2>2. Cardinality(VotesAmong(p, Late)) \in Nat
        BY <1>5, VotesFinite
    <2>3. Late \in SUBSET (1 .. Len(events)) /\ tallies[p] \in Tally /\ tallies[p].total \in Nat
        BY <1>5, <1>6
    <2>4. /\ Apply(tallies[p], p, Late) \in Tally
          /\ Apply(tallies[p], p, Late).total = tallies[p].total + Cardinality(VotesAmong(p, Late))
        BY <1>2, <2>3, ApplyEffect
    <2>5. QED
        BY <2>1, <2>2, <2>3, <2>4
<1>8. ServiceInv'
    <2>1. tallies' \in [Tracked -> Tally]
        BY <1>1, <1>7
    <2> HIDE DEF Sealed
    <2>2. QED
        BY <1>1, <1>2, <1>3, <1>4, <2>1 DEF ServiceInv
<1>9. SeenInv'
    BY <1>1, <1>2, <1>4 DEF SeenInv, IsVote
<1>10. OnceInv'
    <2> SUFFICES ASSUME origin # "Restarted", NEW p \in Tracked
                 PROVE  tallies'[p].total <= Cardinality(VotesAmong(p, Passed)')
        BY <1>1 DEF OnceInv
    <2>1. Passed' = Sealed
        BY <1>1, <1>3, <1>4 DEF Passed
    <2>2. VotesAmong(p, Passed)' = VotesAmong(p, Sealed)
        BY <1>1, <2>1 DEF VotesAmong, IsVote
    <2>3. tallies[p].total = 0
        BY <1>1, <1>2 DEF OnceInv
    <2>4. Cardinality(VotesAmong(p, Late)) <= Cardinality(VotesAmong(p, Sealed))
        BY <1>5, MoreVotes
    <2>5. Cardinality(VotesAmong(p, Late)) \in Nat
        BY <1>5, VotesFinite
    <2>6. QED
        BY <1>7, <2>2, <2>3, <2>4, <2>5
<1>11. ClientInv'
    <2>1. \A c \in Clients, p \in Policies :
              shown[c][p] # Nothing => p \in Tracked /\ shown[c][p].total <= tallies'[p].total
        <3> SUFFICES ASSUME NEW c \in Clients, NEW p \in Policies, shown[c][p] # Nothing
                     PROVE  p \in Tracked /\ shown[c][p].total <= tallies'[p].total
            OBVIOUS
        <3>1. p \in Tracked /\ shown[c][p].total <= tallies[p].total
            BY <1>2 DEF ClientInv
        <3>2. shown[c][p].total \in Nat /\ tallies[p].total \in Nat /\ tallies'[p].total \in Nat
            BY <1>2, <1>6, <1>7, <3>1, ShownTotals DEF Tally
        <3>3. QED
            BY <1>7, <3>1, <3>2
    <2>2. QED
        BY <1>1, <1>2, <1>3, <2>1 DEF ClientInv, ClientsShowTheTally
<1>12. CountInv => CountInv'
    BY <1>1, <1>3, <1>4 DEF CountInv, LiveInv, FirstVotesCounted
<1>13. ShownGrows
    BY <1>1, <1>2, ShownRests
<1>14. QED
    BY <1>4, <1>8, <1>9, <1>10, <1>11, <1>12, <1>13 DEF FeedInv

\* catchUp fails: nothing else happens.
LEMMA CatchUpFailsStep ==
    ASSUME FeedInv, CatchUpFails
    PROVE  FeedInv' /\ ShownGrows /\ (CountInv => CountInv')
<1>1. /\ UNCHANGED <<declared, events, height, lastSeen, tallies, voteCursor, finalCursor, starts, base, origin, subs, shown>>
      /\ UNCHANGED chainVars
      /\ service = "CatchUp" /\ service' = "Failed"
    BY DEF CatchUpFails, chainVars, clientVars
<1>2. ChainInv /\ ServiceInv /\ SeenInv /\ OnceInv /\ ClientInv
    BY DEF FeedInv
<1>3. voteCursor = Off /\ finalCursor = Off /\ origin # "Live"
    BY <1>1, <1>2 DEF ServiceInv
<1>4. ChainInv' /\ Sealed' = Sealed
    BY <1>1, <1>2, SameChain
<1>5. ServiceInv'
    <2> HIDE DEF Sealed
    <2>1. QED
        BY <1>1, <1>2, <1>3, <1>4 DEF ServiceInv
<1>6. SeenInv'
    BY <1>1, <1>2, <1>4 DEF SeenInv, IsVote
<1>7. OnceInv'
    <2>1. Passed' = Passed
        BY <1>1, <1>4 DEF Passed
    <2>2. \A p : VotesAmong(p, Passed)' = VotesAmong(p, Passed)
        BY <1>1, <2>1 DEF VotesAmong, IsVote
    <2>3. QED
        BY <1>1, <1>2, <2>2 DEF OnceInv
<1>8. ClientInv'
    BY <1>1, <1>2 DEF ClientInv, ClientsShowTheTally
<1>9. CountInv => CountInv'
    BY <1>1, <1>3, <1>4 DEF CountInv, LiveInv, FirstVotesCounted
<1>10. ShownGrows
    BY <1>1, <1>2, ShownRests
<1>11. QED
    BY <1>4, <1>5, <1>6, <1>7, <1>8, <1>9, <1>10 DEF FeedInv

\* The subscription to votes begins after the last readable event; until then a
\* process that caught up with nothing has counted nothing.
LEMMA SubscribeVotesStep ==
    ASSUME FeedInv, SubscribeVotes
    PROVE  FeedInv' /\ ShownGrows /\ (CountInv => CountInv')
<1>1. /\ UNCHANGED <<declared, events, height, service, lastSeen, tallies, finalCursor, starts, origin, subs, shown>>
      /\ UNCHANGED chainVars
      /\ service = "Subscribing" /\ voteCursor = Off
      /\ voteCursor' = Cardinality(Sealed) /\ base' = voteCursor'
    BY DEF SubscribeVotes, chainVars, clientVars
<1>2. ChainInv /\ ServiceInv /\ SeenInv /\ OnceInv /\ ClientInv
    BY DEF FeedInv
<1>3. ChainInv' /\ Sealed' = Sealed
    BY <1>1, <1>2, SameChain
<1>4. /\ voteCursor' \in Nat /\ voteCursor' # Off /\ voteCursor' \in 0 .. Len(events)
      /\ Sealed = 1 .. voteCursor' /\ voteCursor' \in Sealed \cup {0}
    <2>1. voteCursor' \in 0 .. Len(events) /\ Sealed = 1 .. voteCursor' /\ Len(events) \in Nat
        BY <1>1, <1>2, SealedPrefix, ChainLength
    <2> HIDE DEF Sealed
    <2>2. QED
        BY <2>1 DEF Off
<1>5. ServiceInv'
    <2>1. base' \in 0 .. voteCursor'
        BY <1>1, <1>4
    <2> HIDE DEF Sealed
    <2>2. QED
        BY <1>1, <1>2, <1>3, <1>4, <2>1 DEF ServiceInv
<1>6. SeenInv'
    BY <1>1, <1>3, <1>4 DEF SeenInv
<1>7. OnceInv'
    <2>1. Passed' = Passed
        BY <1>1, <1>4 DEF Passed
    <2>2. \A p : VotesAmong(p, Passed)' = VotesAmong(p, Passed)
        BY <1>1, <2>1 DEF VotesAmong, IsVote
    <2>3. QED
        BY <1>1, <1>2, <2>2 DEF OnceInv
<1>8. ClientInv'
    BY <1>1, <1>2 DEF ClientInv, ClientsShowTheTally
<1>9. ASSUME CountInv PROVE CountInv'
    <2>1. origin = "Live" => lastSeen = 0 /\ \A p \in Tracked : Zero(tallies[p])
        BY <1>1, <1>9 DEF CountInv, LiveInv
    <2>2. LiveInv'
        BY <1>1, <1>4, <2>1 DEF LiveInv
    <2>3. FirstVotesCounted'
        <3>1. base' + 1 .. voteCursor' = {}
            BY <1>1, <1>4
        <3>2. \A p : FirstVotes(p, voteCursor)' = {}
            BY <3>1 DEF FirstVotes, VotesAmong
        <3>3. Cardinality({}) = 0
            BY FS_EmptySet
        <3> SUFFICES ASSUME origin = "Live", NEW p \in Tracked
                     PROVE  LET V == FirstVotes(p, voteCursor)'
                            IN  /\ tallies[p].total = Cardinality(V)
                                /\ \A o \in Fields : tallies[p].counts[o] =
                                       Cardinality({i \in V : events'[i].option = o})
            BY <1>1 DEF FirstVotesCounted
        <3>4. tallies[p].total = 0 /\ \A o \in Fields : tallies[p].counts[o] = 0
            BY <2>1 DEF Zero
        <3>5. \A o \in Fields : {i \in {} : events'[i].option = o} = {}
            OBVIOUS
        <3>6. QED
            BY <3>2, <3>3, <3>4, <3>5
    <2>4. QED
        BY <1>3, <1>9, <2>2, <2>3 DEF CountInv
<1>10. ShownGrows
    BY <1>1, <1>2, ShownRests
<1>11. QED
    BY <1>3, <1>5, <1>6, <1>7, <1>8, <1>9, <1>10 DEF FeedInv

\* A step that leaves the chain, the tallies and the subscription to votes alone.
LEMMA CountsRest ==
    ASSUME FeedInv, UNCHANGED <<declared, events, height, tallies, lastSeen, voteCursor, base, origin, service>>,
           finalCursor' = Off \/ finalCursor' \in 0 .. Len(events),
           service = "Subscribing", starts' = starts, subs' = subs, shown' = shown
    PROVE  FeedInv' /\ ShownGrows /\ (CountInv => CountInv')
<1>1. ChainInv /\ ServiceInv /\ SeenInv /\ OnceInv /\ ClientInv
    BY DEF FeedInv
<1>2. ChainInv' /\ Sealed' = Sealed
    BY <1>1, SameChain DEF chainVars
<1>3. ServiceInv'
    <2> HIDE DEF Sealed
    <2>1. QED
        BY <1>1, <1>2 DEF ServiceInv
<1>4. SeenInv'
    BY <1>1, <1>2 DEF SeenInv, IsVote
<1>5. OnceInv'
    <2>1. Passed' = Passed
        BY <1>2 DEF Passed
    <2>2. \A p : VotesAmong(p, Passed)' = VotesAmong(p, Passed)
        BY <2>1 DEF VotesAmong, IsVote
    <2>3. QED
        BY <1>1, <2>2 DEF OnceInv
<1>6. ClientInv'
    BY <1>1 DEF ClientInv, ClientsShowTheTally
<1>7. CountInv => CountInv'
    BY <1>2 DEF CountInv, LiveInv, FirstVotesCounted, FirstVotes, VotesAmong, IsVote
<1>8. QED
    BY <1>1, <1>2, <1>3, <1>4, <1>5, <1>6, <1>7, ShownRests DEF FeedInv

\* The subscription to finalisations begins.
LEMMA SubscribeFinalsStep ==
    ASSUME FeedInv, SubscribeFinals
    PROVE  FeedInv' /\ ShownGrows /\ (CountInv => CountInv')
<1>1. /\ UNCHANGED <<declared, events, height, tallies, lastSeen, voteCursor, base, origin, service>>
      /\ service = "Subscribing" /\ starts' = starts /\ subs' = subs /\ shown' = shown
      /\ finalCursor' = Cardinality(Sealed)
    BY DEF SubscribeFinals, chainVars, clientVars
<1>2. Cardinality(Sealed) \in 0 .. Len(events)
    BY SealedPrefix DEF FeedInv
<1>3. QED
    BY <1>1, <1>2, CountsRest

\* A tally that grows and is broadcast: whoever is subscribed shows it, and nobody
\* shows less than before.
LEMMA TallyBroadcast ==
    ASSUME ServiceInv, ClientInv, NEW p \in Tracked, NEW t \in Tally,
           t.total >= tallies[p].total,
           tallies' = [tallies EXCEPT ![p] = t], Broadcast(p, t),
           subs' = subs, origin' = origin
    PROVE  ClientInv' /\ ShownGrows
<1>1. /\ tallies \in [Tracked -> Tally]
      /\ \A q \in Tracked : tallies'[q] = IF q = p THEN t ELSE tallies[q]
      /\ \A q \in Tracked : tallies[q].total \in Nat
      /\ t.total \in Nat
      /\ p \in Policies
    BY PolicyAssumption DEF ServiceInv, Tally
<1>2. \A c \in Clients, q \in Policies :
          shown'[c][q] = IF p \in subs[c] /\ q = p THEN t ELSE shown[c][q]
    BY <1>1 DEF Broadcast, ClientInv
<1>3. shown' \in [Clients -> [Policies -> Tally \cup {Nothing}]]
    BY DEF Broadcast, ClientInv
<1>4. \A c \in Clients, q \in Policies :
          shown'[c][q] # Nothing => q \in Tracked /\ shown'[c][q].total <= tallies'[q].total
    <2> SUFFICES ASSUME NEW c \in Clients, NEW q \in Policies, shown'[c][q] # Nothing
                 PROVE  q \in Tracked /\ shown'[c][q].total <= tallies'[q].total
        OBVIOUS
    <2>1. CASE p \in subs[c] /\ q = p
        <3>1. shown'[c][q] = t /\ tallies'[q] = t
            BY <1>1, <1>2, <2>1
        <3>2. QED
            BY <1>1, <2>1, <3>1
    <2>2. CASE ~(p \in subs[c] /\ q = p)
        <3>1. shown'[c][q] = shown[c][q]
            BY <1>2, <2>2
        <3>2. q \in Tracked /\ shown[c][q].total <= tallies[q].total
            BY <3>1 DEF ClientInv
        <3>3. shown[c][q].total \in Nat /\ tallies[q].total \in Nat /\ tallies'[q].total \in Nat
            BY <1>1, <3>1, <3>2, ShownTotals
        <3>4. tallies[q].total <= tallies'[q].total
            BY <1>1, <3>2
        <3>5. QED
            BY <3>1, <3>2, <3>3, <3>4
    <2>3. QED
        BY <2>1, <2>2
<1>5. ClientsShowTheTally'
    <2> SUFFICES ASSUME origin = "Live", NEW c \in Clients, NEW q \in subs[c] \cap Tracked
                 PROVE  shown'[c][q] = tallies'[q]
        BY DEF ClientsShowTheTally
    <2>1. q \in Policies /\ shown[c][q] = tallies[q]
        BY DEF ClientInv, ClientsShowTheTally
    <2>2. QED
        BY <1>1, <1>2, <2>1
<1>6. ShownGrows
    <2> SUFFICES ASSUME NEW c \in Clients, NEW q \in Policies, shown[c][q] # Nothing
                 PROVE  shown'[c][q].total >= shown[c][q].total
        BY DEF ShownGrows
    <2>1. q \in Tracked /\ shown[c][q].total <= tallies[q].total /\ shown[c][q].total \in Nat
        BY ShownTotals DEF ClientInv
    <2>2. CASE p \in subs[c] /\ q = p
        <3>1. shown'[c][q] = t
            BY <1>2, <2>2
        <3>2. QED
            BY <1>1, <2>1, <2>2, <3>1
    <2>3. CASE ~(p \in subs[c] /\ q = p)
        <3>1. shown'[c][q] = shown[c][q]
            BY <1>2, <2>3
        <3>2. QED
            BY <2>1, <3>1
    <2>4. QED
        BY <2>2, <2>3
<1>7. QED
    BY <1>3, <1>4, <1>5, <1>6 DEF ClientInv

\* The event delivered next is the first of those ahead.
LEMMA FirstAhead ==
    ASSUME ChainInv, NEW I \in SUBSET Sealed, I # {}
    PROVE  /\ Next1(I) \in I /\ \A i \in I : Next1(I) <= i
           /\ Next1(I) \in 1 .. Len(events)
<1>1. Sealed \subseteq 1 .. Len(events) /\ Len(events) \in Nat
    BY SealedPrefix, ChainLength
<1>2. I \in SUBSET Nat
    BY <1>1
<1>3. \E i \in I : \A j \in I : i <= j
    BY <1>2, LeastElement
<1>4. QED
    BY <1>1, <1>3 DEF Next1

\* onPolicyFinalized: the counts stay.
LEMMA DeliverFinalStep ==
    ASSUME FeedInv, DeliverFinal
    PROVE  FeedInv' /\ ShownGrows /\ (CountInv => CountInv')
<1> DEFINE p == events[finalCursor'].policy
           t == [tallies[p] EXCEPT !.finalized = TRUE]
<1>1. /\ UNCHANGED <<declared, events, height, service, lastSeen, voteCursor, starts, base, origin, subs>>
      /\ UNCHANGED chainVars
      /\ finalCursor # Off /\ FinalsAhead # {} /\ finalCursor' = Next1(FinalsAhead)
      /\ p \in Tracked => tallies' = [tallies EXCEPT ![p].finalized = TRUE] /\ Broadcast(p, tallies'[p])
      /\ p \notin Tracked => UNCHANGED <<tallies, shown>>
    BY DEF DeliverFinal, chainVars
<1>2. ChainInv /\ ServiceInv /\ SeenInv /\ OnceInv /\ ClientInv
    BY DEF FeedInv
<1>3. ChainInv' /\ Sealed' = Sealed
    BY <1>1, <1>2, SameChain
<1>4. finalCursor' \in 1 .. Len(events)
    <2>1. FinalsAhead \in SUBSET Sealed
        BY DEF FinalsAhead, Matched
    <2>2. QED
        BY <1>1, <1>2, <2>1, FirstAhead
<1> HIDE DEF p
<1>5. p \in Tracked => /\ t \in Tally /\ t.total = tallies[p].total /\ t.counts = tallies[p].counts
                       /\ tallies' = [tallies EXCEPT ![p] = t] /\ tallies'[p] = t
    <2> SUFFICES ASSUME p \in Tracked
                 PROVE  /\ t \in Tally /\ t.total = tallies[p].total /\ t.counts = tallies[p].counts
                        /\ tallies' = [tallies EXCEPT ![p] = t] /\ tallies'[p] = t
        OBVIOUS
    <2>1. tallies \in [Tracked -> Tally] /\ tallies[p] \in Tally
        BY <1>2 DEF ServiceInv
    <2>2. t \in Tally /\ t.total = tallies[p].total /\ t.counts = tallies[p].counts
        BY <2>1 DEF Tally
    <2>3. tallies' = [tallies EXCEPT ![p] = t]
        BY <1>1
    <2>4. QED
        BY <2>1, <2>2, <2>3
<1> HIDE DEF t
<1>6. /\ tallies' \in [Tracked -> Tally]
      /\ \A q \in Tracked : tallies'[q].total = tallies[q].total /\ tallies'[q].counts = tallies[q].counts
    <2>1. tallies \in [Tracked -> Tally]
        BY <1>2 DEF ServiceInv
    <2>2. QED
        BY <1>1, <1>5, <2>1
<1>7. ServiceInv'
    <2>1. finalCursor' \in 0 .. Len(events)
        BY <1>4
    <2>2. service = "Subscribing"
        BY <1>1, <1>2 DEF ServiceInv
    <2> HIDE DEF Sealed
    <2>3. QED
        BY <1>1, <1>2, <1>3, <1>6, <2>1, <2>2 DEF ServiceInv
<1>8. SeenInv'
    BY <1>1, <1>2, <1>3 DEF SeenInv, IsVote
<1>9. OnceInv'
    <2>1. Passed' = Passed
        BY <1>1, <1>3 DEF Passed
    <2>2. \A q : VotesAmong(q, Passed)' = VotesAmong(q, Passed)
        BY <1>1, <2>1 DEF VotesAmong, IsVote
    <2>3. QED
        BY <1>1, <1>2, <1>6, <2>2 DEF OnceInv
<1>10. ClientInv' /\ ShownGrows
    <2>1. CASE p \in Tracked
        <3>1. t.total >= tallies[p].total
            BY <1>2, <1>5, <2>1 DEF ServiceInv, Tally
        <3>2. QED
            BY <1>1, <1>2, <1>5, <2>1, <3>1, TallyBroadcast
    <2>2. CASE p \notin Tracked
        <3>1. ClientInv'
            BY <1>1, <1>2, <2>2 DEF ClientInv, ClientsShowTheTally
        <3>2. QED
            BY <1>1, <1>2, <2>2, <3>1, ShownRests
    <2>3. QED
        BY <2>1, <2>2
<1>11. ASSUME CountInv PROVE CountInv'
    <2>1. LiveInv'
        BY <1>1, <1>6, <1>11 DEF CountInv, LiveInv, Zero, IsVote
    <2>2. FirstVotesCounted'
        BY <1>1, <1>6, <1>11 DEF CountInv, FirstVotesCounted, FirstVotes, VotesAmong, IsVote
    <2>3. QED
        BY <1>3, <1>11, <2>1, <2>2 DEF CountInv
<1>12. QED
    BY <1>3, <1>7, <1>8, <1>9, <1>10, <1>11 DEF FeedInv

\* A vote already seen is ignored, so one delivered again is.
LEMMA ReplayVoteStep ==
    ASSUME FeedInv, NEW i \in DOMAIN events, ReplayVote(i)
    PROVE  FeedInv' /\ ShownGrows /\ (CountInv => CountInv')
<1>1. /\ UNCHANGED <<declared, events, height, service, voteCursor, finalCursor, starts, base, origin, subs>>
      /\ i \in base + 1 .. voteCursor /\ IsVote(i) /\ OnVoteCast(i)
    BY DEF ReplayVote, chainVars
<1>2. ChainInv /\ ServiceInv /\ SeenInv /\ ClientInv
    BY DEF FeedInv
<1>3. Sealed = 1 .. Cardinality(Sealed) /\ Cardinality(Sealed) \in Nat /\ Len(events) \in Nat
    BY <1>2, SealedPrefix, ChainLength
<1>4. voteCursor # Off /\ voteCursor \in Sealed \cup {0} /\ base \in 0 .. voteCursor
    <2>1. voteCursor # Off
        <3> SUFFICES ASSUME voteCursor = Off PROVE FALSE
            OBVIOUS
        <3>1. base \in Nat \/ base = Off
            BY <1>2, <1>3 DEF ServiceInv
        <3>2. base = Off /\ i = Off + 1
            BY <1>1, <3>1 DEF Off
        <3>3. i \in 1 .. Len(events)
            BY <1>2, ChainLength
        <3>4. QED
            BY <3>2, <3>3 DEF Off
    <2> HIDE DEF Sealed
    <2>2. QED
        BY <1>2, <2>1 DEF ServiceInv
<1>5. i \in Sealed /\ base < i /\ i <= voteCursor
    <2>1. i \in 1 .. Len(events)
        BY <1>2, ChainLength
    <2>2. QED
        BY <1>1, <1>3, <1>4, <2>1
<1>6. events[i].block <= lastSeen
    BY <1>1, <1>2, <1>5 DEF SeenInv
<1>7. UNCHANGED <<lastSeen, tallies, shown>>
    BY <1>1, <1>6 DEF OnVoteCast
<1>8. service = "Subscribing"
    BY <1>2, <1>4 DEF ServiceInv
<1>9. finalCursor' = Off \/ finalCursor' \in 0 .. Len(events)
    BY <1>1, <1>2 DEF ServiceInv
<1>10. QED
    BY <1>1, <1>7, <1>8, <1>9, CountsRest

\* The next vote is delivered: no vote of its policy was passed over.
LEMMA NextVote ==
    ASSUME ChainInv, ServiceInv, voteCursor # Off, VotesAhead # {}, voteCursor' = Next1(VotesAhead)
    PROVE  /\ voteCursor' \in Sealed /\ voteCursor' \in 1 .. Len(events) /\ IsVote(voteCursor')
           /\ voteCursor < voteCursor' /\ base \in 0 .. voteCursor /\ voteCursor \in Nat
           /\ \A j \in voteCursor + 1 .. voteCursor' : IsVote(j) => j = voteCursor'
           /\ \A p, b : b \in 0 .. voteCursor =>
                  VotesAmong(p, b + 1 .. voteCursor') = VotesAmong(p, b + 1 .. voteCursor \cup {voteCursor'})
<1>1. /\ VotesAhead \in SUBSET Sealed
      /\ \A j \in Sealed : IsVote(j) /\ j > voteCursor => j \in VotesAhead
    BY DEF VotesAhead, Matched
<1>2. /\ voteCursor' \in VotesAhead /\ \A j \in VotesAhead : voteCursor' <= j
      /\ voteCursor' \in 1 .. Len(events)
    BY <1>1, FirstAhead
<1>3. Len(events) \in Nat /\ Sealed = 1 .. Cardinality(Sealed) /\ Cardinality(Sealed) \in Nat
    BY SealedPrefix, ChainLength
<1>4. voteCursor \in Nat /\ base \in 0 .. voteCursor
    <2>1. voteCursor \in Sealed \cup {0} /\ base \in 0 .. voteCursor
        BY DEF ServiceInv
    <2>2. QED
        BY <1>3, <2>1
<1>5. voteCursor' \in Sealed /\ IsVote(voteCursor') /\ voteCursor < voteCursor'
    BY <1>1, <1>2 DEF VotesAhead
<1>6. \A j \in voteCursor + 1 .. voteCursor' : IsVote(j) => j = voteCursor'
    <2> SUFFICES ASSUME NEW j \in voteCursor + 1 .. voteCursor', IsVote(j)
                 PROVE  j = voteCursor'
        OBVIOUS
    <2>1. j \in Sealed /\ j > voteCursor
        <3>1. voteCursor' \in Nat
            BY <1>2, <1>3
        <3>2. j \in 1 .. voteCursor' /\ j > voteCursor
            BY <1>4, <3>1
        <3>3. voteCursor' \in 1 .. Cardinality(Sealed)
            BY <1>3, <1>5
        <3>4. j \in 1 .. Cardinality(Sealed)
            BY <1>3, <3>1, <3>2, <3>3
        <3>5. QED
            BY <1>3, <3>2, <3>4
    <2>2. j \in VotesAhead
        BY <1>1, <2>1
    <2>3. voteCursor' <= j
        BY <1>2, <2>2
    <2>4. QED
        BY <1>2, <1>3, <1>4, <2>3
<1>7. ASSUME NEW p, NEW b, b \in 0 .. voteCursor
      PROVE  VotesAmong(p, b + 1 .. voteCursor') = VotesAmong(p, b + 1 .. voteCursor \cup {voteCursor'})
    <2>1. voteCursor' \in Nat /\ b \in Nat /\ b <= voteCursor
        BY <1>2, <1>3, <1>4, <1>7
    <2>2. \A j \in b + 1 .. voteCursor' : j \in b + 1 .. voteCursor \/ j \in voteCursor + 1 .. voteCursor'
        BY <1>4, <2>1
    <2>3. voteCursor' \in b + 1 .. voteCursor'
        BY <1>4, <1>5, <2>1
    <2>4. b + 1 .. voteCursor \subseteq b + 1 .. voteCursor'
        BY <1>4, <1>5, <2>1
    <2>5. QED
        BY <1>6, <2>2, <2>3, <2>4 DEF VotesAmong
<1>8. QED
    BY <1>2, <1>4, <1>5, <1>6, <1>7

\* onVoteCast: a vote is counted at most once, and one that is counted is shown; from
\* its subscription alone, those are counted that are the first of their block.
LEMMA DeliverVoteStep ==
    ASSUME FeedInv, DeliverVote
    PROVE  FeedInv' /\ ShownGrows /\ (CountInv => CountInv')
<1>0. PICK i \in Nat : i = voteCursor'
    <2>1. /\ voteCursor # Off /\ VotesAhead # {} /\ voteCursor' = Next1(VotesAhead)
          /\ ChainInv /\ ServiceInv
        BY DEF DeliverVote, FeedInv
    <2>2. voteCursor' \in 1 .. Len(events) /\ Len(events) \in Nat
        BY <2>1, NextVote, ChainLength
    <2>3. QED
        BY <2>2
<1> DEFINE q == events[i].policy
           t == Apply(tallies[q], q, {i})
           Seen == events[i].block <= lastSeen
<1>1. /\ UNCHANGED <<declared, events, height, service, finalCursor, starts, base, origin, subs>>
      /\ UNCHANGED chainVars
      /\ voteCursor # Off /\ VotesAhead # {} /\ voteCursor' = Next1(VotesAhead)
      /\ Seen => UNCHANGED <<lastSeen, tallies, shown>>
      /\ ~Seen => lastSeen' = events[i].block
      /\ ~Seen /\ q \in Tracked => tallies' = [tallies EXCEPT ![q] = t] /\ Broadcast(q, tallies'[q])
      /\ ~Seen /\ q \notin Tracked => UNCHANGED <<tallies, shown>>
    BY <1>0 DEF DeliverVote, OnVoteCast, chainVars
<1>2. ChainInv /\ ServiceInv /\ SeenInv /\ OnceInv /\ ClientInv
    BY DEF FeedInv
<1>3. ChainInv' /\ Sealed' = Sealed
    BY <1>1, <1>2, SameChain
<1>4. /\ i \in Sealed /\ i \in 1 .. Len(events) /\ IsVote(i)
      /\ voteCursor < i /\ base \in 0 .. voteCursor /\ voteCursor \in Nat
      /\ \A j \in voteCursor + 1 .. i : IsVote(j) => j = i
      /\ \A p, b : b \in 0 .. voteCursor =>
             VotesAmong(p, b + 1 .. i) = VotesAmong(p, b + 1 .. voteCursor \cup {i})
    BY <1>0, <1>1, <1>2, NextVote
<1>5. /\ Len(events) \in Nat /\ i \in Nat /\ i # Off
      /\ events[i].block \in 1 .. MaxHeight /\ MaxHeight \in Nat
      /\ lastSeen \in Nat /\ lastSeen' \in Nat /\ lastSeen <= lastSeen' /\ events[i].block <= lastSeen'
    <2>1. /\ Len(events) \in Nat /\ events[i].block \in 1 .. MaxHeight /\ MaxHeight \in Nat
          /\ lastSeen \in Nat
        BY <1>2, <1>4, ChainLength, BoundAssumption DEF ServiceInv
    <2>2. i \in Nat /\ i # Off
        BY <1>4, <2>1 DEF Off
    <2>3. CASE Seen
        BY <1>1, <2>1, <2>2, <2>3
    <2>4. CASE ~Seen
        BY <1>1, <2>1, <2>2, <2>4
    <2>5. QED
        BY <2>3, <2>4
<1> HIDE DEF q
<1>6. \A p, b : b \in 0 .. voteCursor =>
          /\ VotesAmong(p, b + 1 .. i) =
                 IF q = p THEN VotesAmong(p, b + 1 .. voteCursor) \cup {i} ELSE VotesAmong(p, b + 1 .. voteCursor)
          /\ Cardinality(VotesAmong(p, b + 1 .. i)) =
                 IF q = p THEN Cardinality(VotesAmong(p, b + 1 .. voteCursor)) + 1
                 ELSE Cardinality(VotesAmong(p, b + 1 .. voteCursor))
    <2> SUFFICES ASSUME NEW p, NEW b, b \in 0 .. voteCursor
                 PROVE  /\ VotesAmong(p, b + 1 .. i) =
                               IF q = p THEN VotesAmong(p, b + 1 .. voteCursor) \cup {i}
                               ELSE VotesAmong(p, b + 1 .. voteCursor)
                        /\ Cardinality(VotesAmong(p, b + 1 .. i)) =
                               IF q = p THEN Cardinality(VotesAmong(p, b + 1 .. voteCursor)) + 1
                               ELSE Cardinality(VotesAmong(p, b + 1 .. voteCursor))
        OBVIOUS
    <2>1. b + 1 .. voteCursor \in SUBSET (1 .. Len(events)) /\ i \notin b + 1 .. voteCursor
        BY <1>4, <1>5
    <2>2. VotesAmong(p, b + 1 .. i) = VotesAmong(p, b + 1 .. voteCursor \cup {i})
        BY <1>4
    <2>3. IsVote(i) /\ (events[i].policy = p <=> q = p)
        BY <1>4 DEF q
    <2>4. i \in (1 .. Len(events)) \ (b + 1 .. voteCursor)
        BY <1>4, <2>1
    <2> DEFINE I == b + 1 .. voteCursor
    <2> HIDE DEF I
    <2>5. /\ I \in SUBSET (1 .. Len(events)) /\ i \in (1 .. Len(events)) \ I
          /\ VotesAmong(p, b + 1 .. i) = VotesAmong(p, I \cup {i})
        BY <2>1, <2>2, <2>4 DEF I
    <2>6. /\ VotesAmong(p, I \cup {i}) = IF q = p THEN VotesAmong(p, I) \cup {i} ELSE VotesAmong(p, I)
          /\ Cardinality(VotesAmong(p, I \cup {i})) =
                 IF q = p THEN Cardinality(VotesAmong(p, I)) + 1 ELSE Cardinality(VotesAmong(p, I))
        <3>1. /\ VotesAmong(p, I \cup {i}) =
                     IF IsVote(i) /\ events[i].policy = p THEN VotesAmong(p, I) \cup {i} ELSE VotesAmong(p, I)
              /\ Cardinality(VotesAmong(p, I \cup {i})) =
                     IF IsVote(i) /\ events[i].policy = p THEN Cardinality(VotesAmong(p, I)) + 1
                     ELSE Cardinality(VotesAmong(p, I))
            BY <1>5, <2>5, OneMoreVote, ZenonT(30)
        <3>2. QED
            BY <2>3, <3>1
    <2>7. QED
        BY <2>5, <2>6 DEF I
<1>7. q \in Tracked => /\ t \in Tally
                       /\ t.total = tallies[q].total + 1
                       /\ \A o \in Fields : t.counts[o] =
                              tallies[q].counts[o] + (IF events[i].option = o THEN 1 ELSE 0)
    <2> SUFFICES ASSUME q \in Tracked
                 PROVE  /\ t \in Tally /\ t.total = tallies[q].total + 1
                        /\ \A o \in Fields : t.counts[o] =
                              tallies[q].counts[o] + (IF events[i].option = o THEN 1 ELSE 0)
        OBVIOUS
    <2>1. VotesAmong(q, {i}) = {i}
        BY <1>4 DEF VotesAmong, q
    <2>2. tallies[q] \in Tally /\ {i} \in SUBSET (1 .. Len(events))
        BY <1>2, <1>4 DEF ServiceInv
    <2> HIDE DEF Seen, t
    <2>3. /\ t \in Tally /\ t.total = tallies[q].total + Cardinality({i})
          /\ \A o \in Fields : t.counts[o] =
                 tallies[q].counts[o] + Cardinality({j \in {i} : events[j].option = o})
        <3>1. /\ t \in Tally /\ t.total = tallies[q].total + Cardinality(VotesAmong(q, {i}))
              /\ \A o \in Fields : t.counts[o] =
                    tallies[q].counts[o] + Cardinality({j \in VotesAmong(q, {i}) : events[j].option = o})
            BY <1>2, <2>2, ApplyEffect, ZenonT(30) DEF t
        <3>2. QED
            BY <2>1, <3>1
    <2>4. Cardinality({i}) = 1 /\ Cardinality({}) = 0
        BY FS_Singleton, FS_EmptySet
    <2>5. \A o \in Fields : {j \in {i} : events[j].option = o} = IF events[i].option = o THEN {i} ELSE {}
        OBVIOUS
    <2>6. QED
        BY <2>3, <2>4, <2>5
<1> HIDE DEF t
<1>8. /\ tallies' \in [Tracked -> Tally]
      /\ \A p \in Tracked : tallies'[p] = IF p = q /\ ~Seen THEN t ELSE tallies[p]
      /\ \A p \in Tracked : tallies[p].total \in Nat
    <2>1. tallies \in [Tracked -> Tally]
        BY <1>2 DEF ServiceInv
    <2>2. \A p \in Tracked : tallies[p].total \in Nat
        BY <2>1 DEF Tally
    <2> HIDE DEF Seen
    <2>3. QED
        BY <1>1, <1>7, <2>1, <2>2
<1>9. ServiceInv'
    <2>1. service = "Subscribing" /\ base \in 0 .. i /\ voteCursor' = i
        BY <1>0, <1>1, <1>2, <1>4, <1>5 DEF ServiceInv
    <2> HIDE DEF Sealed
    <2>2. QED
        BY <1>1, <1>2, <1>3, <1>4, <1>5, <1>8, <2>1 DEF ServiceInv
<1>10. SeenInv'
    <2> SUFFICES ASSUME NEW j \in Sealed, base < j, j <= i, IsVote(j)
                 PROVE  events[j].block <= lastSeen'
        BY <1>0, <1>1, <1>3 DEF SeenInv, IsVote
    <2>1. j \in Nat /\ events[j].block \in Nat
        BY <1>2, <1>5, PassedSealed, ChainLength
    <2>2. CASE j <= voteCursor
        BY <1>2, <1>5, <2>1, <2>2 DEF SeenInv
    <2>3. CASE ~(j <= voteCursor)
        <3>1. j \in voteCursor + 1 .. i
            BY <1>4, <1>5, <2>1, <2>3
        <3>2. j = i
            BY <1>4, <3>1
        <3>3. QED
            BY <1>5, <3>2
    <2>4. QED
        BY <2>2, <2>3
<1>11. OnceInv'
    <2> SUFFICES ASSUME origin # "Restarted", NEW p \in Tracked
                 PROVE  /\ service # "Down" /\ service # "CatchUp"
                        /\ tallies'[p].total <= Cardinality(VotesAmong(p, Passed)')
        BY <1>1 DEF OnceInv
    <2>1. service = "Subscribing"
        BY <1>1, <1>2 DEF ServiceInv
    <2>2. Passed = 0 + 1 .. voteCursor /\ Passed' = 0 + 1 .. i
        BY <1>0, <1>1, <1>5 DEF Passed
    <2>3. VotesAmong(p, Passed)' = VotesAmong(p, Passed')
        BY <1>1 DEF VotesAmong, IsVote
    <2>4. Cardinality(VotesAmong(p, Passed')) =
              IF q = p THEN Cardinality(VotesAmong(p, Passed)) + 1 ELSE Cardinality(VotesAmong(p, Passed))
        <3>1. 0 \in 0 .. voteCursor
            BY <1>4
        <3>2. QED
            BY <1>6, <2>2, <3>1
    <2>5. tallies[p].total <= Cardinality(VotesAmong(p, Passed))
        BY <1>2 DEF OnceInv
    <2>6. Cardinality(VotesAmong(p, Passed)) \in Nat
        <3>1. Passed \in SUBSET (1 .. voteCursor)
            BY <2>2
        <3>2. QED
            BY <1>4, <3>1, VotesFinite
    <2>7. tallies'[p].total <= IF q = p THEN tallies[p].total + 1 ELSE tallies[p].total
        BY <1>7, <1>8
    <2>8. tallies'[p].total \in Nat
        BY <1>8 DEF Tally
    <2>9. QED
        BY <1>8, <2>1, <2>3, <2>4, <2>5, <2>6, <2>7, <2>8
<1>12. ClientInv' /\ ShownGrows
    <2>1. CASE ~Seen /\ q \in Tracked
        <3>1. tallies'[q] = t /\ t.total >= tallies[q].total
            BY <1>7, <1>8, <2>1
        <3>2. QED
            BY <1>1, <1>2, <1>7, <2>1, <3>1, TallyBroadcast
    <2>2. CASE ~(~Seen /\ q \in Tracked)
        <3>1. UNCHANGED <<tallies, shown, subs, origin>>
            BY <1>1, <2>2
        <3>2. ClientInv'
            BY <1>2, <3>1 DEF ClientInv, ClientsShowTheTally
        <3>3. QED
            BY <1>2, <3>1, <3>2, ShownRests
    <2>3. QED
        BY <2>1, <2>2
<1>13. ASSUME CountInv PROVE CountInv'
    <2> SUFFICES ASSUME origin = "Live" PROVE LiveInv' /\ FirstVotesCounted'
        BY <1>1, <1>13 DEF CountInv, LiveInv, FirstVotesCounted
    <2> DEFINE First(k) == \A j \in base + 1 .. k - 1 : IsVote(j) => events[j].block # events[k].block
    <2>1. First(i) <=> ~Seen
        <3>1. base \in Nat /\ \A j \in base + 1 .. i - 1 : j \in Nat /\ j <= i - 1 /\ base < j
            BY <1>4, <1>5
        <3>2. \A j \in base + 1 .. i - 1 : j \in 1 .. Len(events) /\ j \in Sealed /\ j < i
            <4>1. Sealed = 1 .. Cardinality(Sealed) /\ Cardinality(Sealed) \in Nat
                BY <1>2, <1>5, SealedPrefix
            <4> HIDE DEF Sealed
            <4>2. QED
                BY <1>4, <1>5, <3>1, <4>1
        <3>3. CASE Seen
            <4>1. lastSeen # 0
                BY <1>5, <3>3
            <4>2. PICK j \in base + 1 .. voteCursor : IsVote(j) /\ events[j].block = lastSeen
                BY <1>1, <1>13, <4>1 DEF CountInv, LiveInv
            <4>3. j \in base + 1 .. i - 1
                BY <1>4, <1>5
            <4>4. events[j].block <= events[i].block
                <5>1. j \in 1 .. Len(events) /\ j <= i
                    BY <1>5, <3>2, <4>3
                <5>2. QED
                    BY <1>2, <1>4, <5>1 DEF ChainInv
            <4>5. events[j].block = events[i].block
                BY <1>5, <3>3, <4>2, <4>4
            <4>6. QED
                BY <3>3, <4>2, <4>3, <4>5
        <3>4. CASE ~Seen
            <4> SUFFICES ASSUME NEW j \in base + 1 .. i - 1, IsVote(j)
                         PROVE  events[j].block # events[i].block
                BY <3>4
            <4>1. j <= voteCursor
                <5> SUFFICES ASSUME ~(j <= voteCursor) PROVE FALSE
                    OBVIOUS
                <5>1. j \in voteCursor + 1 .. i /\ j # i
                    BY <1>4, <1>5, <3>1
                <5>2. QED
                    BY <1>4, <5>1
            <4>2. events[j].block <= lastSeen
                BY <1>2, <3>1, <3>2, <4>1 DEF SeenInv
            <4>3. QED
                BY <1>5, <3>4, <4>2
        <3>5. QED
            BY <3>3, <3>4
    <2>2. LiveInv'
        <3>1. voteCursor' = i /\ voteCursor' # Off
            BY <1>0, <1>5
        <3>2. CASE Seen
            <4>1. base + 1 .. voteCursor \subseteq base + 1 .. i
                BY <1>4, <1>5
            <4>2. lastSeen = 0 \/ \E j \in base + 1 .. voteCursor : IsVote(j) /\ events[j].block = lastSeen
                BY <1>1, <1>13 DEF CountInv, LiveInv
            <4>3. lastSeen' = lastSeen
                BY <1>1, <3>2
            <4>4. QED
                BY <1>1, <3>1, <4>1, <4>2, <4>3 DEF LiveInv, IsVote
        <3>3. CASE ~Seen
            <4>1. IsVote(i)' /\ events'[i].block = lastSeen'
                BY <1>1, <1>4, <3>3 DEF IsVote
            <4>2. i \in base + 1 .. i
                BY <1>4, <1>5
            <4>3. QED
                BY <1>1, <3>1, <4>1, <4>2 DEF LiveInv
        <3>4. QED
            BY <3>2, <3>3
    <2>3. FirstVotesCounted'
        <3> SUFFICES ASSUME NEW p \in Tracked
                     PROVE  /\ tallies'[p].total = Cardinality(FirstVotes(p, i))
                            /\ \A o \in Fields : tallies'[p].counts[o] =
                                   Cardinality({j \in FirstVotes(p, i) : events[j].option = o})
            BY <1>0, <1>1 DEF FirstVotesCounted, FirstVotes, VotesAmong, IsVote
        <3> DEFINE V == FirstVotes(p, voteCursor)
                   W == FirstVotes(p, i)
                   New == q = p /\ ~Seen
        <3>1. /\ tallies[p].total = Cardinality(V)
              /\ \A o \in Fields : tallies[p].counts[o] = Cardinality({j \in V : events[j].option = o})
            BY <1>1, <1>13 DEF CountInv, FirstVotesCounted
        <3>2. IsFiniteSet(V) /\ i \notin V
            <4>1. base + 1 .. voteCursor \in SUBSET (1 .. voteCursor)
                BY <1>4
            <4>2. i \notin base + 1 .. voteCursor
                BY <1>4, <1>5
            <4>3. IsFiniteSet(VotesAmong(p, base + 1 .. voteCursor))
                BY <1>4, <4>1, VotesFinite
            <4>4. V \in SUBSET VotesAmong(p, base + 1 .. voteCursor)
                BY DEF FirstVotes
            <4>5. i \notin VotesAmong(p, base + 1 .. voteCursor)
                BY <4>2 DEF VotesAmong
            <4> HIDE DEF V
            <4>6. QED
                BY <4>3, <4>4, <4>5, FS_Subset
        <3>3. W = IF New THEN V \cup {i} ELSE V
            <4>1. VotesAmong(p, base + 1 .. i) =
                      IF q = p THEN VotesAmong(p, base + 1 .. voteCursor) \cup {i}
                      ELSE VotesAmong(p, base + 1 .. voteCursor)
                BY <1>4, <1>6
            <4>2. /\ V = {k \in VotesAmong(p, base + 1 .. voteCursor) : First(k)}
                  /\ W = {k \in VotesAmong(p, base + 1 .. i) : First(k)}
                BY DEF FirstVotes
            <4> HIDE DEF First, V, W, Seen
            <4>3. QED
                BY <2>1, <4>1, <4>2
        <3>4. tallies'[p] = IF New THEN t ELSE tallies[p]
            BY <1>8
        <3> HIDE DEF V, W, First
        <3>5. CASE ~New
            <4>1. tallies'[p] = tallies[p] /\ W = V
                BY <3>3, <3>4, <3>5
            <4>2. QED
                BY <3>1, <4>1 DEF W
        <3>6. CASE New
            <4>1. tallies'[p] = t /\ W = V \cup {i}
                BY <3>3, <3>4, <3>6
            <4>2. tallies'[p].total = Cardinality(W)
                <5>1. Cardinality(V \cup {i}) = Cardinality(V) + 1
                    BY <3>2, FS_AddElement
                <5>2. t.total = tallies[p].total + 1
                    BY <1>7, <3>6
                <5>3. QED
                    BY <3>1, <4>1, <5>1, <5>2
            <4>3. ASSUME NEW o \in Fields
                  PROVE  tallies'[p].counts[o] = Cardinality({j \in W : events[j].option = o})
                <5> DEFINE A == {j \in V : events[j].option = o}
                           B == {j \in W : events[j].option = o}
                <5>1. B = IF events[i].option = o THEN A \cup {i} ELSE A
                    BY <4>1
                <5>2. IsFiniteSet(A) /\ i \notin A
                    <6>1. A \in SUBSET V
                        OBVIOUS
                    <6>2. QED
                        BY <3>2, <6>1, FS_Subset
                <5>3. tallies[p].counts[o] = Cardinality(A)
                    BY <3>1
                <5> HIDE DEF A, B
                <5>4. Cardinality(A) \in Nat /\ Cardinality(A \cup {i}) = Cardinality(A) + 1
                    BY <5>2, FS_AddElement, FS_CardinalityType
                <5>5. Cardinality(B) = Cardinality(A) + IF events[i].option = o THEN 1 ELSE 0
                    BY <5>1, <5>4
                <5>6. t.counts[o] = tallies[p].counts[o] + (IF events[i].option = o THEN 1 ELSE 0)
                    BY <1>7, <3>6
                <5>7. QED
                    BY <4>1, <5>3, <5>4, <5>5, <5>6 DEF B
            <4>4. QED
                BY <4>2, <4>3 DEF W
        <3>7. QED
            BY <3>5, <3>6 DEF W
    <2>4. QED
        BY <2>2, <2>3
<1>14. QED
    BY <1>3, <1>9, <1>10, <1>11, <1>12, <1>13 DEF FeedInv

\* stop: the listeners go, the tallies stay.
LEMMA StopStep ==
    ASSUME FeedInv, Stop
    PROVE  FeedInv' /\ ShownGrows /\ (CountInv => CountInv')
<1>1. /\ UNCHANGED <<declared, events, height, lastSeen, tallies, starts, base, origin, subs, shown>>
      /\ UNCHANGED chainVars
      /\ service = "Subscribing" /\ service' = "Stopped"
      /\ voteCursor' = Off /\ finalCursor' = Off
    BY DEF Stop, chainVars, clientVars
<1>2. ChainInv /\ ServiceInv /\ SeenInv /\ OnceInv /\ ClientInv
    BY DEF FeedInv
<1>3. ChainInv' /\ Sealed' = Sealed
    BY <1>1, <1>2, SameChain
<1>4. ServiceInv'
    <2> HIDE DEF Sealed
    <2>1. QED
        BY <1>1, <1>2, <1>3 DEF ServiceInv
<1>5. SeenInv'
    <2>1. \A i \in Sealed : ~(i <= voteCursor')
        BY <1>1, <1>2, PassedSealed, ChainLength DEF Off
    <2>2. QED
        BY <1>3, <2>1 DEF SeenInv
<1>6. OnceInv'
    <2> SUFFICES ASSUME origin # "Restarted", NEW p \in Tracked
                 PROVE  tallies[p].total <= Cardinality(VotesAmong(p, Passed)')
        BY <1>1 DEF OnceInv
    <2>1. Passed' = Sealed
        BY <1>1, <1>3 DEF Passed
    <2>2. VotesAmong(p, Passed)' = VotesAmong(p, Sealed)
        BY <1>1, <2>1 DEF VotesAmong, IsVote
    <2>3. Passed \in SUBSET Sealed /\ Sealed \in SUBSET (1 .. Len(events)) /\ Len(events) \in Nat
        BY <1>2, PassedSealed, ChainLength
    <2>4. Cardinality(VotesAmong(p, Passed)) <= Cardinality(VotesAmong(p, Sealed))
        BY <2>3, MoreVotes
    <2>5. Cardinality(VotesAmong(p, Passed)) \in Nat /\ Cardinality(VotesAmong(p, Sealed)) \in Nat
        <3>1. Passed \in SUBSET (1 .. Len(events))
            BY <2>3
        <3>2. QED
            BY <2>3, <3>1, VotesFinite
    <2>6. tallies[p].total \in Nat /\ tallies[p].total <= Cardinality(VotesAmong(p, Passed))
        BY <1>2 DEF OnceInv, ServiceInv, Tally
    <2>7. QED
        BY <2>2, <2>4, <2>5, <2>6
<1>7. ClientInv'
    BY <1>1, <1>2 DEF ClientInv, ClientsShowTheTally
<1>8. CountInv => CountInv'
    BY <1>1, <1>3 DEF CountInv, LiveInv, FirstVotesCounted
<1>9. ShownGrows
    BY <1>1, <1>2, ShownRests
<1>10. QED
    BY <1>3, <1>4, <1>5, <1>6, <1>7, <1>8, <1>9 DEF FeedInv

\* A tally before the first vote.
LEMMA EmptyTally ==
    Empty \in Tally /\ Empty.total = 0 /\ Zero(Empty)
BY DEF Empty, Tally, Zero

\* The service as a process begins with it: nothing counted, nobody connected.
LEMMA NewProcess ==
    ASSUME ChainInv, NEW n \in 0 .. MaxStarts,
           starts = n, service = "Down", lastSeen = 0, tallies = [p \in Tracked |-> Empty],
           voteCursor = Off, finalCursor = Off, base = Off, origin = "Live",
           subs = [c \in Clients |-> {}],
           shown = [c \in Clients |-> [p \in Policies |-> Nothing]]
    PROVE  FeedInv /\ LiveInv /\ FirstVotesCounted
<1>1. \A p \in Tracked : tallies[p] = Empty
    OBVIOUS
<1>2. tallies \in [Tracked -> Tally]
    BY EmptyTally
<1>3. Sealed \subseteq 1 .. Len(events) /\ Len(events) \in Nat
    BY SealedPrefix, ChainLength
<1>4. ServiceInv
    <2> HIDE DEF Sealed
    <2>1. QED
        BY <1>2 DEF ServiceInv, Origins
<1>5. SeenInv
    <2>1. \A i \in Sealed : ~(i <= voteCursor)
        BY <1>3 DEF Off
    <2>2. QED
        BY <2>1 DEF SeenInv
<1>6. OnceInv
    <2> SUFFICES ASSUME NEW p \in Tracked
                 PROVE  0 <= Cardinality(VotesAmong(p, Passed))
        BY <1>1, EmptyTally DEF OnceInv
    <2>1. Passed = Sealed
        BY DEF Passed
    <2>2. Cardinality(VotesAmong(p, Sealed)) \in Nat
        BY <1>3, VotesFinite
    <2>3. QED
        BY <2>1, <2>2
<1>7. ClientInv
    BY DEF ClientInv, ClientsShowTheTally
<1>8. LiveInv
    BY <1>1, EmptyTally DEF LiveInv
<1>9. FirstVotesCounted
    BY DEF FirstVotesCounted
<1>10. QED
    BY <1>4, <1>5, <1>6, <1>7, <1>8, <1>9 DEF FeedInv

\* The process dies; the next one begins as the first did.
LEMMA CrashStep ==
    ASSUME FeedInv, Crash
    PROVE  FeedInv' /\ ShownGrows /\ (CountInv => CountInv')
<1>1. /\ UNCHANGED chainVars /\ starts' = starts
      /\ service' = "Down" /\ lastSeen' = 0 /\ tallies' = [p \in Tracked |-> Empty]
      /\ voteCursor' = Off /\ finalCursor' = Off /\ base' = Off /\ origin' = "Live"
      /\ subs' = [c \in Clients |-> {}]
      /\ shown' = [c \in Clients |-> [p \in Policies |-> Nothing]]
    BY DEF Crash
<1>2. ChainInv /\ starts \in 0 .. MaxStarts
    BY DEF FeedInv, ServiceInv
<1>3. ChainInv' /\ Sealed' = Sealed
    BY <1>1, <1>2, SameChain
<1>4. \A p \in Tracked : tallies'[p] = Empty
    BY <1>1
<1>5. tallies' \in [Tracked -> Tally]
    BY <1>1, EmptyTally
<1>6. Sealed' \subseteq 1 .. Len(events') /\ Len(events') \in Nat /\ events' = events
    BY <1>1, <1>2, <1>3, SealedPrefix, ChainLength DEF chainVars
<1>7. ServiceInv'
    <2> HIDE DEF Sealed
    <2>1. QED
        BY <1>1, <1>2, <1>5 DEF ServiceInv, Origins
<1>8. SeenInv'
    <2>1. \A i \in Sealed' : ~(i <= voteCursor')
        BY <1>1, <1>6 DEF Off
    <2>2. QED
        BY <2>1 DEF SeenInv
<1>9. OnceInv'
    <2> SUFFICES ASSUME NEW p \in Tracked
                 PROVE  0 <= Cardinality(VotesAmong(p, Passed)')
        BY <1>4, EmptyTally DEF OnceInv
    <2>1. Passed' = Sealed
        BY <1>1, <1>3 DEF Passed
    <2>2. VotesAmong(p, Passed)' = VotesAmong(p, Sealed)
        BY <1>6, <2>1 DEF VotesAmong, IsVote
    <2>3. Cardinality(VotesAmong(p, Sealed)) \in Nat
        <3>1. Sealed \in SUBSET (1 .. Len(events))
            BY <1>3, <1>6
        <3>2. QED
            BY <1>6, <3>1, VotesFinite
    <2>4. QED
        BY <2>2, <2>3
<1>10. ClientInv'
    BY <1>1 DEF ClientInv, ClientsShowTheTally
<1>11. LiveInv' /\ FirstVotesCounted'
    BY <1>1, <1>4, EmptyTally DEF LiveInv, FirstVotesCounted, Zero
<1>12. ShownGrows
    BY <1>1 DEF ShownGrows
<1>13. QED
    BY <1>3, <1>7, <1>8, <1>9, <1>10, <1>11, <1>12 DEF FeedInv, CountInv

-----------------------------------------------------------------------------
(* The theorems *)

\* Every step of the feed preserves the invariant, and with at most one vote in a
\* block also what it counts; and no message shrinks what a client shows.
LEMMA FeedStep ==
    ASSUME FeedInv, [Next]_vars
    PROVE  FeedInv' /\ ShownGrows /\ (CountInv => CountInv')
<1>1. CASE UNCHANGED vars
    <2>1. UNCHANGED <<chainVars, serviceVars>> /\ UNCHANGED clientVars
        BY <1>1 DEF vars
    <2>2. ClientInv
        BY DEF FeedInv
    <2>3. ClientInv' /\ shown' = shown
        BY <2>1, <2>2 DEF ClientInv, ClientsShowTheTally, clientVars, serviceVars
    <2>4. QED
        BY <2>1, <2>2, <2>3, ServiceRests, ShownRests
<1>2. CASE \E p \in Policies, o \in Options : VoteEmitted(p, o)
    BY <1>2, VoteEmittedStep
<1>3. CASE \E p \in Policies : FinalEmitted(p)
    BY <1>3, FinalEmittedStep
<1>4. CASE BlockSealed
    BY <1>4, BlockSealedStep
<1>5. CASE \E c \in Clients, p \in Policies : Subscribe(c, p) \/ Unsubscribe(c, p)
    BY <1>5, SubscribeStep, UnsubscribeStep
<1>6. CASE \E c \in Clients : Disconnect(c)
    BY <1>6, DisconnectStep
<1>7. CASE \E from \in FromBlocks \cup {lastSeen} : Start(from)
    BY <1>7, StartStep
<1>8. CASE CatchUp
    BY <1>8, CatchUpStep
<1>9. CASE CatchUpFails
    BY <1>9, CatchUpFailsStep
<1>10. CASE SubscribeVotes
    BY <1>10, SubscribeVotesStep
<1>11. CASE SubscribeFinals
    BY <1>11, SubscribeFinalsStep
<1>12. CASE DeliverVote
    BY <1>12, DeliverVoteStep
<1>13. CASE DeliverFinal
    BY <1>13, DeliverFinalStep
<1>14. CASE \E i \in DOMAIN events : ReplayVote(i)
    BY <1>14, ReplayVoteStep
<1>15. CASE Stop
    BY <1>15, StopStep
<1>16. CASE Crash
    BY <1>16, CrashStep
<1>17. QED
    BY <1>1, <1>2, <1>3, <1>4, <1>5, <1>6, <1>7, <1>8, <1>9, <1>10, <1>11, <1>12, <1>13,
       <1>14, <1>15, <1>16 DEF Next

\* The feed begins with an empty chain and a process that is down.
LEMMA FeedStart ==
    ASSUME Init
    PROVE  FeedInv /\ CountInv
<1>1. Len(events) = 0 /\ events \in Seq(Events)
    BY DEF Init
<1>2. ChainInv
    BY <1>1, BoundAssumption DEF Init, ChainInv
<1>3. FeedInv /\ LiveInv /\ FirstVotesCounted
    <2>1. 0 \in 0 .. MaxStarts
        BY BoundAssumption
    <2>2. /\ starts = 0 /\ service = "Down" /\ lastSeen = 0 /\ tallies = [p \in Tracked |-> Empty]
          /\ voteCursor = Off /\ finalCursor = Off /\ base = Off /\ origin = "Live"
          /\ subs = [c \in Clients |-> {}]
          /\ shown = [c \in Clients |-> [p \in Policies |-> Nothing]]
        BY DEF Init
    <2>3. QED
        BY <1>2, <2>1, <2>2, NewProcess
<1>4. QED
    BY <1>3 DEF CountInv

\* The chain is in order, subscriptions begin at its readable end, what was delivered
\* is not after the last seen block, and no client shows more than was counted.
THEOREM FeedInvariant == Spec => []FeedInv
<1>1. Init => FeedInv
    BY FeedStart
<1>2. FeedInv /\ [Next]_vars => FeedInv'
    BY FeedStep
<1>3. QED
    BY <1>1, <1>2, PTL DEF Spec

\* Every variable of the feed keeps its type.
THEOREM FeedTypeCorrect == Spec => []TypeOK
<1>1. FeedInv => TypeOK
    <2> SUFFICES ASSUME FeedInv PROVE TypeOK
        OBVIOUS
    <2>1. ChainInv /\ ServiceInv /\ ClientInv
        BY DEF FeedInv
    <2>2. /\ Len(events) \in Nat /\ DOMAIN events = 1 .. Len(events)
          /\ \A i \in DOMAIN events : /\ events[i] \in Events
                                      /\ events[i].block \in 1 .. MaxHeight
                                      /\ events[i].policy \in Policies
        BY <2>1, ChainLength
    <2>3. \A i \in DOMAIN events : events[i].event \in {"VoteCast", "PolicyFinalized"}
        BY <2>2 DEF Events
    <2>4. {voteCursor, finalCursor, base} \subseteq {Off} \cup (0 .. Len(events))
        <3>1. Sealed \subseteq 0 .. Len(events) /\ 0 \in 0 .. Len(events)
            BY <2>1, <2>2, SealedPrefix
        <3> HIDE DEF Sealed
        <3>2. /\ voteCursor = Off \/ voteCursor \in Sealed \cup {0}
              /\ base = Off \/ base \in Sealed \cup {0}
              /\ finalCursor = Off \/ finalCursor \in 0 .. Len(events)
            BY <2>1 DEF ServiceInv
        <3>3. Sealed \cup {0} \subseteq 0 .. Len(events)
            BY <3>1
        <3>4. /\ voteCursor \in {Off} \cup (0 .. Len(events))
              /\ finalCursor \in {Off} \cup (0 .. Len(events))
              /\ base \in {Off} \cup (0 .. Len(events))
            BY <3>2, <3>3
        <3>5. QED
            BY <3>4
    <2>5. declared \in BOOLEAN /\ height \in 0 .. MaxHeight
        BY <2>1 DEF ChainInv
    <2>6. QED
        BY <2>1, <2>2, <2>3, <2>4, <2>5 DEF ServiceInv, ClientInv, TypeOK
<1>2. QED
    BY <1>1, FeedInvariant, PTL

\* WSBroadcaster: a client subscribed to a process that lives on its subscription
\* shows that process's tally, however snapshots, updates and connections interleave.
THEOREM SubscribersShowTheTally == Spec => []ClientsShowTheTally
<1>1. FeedInv => ClientsShowTheTally
    BY DEF FeedInv, ClientInv
<1>2. QED
    BY <1>1, FeedInvariant, PTL

\* What catchUp counted and what the subscription delivers afterwards never overlap,
\* with any number of votes in a block, so no tally exceeds the votes there are.
THEOREM CaughtUpOnce == Spec => []CatchUpNotRecounted
<1>1. FeedInv => CatchUpNotRecounted
    <2> SUFFICES ASSUME FeedInv, origin # "Restarted", NEW p \in Tracked
                 PROVE  tallies[p].total <= Cardinality(VotesAmong(p, Sealed))
        BY DEF CatchUpNotRecounted, NoDoubleCounting
    <2>1. ChainInv /\ ServiceInv /\ OnceInv
        BY DEF FeedInv
    <2>2. Passed \in SUBSET Sealed /\ Sealed \in SUBSET (1 .. Len(events)) /\ Len(events) \in Nat
        BY <2>1, PassedSealed, ChainLength
    <2>3. Cardinality(VotesAmong(p, Passed)) <= Cardinality(VotesAmong(p, Sealed))
        BY <2>2, MoreVotes
    <2>4. Cardinality(VotesAmong(p, Passed)) \in Nat /\ Cardinality(VotesAmong(p, Sealed)) \in Nat
        <3>1. Passed \in SUBSET (1 .. Len(events))
            BY <2>2
        <3>2. QED
            BY <2>2, <3>1, VotesFinite
    <2>5. tallies[p].total \in Nat /\ tallies[p].total <= Cardinality(VotesAmong(p, Passed))
        BY <2>1 DEF OnceInv, ServiceInv, Tally
    <2>6. QED
        BY <2>3, <2>4, <2>5
<1>2. QED
    BY <1>1, FeedInvariant, PTL

\* onVoteCast, applyVoteCast and catchUp: a process that lives on its subscription has
\* counted, of the votes it was delivered, exactly the first of every block, to its own
\* option, and one that caught up has counted none twice, however many votes a block
\* holds and whether or not the ledger's events are the ones it listens for.
THEOREM FeedCountsFirstVotes == Spec => []TalliesAreRight
<1>1. Init => FeedInv /\ CountInv
    BY FeedStart
<1>2. FeedInv /\ CountInv /\ [Next]_vars => FeedInv' /\ CountInv'
    BY FeedStep
<1>3. CountInv /\ CatchUpNotRecounted => TalliesAreRight
    BY DEF CountInv, TalliesAreRight
<1>4. QED
    BY <1>1, <1>2, <1>3, CaughtUpOnce, PTL DEF Spec

\* onVoteCast, onPolicyFinalized, subscribe: no message takes back votes a client was
\* shown, also after the service was stopped and started.
THEOREM ShownTotalsGrow == Spec => ShownNeverShrinks
<1>1. FeedInv /\ [Next]_vars =>
          [\A c \in Clients, p \in Policies :
              shown[c][p] # Nothing /\ shown'[c][p] # Nothing =>
                  shown'[c][p].total >= shown[c][p].total]_vars
    BY FeedStep DEF ShownGrows
<1>2. QED
    BY <1>1, FeedInvariant, PTL DEF Spec, ShownNeverShrinks

=============================================================================
