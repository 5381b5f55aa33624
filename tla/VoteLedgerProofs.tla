-------------------------- MODULE VoteLedgerProofs ---------------------------
(***************************************************************************)
(* Proofs that every reachable state of the vote ledger satisfies the       *)
(* properties of module VoteLedger, for any polls, options, nullifiers and  *)
(* accounts and any bound on time.                                          *)
(***************************************************************************)
EXTENDS VoteLedger, FiniteSetTheorems, SequenceTheorems, TLAPS

-----------------------------------------------------------------------------
(* What one more event does to the votes on record *)

\* The positions of the recorded votes are finitely many.
LEMMA VotesFinite ==
    ASSUME log \in Seq(Events)
    PROVE  /\ IsFiniteSet(VotesLogged)
           /\ VotesLogged \subseteq 1 .. Len(log)
           /\ \A p : IsFiniteSet(VotesOf(p))
           /\ \A p, o : IsFiniteSet(VotesFor(p, o))
<1>1. Len(log) \in Nat /\ DOMAIN log = 1 .. Len(log)
    BY LenProperties
<1>2. IsFiniteSet(1 .. Len(log))
    BY <1>1, FS_Interval
<1>3. VotesLogged \in SUBSET (1 .. Len(log))
    BY <1>1 DEF VotesLogged
<1>4. \A p : VotesOf(p) \in SUBSET VotesLogged
    BY DEF VotesOf
<1>5. \A p, o : VotesFor(p, o) \in SUBSET VotesLogged
    BY DEF VotesFor, VotesOf
<1>6. IsFiniteSet(VotesLogged)
    BY <1>2, <1>3, FS_Subset
<1>7. QED
    BY <1>3, <1>4, <1>5, <1>6, FS_Subset

\* A VoteCast event adds the new position to the votes of its poll and option
\* and to no others; what the log held before stays where it was.
LEMMA VoteAppended ==
    ASSUME log \in Seq(Events),
           NEW q \in Polls, NEW x \in Options, NEW n \in Nullifiers, NEW t \in Nat,
           log' = Append(log, VoteCast(q, x, n, t))
    PROVE  /\ Len(log') = Len(log) + 1
           /\ log' \in Seq(Events)
           /\ \A i \in 1 .. Len(log) : log'[i] = log[i]
           /\ log'[Len(log) + 1] = VoteCast(q, x, n, t)
           /\ VotesLogged' = VotesLogged \cup {Len(log) + 1}
           /\ \A p : VotesOf(p)' = IF p = q THEN VotesOf(p) \cup {Len(log) + 1}
                                             ELSE VotesOf(p)
           /\ \A p, o : VotesFor(p, o)' =
                  IF p = q /\ o = x THEN VotesFor(p, o) \cup {Len(log) + 1}
                                    ELSE VotesFor(p, o)
<1> DEFINE e == VoteCast(q, x, n, t)
<1>1. e \in Events /\ e.event = "VoteCast" /\ e.poll = q /\ e.option = x
    BY DEF VoteCast, Events
<1> HIDE DEF e
<1>2. /\ Len(log) \in Nat
      /\ DOMAIN log = 1 .. Len(log)
    BY LenProperties
<1>3. /\ log' \in Seq(Events)
      /\ Len(log') = Len(log) + 1
      /\ \A i \in 1 .. Len(log) : log'[i] = log[i]
      /\ log'[Len(log) + 1] = e
    BY <1>1, AppendProperties DEF e
<1>4. DOMAIN log' = 1 .. Len(log) + 1
    BY <1>3, LenProperties
<1>5. VotesLogged' = VotesLogged \cup {Len(log) + 1}
    BY <1>1, <1>2, <1>3, <1>4 DEF VotesLogged
<1>6. \A i \in VotesLogged : i \in 1 .. Len(log) /\ log'[i] = log[i]
    BY <1>2, <1>3 DEF VotesLogged
<1>7. \A p : VotesOf(p)' = IF p = q THEN VotesOf(p) \cup {Len(log) + 1}
                                    ELSE VotesOf(p)
    BY <1>1, <1>3, <1>5, <1>6 DEF VotesOf
<1>8. \A p, o : VotesFor(p, o)' =
           IF p = q /\ o = x THEN VotesFor(p, o) \cup {Len(log) + 1}
                             ELSE VotesFor(p, o)
    <2> SUFFICES ASSUME NEW p, NEW o
                 PROVE  VotesFor(p, o)' =
                          IF p = q /\ o = x THEN VotesFor(p, o) \cup {Len(log) + 1}
                                            ELSE VotesFor(p, o)
        OBVIOUS
    <2>1. \A i \in VotesOf(p) : log'[i] = log[i]
        BY <1>6 DEF VotesOf
    <2>2. QED
        BY <1>1, <1>3, <1>7, <2>1 DEF VotesFor
<1>9. QED
    BY <1>3, <1>5, <1>7, <1>8 DEF e

\* A PollFinalised event leaves the votes on record alone.
LEMMA FinalisationAppended ==
    ASSUME log \in Seq(Events), NEW q \in Polls, NEW total \in Nat,
           log' = Append(log, PollFinalised(q, total))
    PROVE  /\ Len(log') = Len(log) + 1
           /\ log' \in Seq(Events)
           /\ \A i \in 1 .. Len(log) : log'[i] = log[i]
           /\ log'[Len(log) + 1] = PollFinalised(q, total)
           /\ VotesLogged' = VotesLogged
           /\ \A i \in VotesLogged : log'[i] = log[i]
           /\ \A p : VotesOf(p)' = VotesOf(p)
           /\ \A p, o : VotesFor(p, o)' = VotesFor(p, o)
<1> DEFINE e == PollFinalised(q, total)
<1>1. e \in Events /\ e.event = "PollFinalised"
    BY DEF PollFinalised, Events
<1> HIDE DEF e
<1>2. /\ Len(log) \in Nat
      /\ DOMAIN log = 1 .. Len(log)
    BY LenProperties
<1>3. /\ log' \in Seq(Events)
      /\ Len(log') = Len(log) + 1
      /\ \A i \in 1 .. Len(log) : log'[i] = log[i]
      /\ log'[Len(log) + 1] = e
    BY <1>1, AppendProperties DEF e
<1>4. DOMAIN log' = 1 .. Len(log) + 1
    BY <1>3, LenProperties
<1>5. VotesLogged' = VotesLogged
    BY <1>1, <1>2, <1>3, <1>4 DEF VotesLogged
<1>6. \A i \in VotesLogged : log'[i] = log[i]
    BY <1>2, <1>3 DEF VotesLogged
<1>7. \A p : VotesOf(p)' = VotesOf(p)
    BY <1>5, <1>6 DEF VotesOf
<1>8. \A p, o : VotesFor(p, o)' = VotesFor(p, o)
    BY <1>6, <1>7 DEF VotesFor, VotesOf
<1>9. QED
    BY <1>3, <1>5, <1>6, <1>7, <1>8 DEF e

-----------------------------------------------------------------------------
(* Type correctness *)

\* The deployed contract is well typed before its first transaction.
LEMMA TypeCorrectInit == Init => TypeOK
<1> SUFFICES ASSUME Init PROVE TypeOK
    OBVIOUS
<1>1. log \in Seq(Events) /\ nullifierList \in Seq(Nullifiers)
    BY EmptySeq DEF Init
<1>2. optionTally \in [Polls -> [Options -> Nat]]
    BY DEF Init
<1>3. /\ deadline \in [Polls -> Nat]
      /\ finalised \in [Polls -> BOOLEAN]
      /\ totalVotes \in [Polls -> Nat]
    BY DEF Init
<1>4. paused \in BOOLEAN
    BY DEF Init
<1>5. now \in Nat \ {0} /\ owner \in Accounts \cup {NoAccount}
        /\ spent \in SUBSET Nullifiers
    BY DEF Init
<1>6. QED
    BY <1>1, <1>2, <1>3, <1>4, <1>5 DEF TypeOK

\* Every variable of the ledger keeps its type: in particular the log holds only
\* well-formed events and the list only nullifiers that were submitted.
THEOREM TypeCorrect == Spec => []TypeOK
<1>1. Init => TypeOK
    BY TypeCorrectInit
<1>2. TypeOK /\ [Next]_vars => TypeOK'
    <2> SUFFICES ASSUME TypeOK, [Next]_vars PROVE TypeOK'
        OBVIOUS
    <2> USE DEF TypeOK
    <2>1. ASSUME NEW a \in Accounts, NEW p \in Polls, NEW d \in Deadlines,
                 CreatePoll(a, p, d)
          PROVE  TypeOK'
        BY <2>1, MaxTimeAssumption DEF CreatePoll, Deadlines
    <2>2. ASSUME NEW p \in Polls, NEW o \in Options, NEW n \in Nullifiers,
                 CastVote(p, o, n)
          PROVE  TypeOK'
        <3>1. log' \in Seq(Events)
            BY <2>2, VoteAppended DEF CastVote
        <3>2. nullifierList' \in Seq(Nullifiers)
            BY <2>2, AppendProperties DEF CastVote
        <3>3. /\ totalVotes' \in [Polls -> Nat]
              /\ optionTally' \in [Polls -> [Options -> Nat]]
            BY <2>2 DEF CastVote
        <3>4. QED
            BY <2>2, <3>1, <3>2, <3>3 DEF CastVote
    <2>3. ASSUME NEW a \in Accounts, NEW p \in Polls, FinalisePoll(a, p)
          PROVE  TypeOK'
        <3>1. log' \in Seq(Events)
            BY <2>3, FinalisationAppended DEF FinalisePoll
        <3>2. QED
            BY <2>3, <3>1 DEF FinalisePoll
    <2>4. ASSUME NEW a \in Accounts, Pause(a) \/ Unpause(a)
          PROVE  TypeOK'
        BY <2>4 DEF Pause, Unpause, pollVars, nullVars
    <2>5. ASSUME NEW a \in Accounts, NEW b \in Accounts \cup {NoAccount},
                 TransferOwnership(a, b)
          PROVE  TypeOK'
        BY <2>5 DEF TransferOwnership, pollVars, nullVars
    <2>6. CASE NextBlock
        BY <2>6 DEF NextBlock, adminVars, pollVars, nullVars
    <2>7. CASE UNCHANGED vars
        BY <2>7 DEF vars
    <2>8. QED
        BY <2>1, <2>2, <2>3, <2>4, <2>5, <2>6, <2>7 DEF Next
<1>3. QED
    BY <1>1, <1>2, PTL DEF Spec

-----------------------------------------------------------------------------
(* The inductive invariant, one lemma per action that touches what it relates *)

\* A vote keeps the list, the counters and the log in agreement: it is new to
\* all of them (NullifierSpent was tested) and is added to all of them.
LEMMA CastVotePreserves ==
    ASSUME LedgerInv, TypeOK',
           NEW q \in Polls, NEW x \in Options, NEW n \in Nullifiers,
           CastVote(q, x, n)
    PROVE  LedgerInv'
<1> DEFINE k == Len(log) + 1
<1> USE DEF LedgerInv
<1>1. /\ log' = Append(log, VoteCast(q, x, n, now))
      /\ log \in Seq(Events) /\ now \in Nat /\ nullifierList \in Seq(Nullifiers)
    BY DEF CastVote, TypeOK
<1>2. /\ Len(log') = k
      /\ \A i \in 1 .. Len(log) : log'[i] = log[i]
      /\ log'[k] = VoteCast(q, x, n, now)
      /\ VotesLogged' = VotesLogged \cup {k}
      /\ \A p : VotesOf(p)' = IF p = q THEN VotesOf(p) \cup {k} ELSE VotesOf(p)
      /\ \A p, o : VotesFor(p, o)' =
             IF p = q /\ o = x THEN VotesFor(p, o) \cup {k} ELSE VotesFor(p, o)
    BY <1>1, VoteAppended
<1>3. /\ IsFiniteSet(VotesLogged)
      /\ VotesLogged \subseteq 1 .. Len(log)
      /\ \A p : IsFiniteSet(VotesOf(p))
      /\ \A p, o : IsFiniteSet(VotesFor(p, o))
    BY <1>1, VotesFinite
<1>4. Len(log) \in Nat /\ DOMAIN log = 1 .. Len(log) /\ DOMAIN log' = 1 .. k
    BY <1>1, <1>2, LenProperties DEF TypeOK
<1>5. k \notin VotesLogged /\ \A i \in VotesLogged : log'[i] = log[i]
    BY <1>2, <1>3, <1>4
<1>6. (\A p : k \notin VotesOf(p)) /\ (\A p, o : k \notin VotesFor(p, o))
    BY <1>5 DEF VotesOf, VotesFor
<1>7. \A i \in VotesLogged : log[i].nullifier # n
    BY DEF NullifierListExact, CastVote, CanVote
<1>8. /\ log'[k].nullifier = n /\ log'[k].poll = q /\ log'[k].time = now
      /\ log'[k].event = "VoteCast"
    BY <1>2 DEF VoteCast
<1> HIDE DEF k
<1>9. OneVotePerNullifier'
    BY <1>2, <1>5, <1>7, <1>8 DEF OneVotePerNullifier
<1>10. NullifierListExact'
    <2>1. /\ nullifierList' = Append(nullifierList, n)
          /\ spent' = spent \cup {n}
        BY DEF CastVote
    <2>2. /\ Len(nullifierList') = Len(nullifierList) + 1
          /\ \A i \in 1 .. Len(nullifierList) : nullifierList'[i] = nullifierList[i]
          /\ nullifierList'[Len(nullifierList) + 1] = n
          /\ nullifierList' \in Seq(Nullifiers)
        BY <1>1, <2>1, AppendProperties
    <2>3. /\ Len(nullifierList) \in Nat
          /\ DOMAIN nullifierList = 1 .. Len(nullifierList)
          /\ DOMAIN nullifierList' = 1 .. Len(nullifierList) + 1
        BY <1>1, <2>2, LenProperties
    <2>4. spent' = {nullifierList'[i] : i \in DOMAIN nullifierList'}
        <3>1. spent = {nullifierList[i] : i \in 1 .. Len(nullifierList)}
            BY <2>3 DEF NullifierListExact
        <3>2. \A m \in spent' : \E i \in DOMAIN nullifierList' : m = nullifierList'[i]
            BY <2>1, <2>2, <2>3, <3>1
        <3>3. \A i \in DOMAIN nullifierList' : nullifierList'[i] \in spent'
            BY <2>1, <2>2, <2>3, <3>1
        <3>4. QED
            BY <3>2, <3>3
    <2>5. spent' = {log'[i].nullifier : i \in VotesLogged'}
        BY <1>2, <1>5, <1>8, <2>1 DEF NullifierListExact
    <2>6. Cardinality(VotesLogged') = Cardinality(VotesLogged) + 1
        BY <1>2, <1>3, <1>5, FS_AddElement
    <2>7. QED
        BY <2>2, <2>4, <2>5, <2>6 DEF NullifierListExact
<1>11. TallyMatchesLog'
    <2>1. /\ totalVotes' = [totalVotes EXCEPT ![q] = @ + 1]
          /\ optionTally' = [optionTally EXCEPT ![q][x] = @ + 1]
          /\ totalVotes \in [Polls -> Nat]
          /\ optionTally \in [Polls -> [Options -> Nat]]
        BY DEF CastVote, TypeOK
    <2>2. ASSUME NEW p \in Polls PROVE totalVotes'[p] = Cardinality(VotesOf(p)')
        <3>1. Cardinality(VotesOf(p) \cup {k}) = Cardinality(VotesOf(p)) + 1
            BY <1>3, <1>6, FS_AddElement
        <3>2. QED
            BY <1>2, <2>1, <3>1 DEF TallyMatchesLog
    <2>3. ASSUME NEW p \in Polls, NEW o \in Options
          PROVE  optionTally'[p][o] = Cardinality(VotesFor(p, o)')
        <3>1. Cardinality(VotesFor(p, o) \cup {k}) = Cardinality(VotesFor(p, o)) + 1
            BY <1>3, <1>6, FS_AddElement
        <3>2. optionTally[p][o] = Cardinality(VotesFor(p, o))
            BY DEF TallyMatchesLog
        <3>3. optionTally'[p][o] = IF p = q /\ o = x THEN optionTally[p][o] + 1
                                                     ELSE optionTally[p][o]
            BY <2>1
        <3>4. QED
            BY <1>2, <3>1, <3>2, <3>3
    <2>4. QED
        BY <2>2, <2>3 DEF TallyMatchesLog
<1>12. FinalResultStands'
    <2>1. /\ ~finalised[q] /\ finalised' = finalised
          /\ \A p \in Polls : p # q => totalVotes'[p] = totalVotes[p]
        BY DEF CastVote, CanVote, TypeOK
    <2>2. \A i \in DOMAIN log' : log'[i].event = "PollFinalised" =>
              i \in DOMAIN log /\ log'[i] = log[i] /\ log[i].poll # q
                /\ log[i].poll \in Polls
        <3>1. \A i \in DOMAIN log' : i \in DOMAIN log \/ i = k
            BY <1>4 DEF k
        <3>2. \A i \in DOMAIN log : log[i] \in Events /\ log'[i] = log[i]
            BY <1>1, <1>2, <1>4, ElementOfSeq
        <3>3. QED
            BY <1>8, <2>1, <3>1, <3>2 DEF FinalResultStands, Events
    <2>3. QED
        BY <2>1, <2>2 DEF FinalResultStands
<1>13. VotesWithinDeadline'
    BY <1>2, <1>5, <1>8, ZenonT(30) DEF VotesWithinDeadline, CastVote, CanVote
<1>14. VotesInThePast'
    <2>1. now' = now /\ now <= now
        BY <1>1 DEF CastVote
    <2>2. \A i \in VotesLogged : log'[i].time <= now
        BY <1>5 DEF VotesInThePast
    <2>3. QED
        BY <1>2, <1>8, <2>1, <2>2 DEF VotesInThePast
<1>15. QED
    BY <1>9, <1>10, <1>11, <1>12, <1>13, <1>14

\* The finalisation event announces the current total, once.
LEMMA FinalisePollPreserves ==
    ASSUME LedgerInv, TypeOK', NEW a, NEW q \in Polls, FinalisePoll(a, q)
    PROVE  LedgerInv'
<1> DEFINE k == Len(log) + 1
<1> USE DEF LedgerInv
<1>1. /\ log' = Append(log, PollFinalised(q, totalVotes[q]))
      /\ log \in Seq(Events) /\ totalVotes[q] \in Nat
      /\ UNCHANGED <<now, deadline, totalVotes, optionTally, spent, nullifierList>>
    BY DEF FinalisePoll, TypeOK
<1>2. /\ Len(log') = k
      /\ \A i \in 1 .. Len(log) : log'[i] = log[i]
      /\ log'[k] = PollFinalised(q, totalVotes[q])
      /\ VotesLogged' = VotesLogged
      /\ \A i \in VotesLogged : log'[i] = log[i]
      /\ \A p : VotesOf(p)' = VotesOf(p)
      /\ \A p, o : VotesFor(p, o)' = VotesFor(p, o)
    BY <1>1, FinalisationAppended
<1>3. Len(log) \in Nat /\ DOMAIN log = 1 .. Len(log) /\ DOMAIN log' = 1 .. k
    BY <1>1, <1>2, LenProperties DEF TypeOK
<1>4. OneVotePerNullifier' /\ VotesWithinDeadline' /\ VotesInThePast'
    <2>1. OneVotePerNullifier'
        BY <1>2 DEF OneVotePerNullifier
    <2>2. VotesWithinDeadline'
        BY <1>1, <1>2 DEF VotesWithinDeadline
    <2>3. VotesInThePast'
        BY <1>1, <1>2 DEF VotesInThePast
    <2>4. QED
        BY <2>1, <2>2, <2>3
<1>5. NullifierListExact'
    <2>1. {log'[i].nullifier : i \in VotesLogged'} = {log[i].nullifier : i \in VotesLogged}
        BY <1>2
    <2>2. QED
        BY <1>1, <1>2, <2>1 DEF NullifierListExact
<1>6. TallyMatchesLog'
    BY <1>1, <1>2 DEF TallyMatchesLog
<1>7. FinalResultStands'
    <2>1. /\ ~finalised[q] /\ finalised' = [finalised EXCEPT ![q] = TRUE]
          /\ finalised \in [Polls -> BOOLEAN]
        BY DEF FinalisePoll, TypeOK
    <2>2. \A i \in DOMAIN log' : i \in DOMAIN log \/ i = k
        BY <1>3 DEF k
    <2>3. \A i \in DOMAIN log : log'[i] = log[i] /\ i # k /\ log[i] \in Events
        BY <1>1, <1>2, <1>3, ElementOfSeq
    <2>4. /\ log'[k].event = "PollFinalised" /\ log'[k].poll = q
          /\ log'[k].total = totalVotes[q]
        BY <1>2 DEF PollFinalised
    <2> HIDE DEF k
    <2>5. \A i \in DOMAIN log : log[i].event = "PollFinalised" =>
              log[i].poll \in Polls /\ log[i].poll # q
        BY <2>1, <2>3 DEF FinalResultStands, Events
    <2>6. QED
        BY <1>1, <2>1, <2>2, <2>3, <2>4, <2>5 DEF FinalResultStands
<1>8. QED
    BY <1>4, <1>5, <1>6, <1>7

\* A step that appends nothing to the log and moves no counter can disturb only
\* the bounds on the votes' times, and only by moving the deadline or the clock.
LEMMA QuietStepPreserves ==
    ASSUME LedgerInv, TypeOK',
           UNCHANGED <<finalised, totalVotes, optionTally, spent, nullifierList, log>>,
           now <= now',
           \A p \in Polls : deadline'[p] = deadline[p] \/ deadline'[p] > now
    PROVE  LedgerInv'
<1> USE DEF LedgerInv
<1>1. /\ VotesLogged' = VotesLogged
      /\ \A p : VotesOf(p)' = VotesOf(p)
      /\ \A p, o : VotesFor(p, o)' = VotesFor(p, o)
    BY DEF VotesLogged, VotesOf, VotesFor
<1>2. \A i \in VotesLogged : log[i].time \in Nat /\ log[i].poll \in Polls
    BY ElementOfSeq, LenProperties DEF VotesLogged, TypeOK, Events
<1>3. OneVotePerNullifier' /\ NullifierListExact' /\ TallyMatchesLog'
        /\ FinalResultStands'
    <2>1. OneVotePerNullifier'
        BY <1>1 DEF OneVotePerNullifier
    <2>2. NullifierListExact'
        BY <1>1 DEF NullifierListExact
    <2>3. TallyMatchesLog'
        BY <1>1 DEF TallyMatchesLog
    <2>4. FinalResultStands'
        BY DEF FinalResultStands
    <2>5. QED
        BY <2>1, <2>2, <2>3, <2>4
<1>4. /\ now \in Nat /\ now' \in Nat
      /\ deadline \in [Polls -> Nat] /\ deadline' \in [Polls -> Nat]
    BY DEF TypeOK
<1>5. VotesWithinDeadline'
    <2> SUFFICES ASSUME NEW i \in VotesLogged
                 PROVE  log[i].time <= deadline'[log[i].poll]
        BY <1>1 DEF VotesWithinDeadline
    <2>1. log[i].time <= deadline[log[i].poll] /\ log[i].time <= now
        BY DEF VotesWithinDeadline, VotesInThePast
    <2>2. QED
        BY <1>2, <1>4, <2>1
<1>6. VotesInThePast'
    BY <1>1, <1>2, <1>4 DEF VotesInThePast
<1>7. QED
    BY <1>3, <1>5, <1>6

\* In every reachable state the log, the nullifier list, the counters and the
\* deadlines agree as module VoteLedger says.
THEOREM LedgerInvariant == Spec => []LedgerInv
<1>1. Init => LedgerInv
    <2> SUFFICES ASSUME Init PROVE LedgerInv
        OBVIOUS
    <2>1. TypeOK
        BY TypeCorrectInit
    <2>2. DOMAIN log = {} /\ DOMAIN nullifierList = {} /\ Len(nullifierList) = 0
        BY DEF Init
    <2>3. VotesLogged = {} /\ \A p, o : VotesOf(p) = {} /\ VotesFor(p, o) = {}
        BY <2>2 DEF VotesLogged, VotesOf, VotesFor
    <2>4. NullifierListExact
        BY <2>2, <2>3, FS_EmptySet DEF Init, NullifierListExact
    <2>5. TallyMatchesLog
        BY <2>3, FS_EmptySet DEF Init, TallyMatchesLog
    <2>6. /\ OneVotePerNullifier /\ VotesWithinDeadline /\ VotesInThePast
          /\ FinalResultStands
        BY <2>2, <2>3 DEF OneVotePerNullifier, VotesWithinDeadline,
                          VotesInThePast, FinalResultStands
    <2>7. QED
        BY <2>1, <2>4, <2>5, <2>6 DEF LedgerInv
<1>2. LedgerInv /\ TypeOK' /\ [Next]_vars => LedgerInv'
    <2> SUFFICES ASSUME LedgerInv, TypeOK', [Next]_vars PROVE LedgerInv'
        OBVIOUS
    <2>1. now \in Nat /\ deadline \in [Polls -> Nat]
        BY DEF LedgerInv, TypeOK
    <2>2. ASSUME NEW a \in Accounts, NEW p \in Polls, NEW d \in Deadlines,
                 CreatePoll(a, p, d)
          PROVE  LedgerInv'
        BY <2>1, <2>2, QuietStepPreserves DEF CreatePoll
    <2>3. ASSUME NEW p \in Polls, NEW o \in Options, NEW n \in Nullifiers,
                 CastVote(p, o, n)
          PROVE  LedgerInv'
        BY <2>3, CastVotePreserves
    <2>4. ASSUME NEW a \in Accounts, NEW p \in Polls, FinalisePoll(a, p)
          PROVE  LedgerInv'
        BY <2>4, FinalisePollPreserves
    <2>5. ASSUME NEW a \in Accounts, Pause(a) \/ Unpause(a)
          PROVE  LedgerInv'
        BY <2>1, <2>5, QuietStepPreserves DEF Pause, Unpause, pollVars, nullVars
    <2>6. ASSUME NEW a \in Accounts, NEW b \in Accounts \cup {NoAccount},
                 TransferOwnership(a, b)
          PROVE  LedgerInv'
        BY <2>1, <2>6, QuietStepPreserves DEF TransferOwnership, pollVars, nullVars
    <2>7. CASE NextBlock
        BY <2>1, <2>7, QuietStepPreserves DEF NextBlock, adminVars, pollVars, nullVars
    <2>8. CASE UNCHANGED vars
        BY <2>1, <2>8, QuietStepPreserves DEF vars
    <2>9. QED
        BY <2>2, <2>3, <2>4, <2>5, <2>6, <2>7, <2>8 DEF Next
<1>3. QED
    BY <1>1, <1>2, TypeCorrect, PTL DEF Spec

\* What the README calls the ledger's safety, each part by name.
THEOREM LedgerSafety ==
    Spec => [](OneVotePerNullifier /\ NullifierListExact /\ TallyMatchesLog
               /\ FinalResultStands /\ VotesWithinDeadline)
<1>1. LedgerInv => OneVotePerNullifier /\ NullifierListExact /\ TallyMatchesLog
                   /\ FinalResultStands /\ VotesWithinDeadline
    BY DEF LedgerInv
<1>2. QED
    BY <1>1, LedgerInvariant, PTL

\* The result a PollFinalised event announced stays the poll's result.
THEOREM FinalResultsAreFinal == Spec => []FinalResultStands
BY LedgerSafety, PTL

\* castVote moves the list and one poll's total together, so the list is as long as
\* all the totals together. The votes the totals count are finitely many, each step
\* adding at most one.
THEOREM ListCountsEveryVote == Spec => []ListLengthIsTotal
<1> DEFINE Inv == IsFiniteSet(CountedVotes) /\ ListLengthIsTotal
<1>1. Init => Inv
    <2> SUFFICES ASSUME Init PROVE Inv
        OBVIOUS
    <2>1. CountedVotes = {}
        BY DEF Init, CountedVotes
    <2>2. QED
        BY <2>1, FS_EmptySet DEF Init, ListLengthIsTotal
<1>2. TypeOK /\ Inv /\ [Next]_vars => Inv'
    <2> SUFFICES ASSUME TypeOK, Inv, [Next]_vars PROVE Inv'
        OBVIOUS
    <2>1. CASE UNCHANGED <<totalVotes, nullifierList>>
        BY <2>1 DEF CountedVotes, ListLengthIsTotal
    <2>2. ASSUME NEW q \in Polls, NEW o \in Options, NEW n \in Nullifiers, CastVote(q, o, n)
          PROVE  Inv'
        <3> DEFINE k == totalVotes[q] + 1
        <3>1. /\ totalVotes \in [Polls -> Nat] /\ nullifierList \in Seq(Nullifiers)
              /\ totalVotes' = [totalVotes EXCEPT ![q] = k]
              /\ nullifierList' = Append(nullifierList, n)
            BY <2>2 DEF TypeOK, CastVote
        <3>2. 1 .. k = (1 .. totalVotes[q]) \cup {k} /\ k \notin 1 .. totalVotes[q]
            BY <3>1
        <3> HIDE DEF k
        <3>3. <<q, k>> \notin CountedVotes
            BY <3>2 DEF CountedVotes
        <3>4. \A p \in Polls : totalVotes'[p] = IF p = q THEN k ELSE totalVotes[p]
            BY <3>1
        <3>5. CountedVotes' = CountedVotes \cup {<<q, k>>}
            <4>1. \A v \in CountedVotes' : v \in CountedVotes \cup {<<q, k>>}
                BY <3>2, <3>4 DEF CountedVotes
            <4>2. \A v \in CountedVotes \cup {<<q, k>>} : v \in CountedVotes'
                BY <3>2, <3>4 DEF CountedVotes
            <4>3. QED
                BY <4>1, <4>2
        <3>6. IsFiniteSet(CountedVotes') /\ Cardinality(CountedVotes') = Cardinality(CountedVotes) + 1
            BY <3>3, <3>5, FS_AddElement
        <3>7. Len(nullifierList') = Len(nullifierList) + 1
            BY <3>1, AppendProperties
        <3>8. QED
            BY <3>6, <3>7 DEF ListLengthIsTotal
    <2>3. QED
        BY <2>1, <2>2 DEF Next, vars, CreatePoll, FinalisePoll, Pause, Unpause, TransferOwnership, NextBlock,
                          pollVars, nullVars
<1>3. QED
    BY <1>1, <1>2, TypeCorrect, PTL DEF Spec

\* Flag, list, counters and events tell the same, and every vote is within its
\* poll's deadline.
THEOREM LedgerRecordsAgree == Spec => []RecordsAgree
<1>1. NullifierListExact /\ TallyMatchesLog /\ VotesWithinDeadline /\ ListLengthIsTotal => RecordsAgree
    BY DEF RecordsAgree
<1>2. QED
    BY <1>1, LedgerSafety, ListCountsEveryVote, PTL

\* No transaction, the owner's included, removes or changes a recorded vote, frees
\* a nullifier or moves the tally of a finalised poll.
THEOREM VotesAreImmutable == Spec => NothingIsAltered
<1> DEFINE Kept ==
        /\ \A i \in DOMAIN log : i \in DOMAIN log' /\ log'[i] = log[i]
        /\ spent \subseteq spent'
        /\ \A p \in Polls : finalised[p] =>
               finalised'[p] /\ optionTally'[p] = optionTally[p]
<1>1. TypeOK /\ [Next]_vars => Kept
    <2> SUFFICES ASSUME TypeOK, [Next]_vars PROVE Kept
        OBVIOUS
    <2> USE DEF TypeOK
    <2>1. Len(log) \in Nat /\ DOMAIN log = 1 .. Len(log)
        BY LenProperties
    <2>2. ASSUME UNCHANGED <<finalised, optionTally, spent, log>>
          PROVE  Kept
        BY <2>2
    <2>3. ASSUME NEW q \in Polls, NEW x \in Options, NEW n \in Nullifiers,
                 CastVote(q, x, n)
          PROVE  Kept
        <3>1. /\ Len(log') = Len(log) + 1 /\ log' \in Seq(Events)
              /\ \A i \in 1 .. Len(log) : log'[i] = log[i]
            BY <2>3, VoteAppended DEF CastVote
        <3>2. DOMAIN log' = 1 .. Len(log) + 1
            BY <3>1, LenProperties
        <3>3. ~finalised[q] /\ finalised' = finalised /\ spent \subseteq spent'
            BY <2>3 DEF CastVote, CanVote
        <3>4. \A p \in Polls : p # q => optionTally'[p] = optionTally[p]
            BY <2>3 DEF CastVote
        <3>5. QED
            BY <2>1, <3>1, <3>2, <3>3, <3>4
    <2>4. ASSUME NEW a \in Accounts, NEW q \in Polls, FinalisePoll(a, q)
          PROVE  Kept
        <3>1. /\ Len(log') = Len(log) + 1 /\ log' \in Seq(Events)
              /\ \A i \in 1 .. Len(log) : log'[i] = log[i]
            BY <2>4, FinalisationAppended DEF FinalisePoll
        <3>2. DOMAIN log' = 1 .. Len(log) + 1
            BY <3>1, LenProperties
        <3>3. /\ finalised' = [finalised EXCEPT ![q] = TRUE]
              /\ UNCHANGED <<optionTally, spent>>
            BY <2>4 DEF FinalisePoll
        <3>4. QED
            BY <2>1, <3>1, <3>2, <3>3
    <2> HIDE DEF Kept
    <2>5. QED
        BY <2>2, <2>3, <2>4
           DEF Next, vars, CreatePoll, Pause, Unpause, TransferOwnership, NextBlock,
               pollVars, nullVars, adminVars
<1>2. TypeOK /\ [Next]_vars => [Kept]_vars
    BY <1>1
<1>3. QED
    BY <1>2, TypeCorrect, PTL DEF Spec, NothingIsAltered

-----------------------------------------------------------------------------
(* The ledger implements the ballot box *)

\* The instance's cardinality is cardinality.
LEMMA BoxCardinality == \A S : Box!Cardinality(S) = Cardinality(S)
BY DEF Box!Cardinality, Cardinality

\* A poll's ballots are as many as its recorded votes, because two votes on
\* record differ in their nullifiers.
LEMMA BallotsCounted ==
    ASSUME TypeOK, OneVotePerNullifier, NEW q \in Polls
    PROVE  Cardinality(Box!BallotsIn(q)) = Cardinality(VotesOf(q))
<1> DEFINE B(i) == [poll |-> log[i].poll, nullifier |-> log[i].nullifier,
                    option |-> log[i].option]
           f == [i \in VotesOf(q) |-> B(i)]
<1>1. IsFiniteSet(VotesOf(q))
    BY VotesFinite DEF TypeOK
<1>2. f \in [VotesOf(q) -> Box!BallotsIn(q)]
    BY DEF VotesOf, Box!BallotsIn, LoggedBallots
<1>3. \A i, j \in VotesOf(q) : f[i] = f[j] => i = j
    <2>1. \A i \in VotesOf(q) : f[i].nullifier = log[i].nullifier
        OBVIOUS
    <2>2. QED
        BY <2>1 DEF OneVotePerNullifier, VotesOf
<1>4. \A b \in Box!BallotsIn(q) : \E i \in VotesOf(q) : f[i] = b
    BY DEF VotesOf, Box!BallotsIn, LoggedBallots
<1> HIDE DEF f
<1>5. f \in Bijection(VotesOf(q), Box!BallotsIn(q))
    BY <1>2, <1>3, <1>4, DOMAIN f = VotesOf(q)
       DEF Bijection, Injection, Surjection, IsInjective
<1>6. ExistsBijection(VotesOf(q), Box!BallotsIn(q))
    BY <1>5 DEF ExistsBijection
<1>7. QED
    BY <1>1, <1>6, FS_Bijection

\* An accepted vote drops one ballot into a poll that is not declared.
LEMMA CastVoteDrops ==
    ASSUME LedgerInv, NEW q \in Polls, NEW x \in Options, NEW n \in Nullifiers,
           CastVote(q, x, n)
    PROVE  Box!BoxNext
<1> DEFINE b == [poll |-> q, nullifier |-> n, option |-> x]
           k == Len(log) + 1
<1>1. /\ log' = Append(log, VoteCast(q, x, n, now))
      /\ log \in Seq(Events) /\ now \in Nat
    BY DEF CastVote, LedgerInv, TypeOK
<1>2. /\ \A i \in 1 .. Len(log) : log'[i] = log[i]
      /\ log'[k] = VoteCast(q, x, n, now)
      /\ VotesLogged' = VotesLogged \cup {k}
      /\ VotesLogged \subseteq 1 .. Len(log)
    BY <1>1, VoteAppended, VotesFinite
<1>3. \A i \in VotesLogged : log'[i] = log[i]
    BY <1>2
<1>4. b \in Box!Ballot
    BY DEF Box!Ballot
<1>5. \A c \in LoggedBallots : c.nullifier # b.nullifier
    BY DEF LoggedBallots, LedgerInv, NullifierListExact, CastVote, CanVote
<1>6. Declared[b.poll] = Box!NotDeclared
    BY DEF Declared, Box!NotDeclared, CastVote, CanVote
<1>7. LoggedBallots' = LoggedBallots \cup {b}
    <2> DEFINE B(e) == [poll |-> e.poll, nullifier |-> e.nullifier,
                        option |-> e.option]
    <2>1. LoggedBallots = {B(log[i]) : i \in VotesLogged}
        BY DEF LoggedBallots
    <2>2. LoggedBallots' = {B(log'[i]) : i \in VotesLogged'}
        BY DEF LoggedBallots
    <2>3. B(log'[k]) = b
        BY <1>2 DEF VoteCast
    <2> HIDE DEF B, b, k
    <2>4. QED
        BY <1>2, <1>3, <2>1, <2>2, <2>3
<1>8. UNCHANGED Declared
    <2>1. /\ finalised' = finalised /\ ~finalised[q]
          /\ \A p \in Polls : p # q => totalVotes'[p] = totalVotes[p]
        BY DEF CastVote, CanVote, LedgerInv, TypeOK
    <2>2. QED
        BY <2>1 DEF Declared
<1> HIDE DEF b
<1>9. Box!Drop(b)
    BY <1>5, <1>6, <1>7, <1>8 DEF Box!Drop
<1>10. QED
    BY <1>4, <1>9 DEF Box!BoxNext

\* A finalisation declares the number of ballots in the poll.
LEMMA FinalisePollDeclares ==
    ASSUME LedgerInv, NEW a \in Accounts, NEW q \in Polls, FinalisePoll(a, q)
    PROVE  Box!BoxNext
<1>1. /\ log' = Append(log, PollFinalised(q, totalVotes[q]))
      /\ log \in Seq(Events) /\ totalVotes[q] \in Nat
    BY DEF FinalisePoll, LedgerInv, TypeOK
<1>2. VotesLogged' = VotesLogged /\ \A i \in VotesLogged : log'[i] = log[i]
    BY <1>1, FinalisationAppended
<1>3. UNCHANGED LoggedBallots
    <2> DEFINE B(e) == [poll |-> e.poll, nullifier |-> e.nullifier,
                        option |-> e.option]
    <2>1. LoggedBallots = {B(log[i]) : i \in VotesLogged}
        BY DEF LoggedBallots
    <2>2. LoggedBallots' = {B(log'[i]) : i \in VotesLogged'}
        BY DEF LoggedBallots
    <2> HIDE DEF B
    <2>3. QED
        BY <1>2, <2>1, <2>2
<1>4. totalVotes[q] = Cardinality(Box!BallotsIn(q))
    BY BallotsCounted DEF LedgerInv, TallyMatchesLog
<1>5. /\ ~finalised[q] /\ finalised' = [finalised EXCEPT ![q] = TRUE]
      /\ totalVotes' = totalVotes /\ finalised \in [Polls -> BOOLEAN]
    BY DEF FinalisePoll, LedgerInv, TypeOK
<1>6. Declared' = [Declared EXCEPT ![q] = totalVotes[q]]
    BY <1>5 DEF Declared
<1>7. Declared[q] = Box!NotDeclared
    BY <1>5 DEF Declared, Box!NotDeclared
<1>8. Box!Declare(q)
    BY <1>3, <1>4, <1>6, <1>7, BoxCardinality DEF Box!Declare
<1>9. QED
    BY <1>8 DEF Box!BoxNext

\* Whoever sees only the recorded ballots and the declared results cannot tell
\* the contract from a ballot box in which a nullifier is used once and a declared
\* count is final.
THEOREM LedgerImplementsBallotBox == Spec => ImplementsBallotBox
<1>1. Init => Box!BoxInit
    <2> SUFFICES ASSUME Init PROVE Box!BoxInit
        OBVIOUS
    <2>1. DOMAIN log = {}
        BY DEF Init
    <2>2. LoggedBallots = {}
        BY <2>1 DEF LoggedBallots, VotesLogged
    <2>3. Declared = [p \in Polls |-> Box!NotDeclared]
        BY DEF Init, Declared, Box!NotDeclared
    <2>4. QED
        BY <2>2, <2>3 DEF Box!BoxInit
<1>2. LedgerInv /\ [Next]_vars => [Box!BoxNext]_Box!boxVars
    <2> SUFFICES ASSUME LedgerInv, [Next]_vars
                 PROVE  Box!BoxNext \/ UNCHANGED Box!boxVars
        OBVIOUS
    <2>1. ASSUME UNCHANGED <<finalised, totalVotes, log>>
          PROVE  UNCHANGED Box!boxVars
        BY <2>1 DEF Box!boxVars, LoggedBallots, Declared, VotesLogged
    <2>2. ASSUME NEW p \in Polls, NEW o \in Options, NEW n \in Nullifiers,
                 CastVote(p, o, n)
          PROVE  Box!BoxNext
        BY <2>2, CastVoteDrops
    <2>3. ASSUME NEW a \in Accounts, NEW p \in Polls, FinalisePoll(a, p)
          PROVE  Box!BoxNext
        BY <2>3, FinalisePollDeclares
    <2>4. QED
        BY <2>1, <2>2, <2>3
           DEF Next, vars, CreatePoll, Pause, Unpause, TransferOwnership, NextBlock,
               pollVars, nullVars, adminVars
<1>3. QED
    BY <1>1, <1>2, LedgerInvariant, PTL DEF Spec, ImplementsBallotBox, Box!BoxSpec
==============================================================================
