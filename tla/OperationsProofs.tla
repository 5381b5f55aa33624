------------------------- MODULE OperationsProofs --------------------------
(***************************************************************************)
(* Proofs about what the operators of the system do with it: publish audit  *)
(* entries, policy documents, push notifications, tallies and result        *)
(* certificates; and pause it, several of them together, for any accounts,  *)
(* threshold and number of proposals and any owners of the target.          *)
(***************************************************************************)
EXTENDS Certificates, Records, Notification, PauseGuardian, FiniteSetTheorems, SequenceTheorems, TLAPS

-----------------------------------------------------------------------------
(* Records: the invariant *)

Stages == {"Idle", "Chain", "Recorded", "Failed"}

\* A call that waits for the chain has stored its document, and so has every entry.
StoredInv ==
    /\ entries \in Seq(Audits) /\ audits \in [Audits -> Stages] /\ started \in BOOLEAN
    /\ \A a \in Audits : audits[a] = "Chain" => started /\ a \in node
    /\ \A i \in 1..Len(entries) : started /\ entries[i] \in node \cup lost

\* The client has seen every entry from the end of what the next page can reach.
\* The list only grows, so the next page ends no earlier than that.
SeenDownTo(last) ==
    \A id \in 0..reader.from - 1 : id + (reader.page - 1) * limit >= last => id \in reader.seen
ReaderInv ==
    /\ reader \in [page : Nat \ {0}, seen : SUBSET Nat, done : BOOLEAN, from : Nat]
    /\ \E last \in 0..Len(entries) : reader.from <= last /\ SeenDownTo(last)
    /\ reader.done => 0..reader.from - 1 \subseteq reader.seen

PolicyRecords == [cid : Documents \cup {"None"}, active : BOOLEAN]
PolicyInv == policies \in [Policies -> PolicyRecords]

RecordInv == StoredInv /\ ReaderInv /\ PolicyInv

-----------------------------------------------------------------------------
(* Records: the steps *)

\* Whatever names a document that cannot be fetched names one a restart took.
LEMMA StoredDocuments ==
    ASSUME StoredInv PROVE EntriesHaveDocuments
<1> SUFFICES ASSUME NEW id \in 0..Len(entries) - 1, getDocument(entries[id + 1]) = "Error"
             PROVE  entries[id + 1] \in lost
    BY DEF EntriesHaveDocuments, verifyEntry
<1>1. entries \in Seq(Audits) /\ Len(entries) \in Nat /\ id + 1 \in 1..Len(entries)
    BY DEF StoredInv
<1>2. entries[id + 1] \in Audits /\ entries[id + 1] # "Error"
    BY <1>1, PageAssumption, ElementOfSeq
<1>3. started /\ entries[id + 1] \in node \cup lost
    BY <1>1 DEF StoredInv
<1>4. QED
    BY <1>2, <1>3 DEF getDocument

\* What one more entry does to the list.
LEMMA EntryAppended ==
    ASSUME entries \in Seq(Audits), NEW a \in Audits, entries' = Append(entries, a)
    PROVE  /\ entries' \in Seq(Audits) /\ Len(entries') = Len(entries) + 1 /\ Len(entries) \in Nat
           /\ \A i \in 1..Len(entries') : entries'[i] = IF i <= Len(entries) THEN entries[i] ELSE a
           /\ SubSeq(entries', 1, Len(entries)) = entries
<1>1. /\ entries' \in Seq(Audits) /\ Len(entries') = Len(entries) + 1 /\ Len(entries) \in Nat
      /\ \A i \in 1..Len(entries) : entries'[i] = entries[i]
      /\ entries'[Len(entries) + 1] = a
    BY AppendProperties, LenProperties
<1> DEFINE s == SubSeq(entries', 1, Len(entries))
<1>2. /\ s \in Seq(Audits) /\ Len(s) = Len(entries)
      /\ \A i \in 1..Len(entries) : s[i] = entries'[i]
    BY <1>1
<1> HIDE DEF s
<1>3. \A i \in 1..Len(s) : s[i] = entries[i]
    BY <1>1, <1>2
<1>4. s = entries
    BY <1>2, <1>3, SeqEqual
<1>5. QED
    BY <1>1, <1>4 DEF s

\* A step that leaves reader and list alone, or adds to the list, leaves the
\* reader's place.
LEMMA ReaderWaits ==
    ASSUME ReaderInv, reader' = reader, Len(entries) \in Nat, Len(entries') \in Nat, Len(entries) <= Len(entries')
    PROVE  ReaderInv'
<1>1. PICK last \in 0..Len(entries) : reader.from <= last /\ SeenDownTo(last)
    BY DEF ReaderInv
<1>2. last \in 0..Len(entries') /\ SeenDownTo(last)'
    BY <1>1 DEF SeenDownTo
<1>3. QED
    BY <1>1, <1>2 DEF ReaderInv

\* record: the document is stored, then the entry made of it; or a failure before,
\* between or after the two.
LEMMA AuditStep ==
    ASSUME RecordInv, NEW a \in Audits,
           Record(a) \/ AddEntry(a) \/ \E m \in BOOLEAN : ChainFails(a, m)
    PROVE  RecordInv' /\ OnChainStays
<1>1. /\ StoredInv /\ ReaderInv /\ PolicyInv /\ UNCHANGED <<started, lost, reader, policies>>
      /\ entries \in Seq(Audits) /\ Len(entries) \in Nat
    BY DEF RecordInv, StoredInv, Record, AddEntry, ChainFails
<1>2. node \subseteq node'
    BY DEF Record, pinDocument, AddEntry, ChainFails
<1>3. \/ entries' = entries
      \/ audits[a] = "Chain" /\ entries' = Append(entries, a)
    BY DEF Record, AddEntry, ChainFails
<1>4. \E pc \in Stages : audits' = [audits EXCEPT ![a] = pc] /\ (pc = "Chain" => started /\ a \in node')
    BY <1>1 DEF Record, pinDocument, AddEntry, ChainFails, Goto, Stages
<1>5. audits' \in [Audits -> Stages] /\ \A b \in Audits : audits'[b] = "Chain" => started /\ b \in node'
    BY <1>1, <1>2, <1>4 DEF StoredInv
<1>6. /\ entries' \in Seq(Audits) /\ Len(entries') \in Nat /\ Len(entries) <= Len(entries')
      /\ SubSeq(entries', 1, Len(entries)) = entries
      /\ \A i \in 1..Len(entries') : started /\ entries'[i] \in node' \cup lost
    <2>1. CASE entries' = entries
        BY <1>1, <1>2, <2>1, SubSeqFull DEF StoredInv
    <2>2. CASE audits[a] = "Chain" /\ entries' = Append(entries, a)
        BY <1>1, <1>2, <2>2, EntryAppended DEF StoredInv
    <2>3. QED
        BY <1>3, <2>1, <2>2
<1>7. StoredInv'
    BY <1>1, <1>5, <1>6 DEF StoredInv
<1>8. ReaderInv' /\ PolicyInv'
    BY <1>1, <1>6, ReaderWaits DEF PolicyInv
<1>9. OnChainStays
    BY <1>1, <1>6 DEF OnChainStays
<1>10. QED
    BY <1>7, <1>8, <1>9 DEF RecordInv

\* publishPolicy, deactivatePolicy: the document of a policy stays, and once
\* deactivated it remains so.
LEMMA PolicyStep ==
    ASSUME RecordInv, NEW p \in Policies,
           deactivatePolicy(p) \/ \E d \in Documents : publishPolicy(p, d)
    PROVE  RecordInv' /\ OnChainStays
<1>1. /\ StoredInv /\ ReaderInv /\ PolicyInv
      /\ UNCHANGED <<started, node, lost, audits, auditor, entries, reader>>
    BY DEF RecordInv, deactivatePolicy, publishPolicy
<1>2. entries \in Seq(Audits) /\ Len(entries) \in Nat
    BY <1>1 DEF StoredInv
<1>3. StoredInv' /\ ReaderInv'
    BY <1>1, <1>2, ReaderWaits DEF StoredInv
<1>4. SubSeq(entries', 1, Len(entries)) = entries
    BY <1>1, <1>2, SubSeqFull
<1>5. PICK x \in PolicyRecords :
          /\ policies' = [policies EXCEPT ![p] = x]
          /\ policies[p] # Unknown => x.cid = policies[p].cid /\ (x.active => policies[p].active)
    <2>1. CASE deactivatePolicy(p)
        <3> DEFINE x == [policies[p] EXCEPT !.active = FALSE]
        <3>1. policies[p] \in PolicyRecords
            BY <1>1 DEF PolicyInv
        <3>2. x \in PolicyRecords /\ x.cid = policies[p].cid /\ ~x.active
            BY <3>1 DEF PolicyRecords
        <3>3. policies' = [policies EXCEPT ![p] = x]
            BY <2>1 DEF deactivatePolicy
        <3> HIDE DEF x
        <3>4. QED
            BY <3>2, <3>3
    <2>2. ASSUME NEW d \in Documents, publishPolicy(p, d)
          PROVE  /\ policies[p] = Unknown /\ [cid |-> d, active |-> TRUE] \in PolicyRecords
                 /\ policies' = [policies EXCEPT ![p] = [cid |-> d, active |-> TRUE]]
        BY <2>2 DEF publishPolicy, PolicyRecords
    <2>3. QED
        BY <2>1, <2>2
<1>6. PolicyInv' /\ \A q \in Policies : policies'[q] = IF q = p THEN x ELSE policies[q]
    BY <1>1, <1>5 DEF PolicyInv
<1>7. OnChainStays
    BY <1>4, <1>5, <1>6 DEF OnChainStays
<1>8. QED
    BY <1>3, <1>6, <1>7 DEF RecordInv

\* POST /ipfs/pin, revokeRole and a restart leave what is on chain alone, and a
\* document that a restart takes is one it took.
LEMMA NodeStep ==
    ASSUME RecordInv, (\E d \in Documents : PinDocument(d)) \/ Revoke \/ RestartNode
    PROVE  RecordInv' /\ OnChainStays
<1>1. /\ StoredInv /\ ReaderInv /\ PolicyInv
      /\ UNCHANGED <<started, entries, reader, policies>>
    BY DEF RecordInv, PinDocument, Revoke, RestartNode
<1>2. entries \in Seq(Audits) /\ Len(entries) \in Nat
    BY <1>1 DEF StoredInv
<1>3. ReaderInv' /\ PolicyInv'
    BY <1>1, <1>2, ReaderWaits DEF PolicyInv
<1>4. OnChainStays
    BY <1>1, <1>2, SubSeqFull DEF OnChainStays
<1>5. StoredInv'
    <2>1. CASE RestartNode
        <3>1. node' = {} /\ lost' = lost \cup node /\ audits' = [a \in Audits |-> IF audits[a] = "Chain" THEN "Failed" ELSE audits[a]]
            BY <2>1 DEF RestartNode
        <3>2. audits' \in [Audits -> Stages] /\ \A a \in Audits : audits'[a] # "Chain"
            BY <1>1, <3>1 DEF StoredInv, Stages
        <3>3. QED
            BY <1>1, <3>1, <3>2 DEF StoredInv
    <2>2. CASE (\E d \in Documents : PinDocument(d)) \/ Revoke
        <3>1. node \subseteq node' /\ UNCHANGED <<lost, audits>>
            BY <2>2 DEF PinDocument, pinDocument, Revoke
        <3>2. QED
            BY <1>1, <3>1 DEF StoredInv
    <2>3. QED
        BY <2>1, <2>2
<1>6. QED
    BY <1>3, <1>4, <1>5 DEF RecordInv

\* GET /audit: the next page takes up where the last one ended or above it, and an
\* empty one means that the last one reached the first entry.
LEMMA ReadStep ==
    ASSUME RecordInv, ReadPage
    PROVE  RecordInv' /\ OnChainStays
<1> DEFINE L == Len(entries)
           a == (reader.page - 1) * limit
           ids == PageIds(L, reader.page)
           empty == ids = {}
           from == IF reader.page = 1 THEN L ELSE reader.from
<1>1. /\ StoredInv /\ ReaderInv /\ PolicyInv
      /\ UNCHANGED <<started, node, lost, audits, entries, policies>>
    BY DEF RecordInv, ReadPage
<1>2. entries \in Seq(Audits) /\ L \in Nat
    BY <1>1 DEF StoredInv
<1>3. /\ reader.page \in Nat \ {0} /\ reader.seen \in SUBSET Nat /\ reader.from \in Nat
      /\ limit \in Nat \ {0}
    BY <1>1, PageAssumption DEF ReaderInv
<1>4. reader' = [page |-> reader.page + 1, seen |-> reader.seen \cup ids, done |-> empty, from |-> from]
    BY DEF ReadPage
<1>5. a \in Nat /\ reader.page * limit = a + limit /\ (reader.page = 1 => a = 0)
    BY <1>3
<1>6. ids \in SUBSET Nat /\ \A id \in Nat : id \in ids <=> id <= L /\ id + a + limit >= L /\ id + a < L
    <2>1. ids = {id \in 0..L : id + (a + limit) >= L /\ id + a < L}
        BY <1>5 DEF PageIds
    <2> HIDE DEF ids, a, L
    <2>2. QED
        BY <1>2, <1>3, <1>5, <2>1
<1>7. PICK last \in 0..L : reader.from <= last /\ SeenDownTo(last)
    BY <1>1 DEF ReaderInv
<1> HIDE DEF ids, a, L
<1>8. from \in Nat /\ from <= L
    BY <1>2, <1>3, <1>7
<1>9. \A id \in 0..reader.from - 1 : id + a >= last => id \in reader.seen
    BY <1>7 DEF SeenDownTo, a
<1>10. \A id \in 0..from - 1 : id + a >= L => id \in reader.seen
    BY <1>2, <1>3, <1>5, <1>7, <1>9
<1>11. \A id \in 0..from - 1 : id + a + limit >= L => id \in reader.seen \cup ids
    BY <1>2, <1>3, <1>5, <1>6, <1>8, <1>10
<1>12. empty => 0..from - 1 \subseteq reader.seen
    <2> SUFFICES ASSUME empty PROVE 0..from - 1 \subseteq reader.seen
        OBVIOUS
    <2>1. ASSUME L > a PROVE FALSE
        <3>1. L - a - 1 \in Nat /\ L - a - 1 <= L /\ L - a - 1 + a + limit >= L /\ L - a - 1 + a < L
            BY <1>2, <1>3, <1>5, <2>1
        <3>2. QED
            BY <1>6, <3>1
    <2>2. L <= a
        BY <1>2, <1>5, <2>1
    <2>3. QED
        BY <1>2, <1>5, <1>8, <1>10, <2>2
<1> HIDE DEF empty, from
<1>13. reader'.page = reader.page + 1 /\ reader'.seen = reader.seen \cup ids /\ reader'.from = from
    BY <1>4
<1>14. reader'.done <=> empty
    BY <1>4
<1>15. reader' \in [page : Nat \ {0}, seen : SUBSET Nat, done : BOOLEAN, from : Nat]
    <2>1. empty \in BOOLEAN
        BY DEF empty
    <2>2. reader.page + 1 \in Nat \ {0} /\ from \in Nat
        BY ONLY <1>3, <1>8
    <2>3. reader.seen \cup ids \in SUBSET Nat
        <3>1. ids \in SUBSET Nat
            BY <1>6
        <3>2. QED
            BY ONLY <1>3, <3>1
    <2>4. \A p \in Nat \ {0}, s \in SUBSET Nat, d \in BOOLEAN, f \in Nat :
              [page |-> p, seen |-> s, done |-> d, from |-> f]
                  \in [page : Nat \ {0}, seen : SUBSET Nat, done : BOOLEAN, from : Nat]
        OBVIOUS
    <2>5. QED
        BY <1>4, <2>1, <2>2, <2>3, <2>4
<1>16. SeenDownTo(L)'
    <2>1. L' = L
        BY <1>1 DEF L
    <2>2. (reader'.page - 1) * limit = a + limit
        BY <1>3, <1>5, <1>13
    <2> SUFFICES ASSUME NEW id \in 0..from - 1, id + (a + limit) >= L PROVE id \in reader.seen \cup ids
        BY <1>13, <2>1, <2>2 DEF SeenDownTo
    <2>3. QED
        BY <1>2, <1>3, <1>5, <1>8, <1>11
<1>17. ReaderInv'
    <2>1. L \in 0..Len(entries)' /\ L' = L /\ reader'.from <= L
        BY <1>1, <1>2, <1>8, <1>13 DEF L
    <2>2. \E k \in 0..Len(entries)' : reader'.from <= k /\ SeenDownTo(k)'
        BY <1>16, <2>1 DEF SeenDownTo
    <2>3. reader'.done => 0..reader'.from - 1 \subseteq reader'.seen
        BY <1>12, <1>13, <1>14
    <2>4. QED
        BY <1>15, <2>2, <2>3 DEF ReaderInv
<1>18. StoredInv' /\ PolicyInv'
    BY <1>1 DEF StoredInv, PolicyInv
<1>19. OnChainStays
    BY <1>1, <1>2, SubSeqFull DEF OnChainStays
<1>20. QED
    BY <1>17, <1>18, <1>19 DEF RecordInv

-----------------------------------------------------------------------------
(* Records: the theorems *)

\* The initial states.
LEMMA RecordsBegin == RecordInit => RecordInv
<1> SUFFICES ASSUME RecordInit PROVE RecordInv
    OBVIOUS
<1>1. entries = <<>> /\ Len(entries) = 0 /\ entries \in Seq(Audits)
    BY DEF RecordInit
<1>2. StoredInv
    BY <1>1 DEF RecordInit, StoredInv, Stages
<1>3. ReaderInv
    <2>1. reader.from = 0 /\ reader.page = 1 /\ reader.seen = {} /\ ~reader.done
        BY DEF RecordInit
    <2>2. reader \in [page : Nat \ {0}, seen : SUBSET Nat, done : BOOLEAN, from : Nat]
        BY DEF RecordInit
    <2>3. SeenDownTo(0)
        BY <2>1 DEF SeenDownTo
    <2>4. QED
        BY <1>1, <2>1, <2>2, <2>3 DEF ReaderInv
<1>4. PolicyInv
    BY DEF RecordInit, PolicyInv, PolicyRecords, Unknown
<1>5. QED
    BY <1>2, <1>3, <1>4 DEF RecordInv

\* Every step keeps the invariant and what is on chain.
LEMMA RecordStep ==
    ASSUME RecordInv, [RecordNext]_recordVars
    PROVE  RecordInv' /\ (OnChainStays \/ UNCHANGED recordVars)
<1>1. CASE UNCHANGED recordVars
    <2>1. UNCHANGED <<started, node, lost, audits, entries, reader, policies>>
        BY <1>1 DEF recordVars
    <2>2. StoredInv' /\ ReaderInv' /\ PolicyInv'
        BY <2>1 DEF RecordInv, StoredInv, ReaderInv, SeenDownTo, PolicyInv
    <2>3. QED
        BY <1>1, <2>2 DEF RecordInv
<1>2. CASE RecordNext
    BY <1>2, AuditStep, PolicyStep, NodeStep, ReadStep DEF RecordNext
<1>3. QED
    BY <1>1, <1>2

\* AuditLogService.record, GET /audit: the invariant, with failures and restarts
\* between any two steps.
THEOREM RecordInvariant == RecordSpec => []RecordInv
<1>1. RecordInv /\ [RecordNext]_recordVars => RecordInv'
    BY RecordStep
<1>2. QED
    BY <1>1, RecordsBegin, PTL DEF RecordSpec

\* After any step every audit entry has its document unless a restart took it, a
\* client that has read the list to its end has missed none of it however many
\* entries were added meanwhile, and nothing on chain was taken back.
THEOREM RecordsAreKept == RecordSpec => RecordsKept
<1>1. RecordInv' => EntriesHaveDocuments' /\ ReaderMissesNothing'
    <2>1. RecordInv => EntriesHaveDocuments /\ ReaderMissesNothing
        BY StoredDocuments DEF RecordInv, ReaderInv, ReaderMissesNothing
    <2>2. QED
        BY <2>1, PTL
<1>2. RecordInv /\ [RecordNext]_recordVars =>
          [EntriesHaveDocuments' /\ ReaderMissesNothing' /\ OnChainStays]_recordVars
    BY <1>1, RecordStep
<1>3. QED
    BY <1>2, RecordInvariant, PTL DEF RecordSpec, RecordsKept

-----------------------------------------------------------------------------
(* Tallies and certificates: the invariant *)

VoteEvents == [option : OPTION_MAP \cup {OtherOption}, at : Nat]

\* The tally counts the votes up to some moment: those it misses were cast at t or
\* later, give or take the slack. The same of the flag and the finalisation.
Since(tally, t, slack) ==
    \E k \in 0..Len(Votes) :
        tally = Aggregate(SubSeq(Votes, 1, k)) /\ \A i \in k + 1..Len(Votes) : t <= Votes[i].at + slack
FinalSince(finalized, t, slack) ==
    (finalized => Finalized) /\ (finalized \/ ~declared \/ t <= finalisedAt + slack)

ChainInv ==
    /\ now \in 0..MaxTime /\ finalisedAt \in 0..Never
    /\ declared \in BOOLEAN /\ chain \in Seq(VoteEvents) /\ Votes \in Seq(VoteEvents)

\* What the cache holds is at most as old, when it is written, as a query may take.
CacheInv ==
    cache = None \/ /\ cache.at \in 0..now /\ cache.finalized \in BOOLEAN
                    /\ Since(cache.tally, cache.at, MaxDelay) /\ FinalSince(cache.finalized, cache.at, MaxDelay)

QueryInv(q) ==
    LET r == queries[q] IN
    /\ r.pc \in {"Votes", "Final", "Answered", "Certify"} => r.began \in 0..now
    /\ r.pc \in {"Votes", "Final"} => now <= r.began + MaxDelay
    /\ r.pc = "Final" => Since(r.tally, r.began, 0)
    /\ Given(q) => /\ Since(r.tally, r.began + 1, CACHE_TTL_MS + MaxDelay)
                   /\ FinalSince(r.finalized, r.began + 1, CACHE_TTL_MS + MaxDelay)

TallyInv ==
    /\ ChainInv /\ CacheInv
    /\ DOMAIN queries = Queries /\ \A q \in Queries : QueryInv(q)

\* A certificate under way or issued is of a call that certifies, and by a server
\* with a node; one that is issued is with a provider, or was named otherwise by
\* all that confirmed it.
CertInv ==
    /\ TallyInv /\ CertTypeOK /\ DOMAIN pinned = Providers
    /\ \A q \in Queries :
          /\ queries[q].pc \in {"Certify", "Pinning", "Issued"} => q \in Certifying
          /\ queries[q].pc \in {"Pinning", "Issued"} => initialised
          /\ queries[q].pc = "Issued" => q \in diverged \/ \E p \in Providers : q \in pinned[p]

-----------------------------------------------------------------------------
(* Tallies and certificates: the steps *)

\* A vote cast, or none, leaves what an earlier reader missed no older than it was.
LEMMA SinceStays ==
    ASSUME Votes \in Seq(VoteEvents), NEW e \in VoteEvents,
           Votes' = Votes \/ Votes' = Append(Votes, e),
           NEW tally, NEW t \in Nat, NEW slack \in Nat, t <= e.at + slack, Since(tally, t, slack)
    PROVE  Since(tally, t, slack)'
<1>1. CASE Votes' = Votes
    BY <1>1 DEF Since
<1>2. CASE Votes' = Append(Votes, e)
    <2>1. /\ Votes' \in Seq(VoteEvents) /\ Len(Votes') = Len(Votes) + 1 /\ Len(Votes) \in Nat
          /\ \A i \in 1..Len(Votes) : Votes'[i] = Votes[i]
          /\ Votes'[Len(Votes) + 1] = e
        BY <1>2, AppendProperties, LenProperties
    <2>2. PICK k \in 0..Len(Votes) : /\ tally = Aggregate(SubSeq(Votes, 1, k))
                                     /\ \A i \in k + 1..Len(Votes) : t <= Votes[i].at + slack
        BY DEF Since
    <2>3. SubSeq(Votes', 1, k) = SubSeq(Votes, 1, k)
        <3> DEFINE s == SubSeq(Votes, 1, k)
                   u == SubSeq(Votes', 1, k)
        <3>1. s \in Seq(VoteEvents) /\ Len(s) = k /\ \A i \in 1..k : s[i] = Votes[i]
            BY <2>1, <2>2
        <3>2. u \in Seq(VoteEvents) /\ Len(u) = k /\ \A i \in 1..k : u[i] = Votes'[i]
            BY <2>1, <2>2
        <3> HIDE DEF s, u
        <3>3. \A i \in 1..Len(s) : s[i] = u[i]
            BY <2>1, <3>1, <3>2, SMTT(30)
        <3>4. s = u
            BY <3>1, <3>2, <3>3, SeqEqual
        <3>5. QED
            BY <3>4 DEF s, u
    <2>4. \A i \in k + 1..Len(Votes') : t <= Votes'[i].at + slack
        <3> SUFFICES ASSUME NEW i \in k + 1..Len(Votes') PROVE t <= Votes'[i].at + slack
            OBVIOUS
        <3>1. CASE i = Len(Votes) + 1
            BY <2>1, <3>1
        <3>2. CASE i # Len(Votes) + 1
            <4>1. i \in k + 1..Len(Votes) /\ i \in 1..Len(Votes)
                BY <2>1, <2>2, <3>2
            <4>2. QED
                BY <2>1, <2>2, <4>1
        <3>3. QED
            BY <3>1, <3>2
    <2>5. k \in 0..Len(Votes')
        BY <2>1
    <2>6. QED
        BY <2>2, <2>3, <2>4, <2>5 DEF Since
<1>3. QED
    BY <1>1, <1>2

\* What is seen of the chain now misses nothing cast before.
LEMMA SinceNow ==
    ASSUME ChainInv, NEW t, NEW slack PROVE Since(Aggregate(Votes), t, slack)
<1>1. Votes \in Seq(VoteEvents) /\ Len(Votes) \in Nat
    BY DEF ChainInv
<1>2. SubSeq(Votes, 1, Len(Votes)) = Votes
    BY <1>1, SubSeqFull
<1> DEFINE n == Len(Votes)
<1>3. n \in 0..n /\ Aggregate(Votes) = Aggregate(SubSeq(Votes, 1, n))
    <2>1. Aggregate(Votes) = Aggregate(SubSeq(Votes, 1, n))
        BY <1>2, Zenon
    <2>2. QED
        BY <1>1, <2>1
<1>4. \A i \in n + 1..n : FALSE
    BY <1>1
<1>5. \E k \in 0..n : /\ Aggregate(Votes) = Aggregate(SubSeq(Votes, 1, k))
                      /\ \A i \in k + 1..n : t <= Votes[i].at + slack
    <2> HIDE DEF n
    <2>1. QED
        BY <1>3, <1>4
<1>6. QED
    BY <1>5 DEF Since

\* More slack, or an earlier moment, is easier to meet.
LEMMA SinceWeakens ==
    ASSUME ChainInv, NEW tally, NEW t \in Nat, NEW slack \in Nat, NEW t2 \in Nat, NEW slack2 \in Nat,
           t2 + slack <= t + slack2, Since(tally, t, slack)
    PROVE  Since(tally, t2, slack2)
<1>1. PICK k \in 0..Len(Votes) : /\ tally = Aggregate(SubSeq(Votes, 1, k))
                                 /\ \A i \in k + 1..Len(Votes) : t <= Votes[i].at + slack
    BY DEF Since
<1>2. \A i \in k + 1..Len(Votes) : Votes[i].at \in Nat
    <2>1. Votes \in Seq(VoteEvents)
        BY DEF ChainInv
    <2>2. \A i \in 1..Len(Votes) : Votes[i] \in VoteEvents
        BY <2>1, ElementOfSeq
    <2>3. QED
        BY <2>1, <2>2 DEF VoteEvents
<1>3. \A i \in k + 1..Len(Votes) : t2 <= Votes[i].at + slack2
    BY <1>1, <1>2
<1>4. QED
    BY <1>1, <1>3 DEF Since

\* The chain goes on, or the clock: no answer and no query under way ages by more
\* than it may.
LEMMA WorldStep ==
    ASSUME TallyInv,
           Finalise \/ Tick \/ \E o \in OPTION_MAP \cup {OtherOption} : CastVote(o)
    PROVE  TallyInv' /\ UNCHANGED queries
<1>1. /\ ChainInv /\ CacheInv /\ UNCHANGED <<declared, cache, queries>> /\ DOMAIN queries = Queries
      /\ \A q \in Queries : QueryInv(q)
    BY DEF TallyInv, Finalise, Tick, CastVote
<1>2. /\ now \in Nat /\ now <= MaxTime /\ MaxTime \in Nat /\ MaxDelay \in Nat /\ CACHE_TTL_MS \in Nat \ {0}
      /\ finalisedAt \in 0..Never /\ Never \in Nat /\ declared \in BOOLEAN
      /\ chain \in Seq(VoteEvents) /\ Votes \in Seq(VoteEvents)
    BY <1>1, LifeAssumption DEF ChainInv, Never
<1>3. PICK e \in VoteEvents : /\ e.at = now
                              /\ \/ chain' = chain /\ Votes' = Votes
                                 \/ chain' = Append(chain, e) /\ Votes' \in {Votes, Append(Votes, e)}
    <2>1. [option |-> OtherOption, at |-> now] \in VoteEvents
        BY <1>2 DEF VoteEvents
    <2>2. CASE chain' = chain
        BY <1>1, <2>1, <2>2 DEF Votes
    <2>3. ASSUME NEW o \in OPTION_MAP \cup {OtherOption}, CastVote(o)
          PROVE  chain' = Append(chain, [option |-> o, at |-> now]) /\ [option |-> o, at |-> now] \in VoteEvents
        BY <1>2, <2>3 DEF CastVote, VoteEvents
    <2>4. CASE \E o \in OPTION_MAP \cup {OtherOption} : CastVote(o)
        BY <1>1, <2>3, <2>4 DEF Votes
    <2>5. QED
        BY <2>2, <2>4 DEF Finalise, Tick
<1>4. /\ now' \in Nat /\ now' <= MaxTime /\ now <= now'
      /\ finalisedAt' = finalisedAt \/ (finalisedAt = Never /\ finalisedAt' = now)
    <2>1. CASE Tick
        BY <1>2, <2>1 DEF Tick
    <2>2. CASE Finalise
        BY <1>2, <2>2 DEF Finalise
    <2>3. CASE \E o \in OPTION_MAP \cup {OtherOption} : CastVote(o)
        BY <1>2, <2>3 DEF CastVote
    <2>4. QED
        BY <2>1, <2>2, <2>3
<1>5. chain' \in Seq(VoteEvents) /\ Votes' \in Seq(VoteEvents)
    <2>1. /\ Append(chain, e) \in Seq(VoteEvents) /\ Append(Votes, e) \in Seq(VoteEvents)
        BY <1>2, AppendProperties
    <2>2. QED
        BY <1>2, <1>3, <2>1
<1>6. ChainInv'
    BY <1>1, <1>2, <1>4, <1>5 DEF ChainInv, Never
<1>7. \A tally : \A t, slack \in Nat : t <= now + slack /\ Since(tally, t, slack) => Since(tally, t, slack)'
    BY <1>2, <1>3, SinceStays
<1>8. \A f : \A t, slack \in Nat : t <= now + slack /\ FinalSince(f, t, slack) => FinalSince(f, t, slack)'
    <2>1. Finalized => Finalized'
        BY <1>1, <1>2, <1>4 DEF Finalized, Never
    <2>2. QED
        BY <1>1, <1>2, <1>4, <2>1 DEF FinalSince
<1>9. CacheInv'
    <2>1. CASE cache = None
        BY <1>1, <2>1 DEF CacheInv, None, Never
    <2>2. CASE cache # None
        <3>1. /\ cache.at \in 0..now /\ Since(cache.tally, cache.at, MaxDelay)
              /\ FinalSince(cache.finalized, cache.at, MaxDelay)
            BY <1>1, <2>2 DEF CacheInv
        <3>2. cache.at \in 0..now' /\ cache.at \in Nat /\ cache.at <= now + MaxDelay
            BY <1>2, <1>4, <3>1
        <3>3. Since(cache.tally, cache.at, MaxDelay)'
            BY <1>1, <1>2, <1>7, <3>1, <3>2 DEF Since
        <3>4. FinalSince(cache.finalized, cache.at, MaxDelay)'
            BY <1>1, <1>2, <1>8, <3>1, <3>2 DEF FinalSince
        <3>5. QED
            BY <1>1, <3>2, <3>3, <3>4 DEF CacheInv
    <2>3. QED
        BY <2>1, <2>2
<1>10. ASSUME NEW q \in Queries PROVE QueryInv(q)'
    <2> DEFINE r == queries[q]
    <2>1. QueryInv(q) /\ queries'[q] = r
        BY <1>1
    <2>2. r.pc \in {"Votes", "Final", "Answered", "Certify"} => r.began \in Nat /\ r.began <= now
        BY <1>2, <2>1 DEF QueryInv
    <2>3. r.pc \in {"Votes", "Final", "Answered", "Certify"} => r.began \in 0..now'
        BY <1>2, <1>4, <2>2
    <2>4. r.pc \in {"Votes", "Final"} => now' <= r.began + MaxDelay
        <3>1. r.pc \in {"Votes", "Final"} => now <= r.began + MaxDelay
            BY <2>1 DEF QueryInv
        <3>2. CASE now' = now
            BY <3>1, <3>2
        <3>3. CASE Tick
            BY <1>2, <2>2, <3>3 DEF Tick
        <3>4. QED
            BY <3>2, <3>3 DEF Finalise, CastVote
    <2>5. r.pc = "Final" => Since(r.tally, r.began, 0)'
        <3>1. r.pc = "Final" => Since(r.tally, r.began, 0) /\ r.began <= now + 0
            BY <1>2, <2>1, <2>2 DEF QueryInv
        <3>2. QED
            BY <1>1, <1>7, <2>2, <3>1 DEF Since
    <2>6. Given(q) => /\ Since(r.tally, r.began + 1, CACHE_TTL_MS + MaxDelay)'
                      /\ FinalSince(r.finalized, r.began + 1, CACHE_TTL_MS + MaxDelay)'
        <3> SUFFICES ASSUME Given(q)
                     PROVE  /\ Since(r.tally, r.began + 1, CACHE_TTL_MS + MaxDelay)'
                            /\ FinalSince(r.finalized, r.began + 1, CACHE_TTL_MS + MaxDelay)'
            OBVIOUS
        <3>1. /\ Since(r.tally, r.began + 1, CACHE_TTL_MS + MaxDelay)
              /\ FinalSince(r.finalized, r.began + 1, CACHE_TTL_MS + MaxDelay)
            BY <2>1 DEF QueryInv
        <3>2. r.began + 1 \in Nat /\ CACHE_TTL_MS + MaxDelay \in Nat /\ r.began + 1 <= now + (CACHE_TTL_MS + MaxDelay)
            <4>1. r.began \in Nat /\ r.began <= now
                BY <2>2 DEF Given
            <4>2. CACHE_TTL_MS \in Nat /\ CACHE_TTL_MS >= 1 /\ MaxDelay \in Nat /\ now \in Nat
                BY <1>2
            <4> HIDE DEF r
            <4>3. QED
                BY ONLY <4>1, <4>2
        <3>3. Since(r.tally, r.began + 1, CACHE_TTL_MS + MaxDelay)'
            BY <1>1, <1>7, <3>1, <3>2 DEF Since
        <3>4. FinalSince(r.finalized, r.began + 1, CACHE_TTL_MS + MaxDelay)'
            BY <1>1, <1>8, <3>1, <3>2 DEF FinalSince
        <3>5. QED
            BY <3>3, <3>4
    <2>7. QED
        BY <1>1, <2>1, <2>3, <2>4, <2>5, <2>6 DEF QueryInv, Given
<1>11. QED
    BY <1>1, <1>6, <1>9, <1>10 DEF TallyInv

\* A call goes on while chain and clock stand still: the rest stays as it is.
LEMMA CallMoves ==
    ASSUME TallyInv, NEW q \in Queries, NEW x, queries' = [queries EXCEPT ![q] = x],
           UNCHANGED <<now, declared, chain, finalisedAt>>
    PROVE  /\ ChainInv' /\ DOMAIN queries' = Queries /\ queries'[q] = x
           /\ \A r \in Queries \ {q} : QueryInv(r)' /\ queries'[r] = queries[r]
           /\ \A tally, t, slack : Since(tally, t, slack)' <=> Since(tally, t, slack)
           /\ \A f, t, slack : FinalSince(f, t, slack)' <=> FinalSince(f, t, slack)
<1>1. ChainInv' /\ DOMAIN queries' = Queries /\ queries'[q] = x
    BY DEF TallyInv, ChainInv, Votes
<1>2. \A tally, t, slack : Since(tally, t, slack)' <=> Since(tally, t, slack)
    BY DEF Since, Votes
<1>3. \A f, t, slack : FinalSince(f, t, slack)' <=> FinalSince(f, t, slack)
    BY DEF FinalSince, Finalized
<1>4. ASSUME NEW r \in Queries \ {q} PROVE QueryInv(r)' /\ queries'[r] = queries[r]
    <2>1. queries'[r] = queries[r] /\ QueryInv(r)
        BY DEF TallyInv
    <2>2. QED
        BY <2>1 DEF QueryInv, Given, Since, FinalSince, Votes, Finalized
<1>5. QED
    BY <1>1, <1>2, <1>3, <1>4

\* An answer is given: it is of a tally that misses only what is recent.
LEMMA AnswerGiven ==
    ASSUME TallyInv, NEW q \in Queries, UNCHANGED <<now, declared, chain, finalisedAt>>,
           NEW began \in 0..now, NEW tally, NEW finalized \in BOOLEAN, Answer(q, began, tally, finalized),
           Since(tally, began + 1, CACHE_TTL_MS + MaxDelay),
           FinalSince(finalized, began + 1, CACHE_TTL_MS + MaxDelay)
    PROVE  \A r \in Queries : QueryInv(r)'
<1> DEFINE x == [pc |-> IF q \in Certifying THEN "Certify" ELSE "Answered",
                 began |-> began, tally |-> tally, finalized |-> finalized]
<1>1. queries' = [queries EXCEPT ![q] = x]
    BY DEF Answer
<1>2. x.pc \in {"Certify", "Answered"} /\ x.began = began /\ x.tally = tally
    OBVIOUS
<1>3. x.finalized = finalized
    OBVIOUS
<1> HIDE DEF x
<1>4. /\ queries'[q] = x /\ \A r \in Queries \ {q} : QueryInv(r)'
      /\ Since(tally, began + 1, CACHE_TTL_MS + MaxDelay)'
      /\ FinalSince(finalized, began + 1, CACHE_TTL_MS + MaxDelay)'
    BY <1>1, CallMoves
<1>5. QueryInv(q)'
    <2>1. /\ Since(queries[q].tally, queries[q].began + 1, CACHE_TTL_MS + MaxDelay)'
          /\ FinalSince(queries[q].finalized, queries[q].began + 1, CACHE_TTL_MS + MaxDelay)'
        BY <1>2, <1>3, <1>4 DEF Since, FinalSince
    <2>2. QED
        BY <1>2, <1>3, <1>4, <2>1 DEF QueryInv, Given
<1>6. QED
    BY <1>4, <1>5

\* getTally: the cache is asked. What it holds is younger than its life, and was at
\* most a query old when it was written.
LEMMA AskStep ==
    ASSUME TallyInv, NEW q \in Queries, Ask(q)
    PROVE  TallyInv'
<1>1. /\ ChainInv /\ CacheInv /\ UNCHANGED <<now, declared, chain, finalisedAt, cache>> /\ DOMAIN queries = Queries
      /\ now \in Nat /\ MaxDelay \in Nat /\ CACHE_TTL_MS \in Nat \ {0} /\ finalisedAt \in Nat
    BY LifeAssumption DEF TallyInv, Ask, ChainInv, Never
<1>2. CacheInv'
    BY <1>1 DEF CacheInv, Since, FinalSince, Votes, Finalized, None, Never
<1>3. CASE Fresh
    <2>1. /\ cache.at \in 0..now /\ now - cache.at < CACHE_TTL_MS /\ cache.finalized \in BOOLEAN
          /\ Since(cache.tally, cache.at, MaxDelay) /\ FinalSince(cache.finalized, cache.at, MaxDelay)
        BY <1>1, <1>3 DEF Fresh, CacheInv
    <2>2. Since(cache.tally, now + 1, CACHE_TTL_MS + MaxDelay)
        <3>1. now + 1 + MaxDelay <= cache.at + (CACHE_TTL_MS + MaxDelay)
            BY <1>1, <2>1
        <3>2. QED
            BY <1>1, <2>1, <3>1, SinceWeakens
    <2>3. FinalSince(cache.finalized, now + 1, CACHE_TTL_MS + MaxDelay)
        BY <1>1, <2>1 DEF FinalSince
    <2>4. Answer(q, now, cache.tally, cache.finalized)
        BY <1>3 DEF Ask
    <2>5. \A r \in Queries : QueryInv(r)'
        BY <1>1, <2>1, <2>2, <2>3, <2>4, AnswerGiven
    <2>6. ChainInv' /\ DOMAIN queries' = Queries
        BY <1>1, <2>4 DEF ChainInv, Votes, Answer
    <2>7. QED
        BY <1>2, <2>5, <2>6 DEF TallyInv
<1>4. CASE ~Fresh
    <2> DEFINE x == [pc |-> "Votes", began |-> now]
    <2>1. queries' = [queries EXCEPT ![q] = x]
        BY <1>4 DEF Ask
    <2>2. x.pc = "Votes" /\ x.began = now
        OBVIOUS
    <2> HIDE DEF x
    <2>3. ChainInv' /\ DOMAIN queries' = Queries /\ queries'[q] = x /\ \A r \in Queries \ {q} : QueryInv(r)'
        BY <1>1, <2>1, CallMoves
    <2>4. QueryInv(q)'
        BY <1>1, <2>2, <2>3 DEF QueryInv, Given
    <2>5. QED
        BY <1>2, <2>3, <2>4 DEF TallyInv
<1>5. QED
    BY <1>3, <1>4

\* getTally: the votes are read, all that were cast before the call among them.
LEMMA VotesStep ==
    ASSUME TallyInv, NEW q \in Queries, QueryVotes(q)
    PROVE  TallyInv'
<1> DEFINE tally == Aggregate(Votes)
           x == [pc |-> "Final", began |-> queries[q].began, tally |-> tally]
<1>1. /\ ChainInv /\ CacheInv /\ UNCHANGED <<now, declared, chain, finalisedAt, cache>>
      /\ QueryInv(q) /\ queries[q].pc = "Votes"
    BY DEF TallyInv, QueryVotes
<1>2. CacheInv'
    BY <1>1 DEF CacheInv, Since, FinalSince, Votes, Finalized, None, Never
<1>3. Since(tally, queries[q].began, 0)
    BY <1>1, SinceNow
<1> HIDE DEF tally
<1>4. queries' = [queries EXCEPT ![q] = x]
    BY DEF QueryVotes, TallyInv, tally
<1>5. x.pc = "Final" /\ x.began = queries[q].began /\ x.tally = tally
    OBVIOUS
<1> HIDE DEF x
<1>6. /\ ChainInv' /\ DOMAIN queries' = Queries /\ queries'[q] = x /\ \A r \in Queries \ {q} : QueryInv(r)'
    BY <1>1, <1>4, CallMoves
<1>7. Since(queries[q].tally, queries[q].began, 0)'
    BY <1>1, <1>3, <1>5, <1>6 DEF Since, Votes
<1>8. QueryInv(q)'
    BY <1>1, <1>5, <1>6, <1>7 DEF QueryInv, Given
<1>9. QED
    BY <1>2, <1>6, <1>8 DEF TallyInv

\* getTally: the finalisation is read, the answer given and cached.
LEMMA FinalStep ==
    ASSUME TallyInv, NEW q \in Queries, QueryFinal(q)
    PROVE  TallyInv'
<1> DEFINE r == queries[q]
           final == Finalized
<1>1. /\ ChainInv /\ UNCHANGED <<now, declared, chain, finalisedAt>> /\ QueryInv(q) /\ r.pc = "Final"
      /\ now \in Nat /\ now <= MaxTime /\ MaxTime \in Nat /\ MaxDelay \in Nat /\ CACHE_TTL_MS \in Nat \ {0}
      /\ DOMAIN queries = Queries
    BY LifeAssumption DEF TallyInv, QueryFinal, ChainInv
<1>2. r.began \in 0..now /\ now <= r.began + MaxDelay /\ Since(r.tally, r.began, 0)
    BY <1>1 DEF QueryInv
<1>3. final \in BOOLEAN /\ \A t, slack \in Nat : t <= MaxTime + 1 => FinalSince(final, t, slack)
    BY <1>1 DEF FinalSince, Finalized, ChainInv, Never
<1> HIDE DEF final
<1>4. Answer(q, r.began, r.tally, final) /\ cache' = [tally |-> r.tally, finalized |-> final, at |-> now]
    BY DEF QueryFinal, final
<1>5. Since(r.tally, r.began + 1, CACHE_TTL_MS + MaxDelay) /\ Since(r.tally, now, MaxDelay)
    <2>1. r.began + 1 + 0 <= r.began + (CACHE_TTL_MS + MaxDelay) /\ now + 0 <= r.began + MaxDelay /\ r.began \in Nat
        BY <1>1, <1>2
    <2>2. QED
        BY <1>1, <1>2, <2>1, SinceWeakens
<1>6. FinalSince(final, r.began + 1, CACHE_TTL_MS + MaxDelay) /\ FinalSince(final, now, MaxDelay)
    <2>1. r.began \in Nat /\ r.began <= now
        BY <1>1, <1>2
    <2>2. r.began + 1 \in Nat /\ r.began + 1 <= MaxTime + 1 /\ now <= MaxTime + 1
        BY <1>1, <2>1
    <2>3. CACHE_TTL_MS + MaxDelay \in Nat
        BY <1>1
    <2> HIDE DEF r
    <2>4. QED
        BY <1>1, <1>3, <2>2, <2>3
<1>7. \A u \in Queries : QueryInv(u)'
    BY <1>1, <1>2, <1>3, <1>4, <1>5, <1>6, AnswerGiven
<1>8. ChainInv' /\ DOMAIN queries' = Queries
    BY <1>1, <1>4 DEF ChainInv, Votes, Answer
<1>9. CacheInv'
    <2>1. cache'.at = now /\ cache'.tally = r.tally /\ cache'.finalized = final
        BY <1>4
    <2>2. Since(cache.tally, cache.at, MaxDelay)'
        BY <1>1, <1>5, <2>1 DEF Since, Votes
    <2>3. FinalSince(cache.finalized, cache.at, MaxDelay)'
        BY <1>1, <1>6, <2>1 DEF FinalSince, Finalized
    <2>4. QED
        BY <1>1, <1>3, <2>1, <2>2, <2>3 DEF CacheInv
<1>10. QED
    BY <1>7, <1>8, <1>9 DEF TallyInv

\* A call ends without a tally, or its certificate goes on.
LEMMA EndStep ==
    ASSUME TallyInv, NEW q \in Queries, NEW pc \in {"Failed", "Pinning", "Issued"}, End(q, pc),
           UNCHANGED <<now, declared, chain, finalisedAt, cache>>
    PROVE  /\ TallyInv' /\ queries'[q].pc = pc
           /\ \A r \in Queries \ {q} : queries'[r] = queries[r]
<1>1. queries' = [queries EXCEPT ![q] = [pc |-> pc]]
    BY DEF End
<1>2. /\ ChainInv' /\ DOMAIN queries' = Queries /\ queries'[q] = [pc |-> pc]
      /\ \A r \in Queries \ {q} : QueryInv(r)' /\ queries'[r] = queries[r]
    BY <1>1, CallMoves
<1>3. CacheInv'
    BY DEF TallyInv, CacheInv, Since, FinalSince, Votes, Finalized, None, Never
<1>4. QueryInv(q)'
    BY <1>2 DEF QueryInv, Given
<1>5. QED
    BY <1>2, <1>3, <1>4 DEF TallyInv

\* getTally as a whole: it brings calls to the point where a certificate begins, and
\* only those that certify.
LEMMA TallyStepKeeps ==
    ASSUME CertInv, TallyNext, UNCHANGED <<initialised, blocks, pinned, diverged>>
    PROVE  CertInv'
<1>1. TallyInv /\ DOMAIN queries = Queries
    BY DEF CertInv, TallyInv
<1>2. CASE Finalise \/ Tick \/ \E o \in OPTION_MAP \cup {OtherOption} : CastVote(o)
    <2>1. TallyInv' /\ UNCHANGED queries
        BY <1>1, <1>2, WorldStep
    <2>2. QED
        BY <2>1 DEF CertInv, CertTypeOK
<1>3. ASSUME NEW q \in Queries, Ask(q) \/ TallyStep(q) \/ QueryFails(q) PROVE CertInv'
    <2>1. TallyInv'
        <3>1. CASE QueryFails(q)
            BY <1>1, <3>1, EndStep DEF QueryFails
        <3>2. QED
            BY <1>1, <1>3, <3>1, AskStep, VotesStep, FinalStep DEF TallyStep
    <2>2. PICK x : /\ queries' = [queries EXCEPT ![q] = x]
                   /\ x.pc \in {"Votes", "Final", "Answered", "Certify", "Failed"}
                   /\ x.pc = "Certify" => q \in Certifying
        <3>1. ASSUME NEW began, NEW tally, NEW finalized, Answer(q, began, tally, finalized)
              PROVE  \E x : /\ queries' = [queries EXCEPT ![q] = x]
                            /\ x.pc \in {"Votes", "Final", "Answered", "Certify", "Failed"}
                            /\ x.pc = "Certify" => q \in Certifying
            <4> DEFINE x == [pc |-> IF q \in Certifying THEN "Certify" ELSE "Answered",
                             began |-> began, tally |-> tally, finalized |-> finalized]
            <4>1. queries' = [queries EXCEPT ![q] = x]
                BY <3>1 DEF Answer
            <4>2. x.pc \in {"Certify", "Answered"} /\ (x.pc = "Certify" => q \in Certifying)
                OBVIOUS
            <4> HIDE DEF x
            <4>3. QED
                BY <4>1, <4>2
        <3>2. CASE queries' = [queries EXCEPT ![q] = [pc |-> "Votes", began |-> now]]
            <4>1. [pc |-> "Votes", began |-> now].pc = "Votes"
                OBVIOUS
            <4>2. QED
                BY <3>2, <4>1
        <3>3. CASE QueryVotes(q)
            <4> DEFINE x == [pc |-> "Final", began |-> queries[q].began, tally |-> Aggregate(Votes)]
            <4>1. queries' = [queries EXCEPT ![q] = x] /\ x.pc = "Final"
                BY <3>3 DEF QueryVotes
            <4> HIDE DEF x
            <4>2. QED
                BY <4>1
        <3>4. CASE QueryFails(q)
            <4> DEFINE x == [pc |-> "Failed"]
            <4>1. queries' = [queries EXCEPT ![q] = x] /\ x.pc = "Failed"
                BY <3>4 DEF QueryFails, End
            <4> HIDE DEF x
            <4>2. QED
                BY <4>1
        <3>5. QED
            BY <1>3, <3>1, <3>2, <3>3, <3>4 DEF Ask, TallyStep, QueryFinal
    <2>3. queries'[q] = x /\ \A r \in Queries \ {q} : queries'[r] = queries[r]
        BY <1>1, <2>2
    <2>4. QED
        BY <2>1, <2>2, <2>3 DEF CertInv, CertTypeOK
<1>4. QED
    BY <1>2, <1>3 DEF TallyNext

\* certify, after the tally: the document is stored by a server that has a node.
LEMMA CertifyStep ==
    ASSUME CertInv, NEW q \in Queries, Certify(q)
    PROVE  CertInv'
<1> DEFINE pc == IF initialised THEN "Pinning" ELSE "Failed"
<1>1. /\ TallyInv /\ queries[q].pc = "Certify" /\ End(q, pc) /\ UNCHANGED <<initialised, pinned, diverged>>
      /\ UNCHANGED <<now, declared, chain, finalisedAt, cache>>
      /\ blocks' = IF initialised THEN blocks \cup {q} ELSE blocks
    BY DEF CertInv, Certify
<1>2. pc \in {"Failed", "Pinning"} /\ (pc = "Pinning" => initialised)
    OBVIOUS
<1> HIDE DEF pc
<1>3. TallyInv' /\ queries'[q].pc = pc /\ \A r \in Queries \ {q} : queries'[r] = queries[r]
    BY <1>1, <1>2, EndStep
<1>4. q \in Certifying
    BY <1>1 DEF CertInv
<1>5. CertTypeOK'
    BY <1>1, <1>4 DEF CertInv, CertTypeOK
<1>6. QED
    BY <1>1, <1>2, <1>3, <1>4, <1>5 DEF CertInv

\* pin: a certificate is issued when a provider has confirmed it, so it is there.
LEMMA PinStep ==
    ASSUME CertInv, NEW q \in Queries, NEW arrived, NEW confirmed, Pin(q, arrived, confirmed)
    PROVE  CertInv'
<1> DEFINE pc == IF confirmed = {} THEN "Failed" ELSE "Issued"
<1>1. /\ TallyInv /\ queries[q].pc = "Pinning" /\ End(q, pc) /\ UNCHANGED <<initialised, blocks>>
      /\ UNCHANGED <<now, declared, chain, finalisedAt, cache>>
      /\ confirmed \cup arrived \subseteq Configured
      /\ diverged' = IF confirmed # {} /\ confirmed \cap arrived = {} THEN diverged \cup {q} ELSE diverged
      /\ pinned' = [p \in Providers |-> IF p \in arrived THEN pinned[p] \cup {q} ELSE pinned[p]]
    BY DEF CertInv, Pin, Keep, Diverge
<1>2. pc \in {"Failed", "Issued"} /\ (pc = "Issued" => confirmed # {})
    OBVIOUS
<1> HIDE DEF pc
<1>3. TallyInv' /\ queries'[q].pc = pc /\ \A r \in Queries \ {q} : queries'[r] = queries[r]
    BY <1>1, <1>2, EndStep
<1>4. q \in Certifying /\ initialised
    BY <1>1 DEF CertInv
<1>5. CertTypeOK'
    BY <1>1, <1>4 DEF CertInv, CertTypeOK
<1>6. pc = "Issued" => q \in diverged' \/ \E p \in Providers : q \in pinned'[p]
    <2>1. CASE confirmed \cap arrived # {}
        BY <1>1, <2>1, ProviderAssumption
    <2>2. CASE confirmed \cap arrived = {}
        BY <1>1, <1>2, <2>2
    <2>3. QED
        BY <2>1, <2>2
<1>7. /\ diverged \subseteq diverged'
      /\ \A r \in Queries : (\E p \in Providers : r \in pinned[p]) => \E p \in Providers : r \in pinned'[p]
    BY <1>1
<1>8. QED
    BY <1>1, <1>2, <1>3, <1>4, <1>5, <1>6, <1>7 DEF CertInv

\* The server restarts: handlers, cache and blocks are gone, what is with a provider
\* is not.
LEMMA RestartStep ==
    ASSUME CertInv, NEW arrived, RestartServer(arrived)
    PROVE  CertInv'
<1> DEFINE Over == {"Idle", "Answered", "Issued", "Failed"}
<1>1. /\ TallyInv /\ arrived \subseteq Configured
      /\ cache' = None /\ blocks' = {} /\ UNCHANGED <<now, declared, chain, finalisedAt, initialised, diverged>>
      /\ queries' = [q \in Queries |-> IF queries[q].pc \in Over THEN queries[q] ELSE [pc |-> "Failed"]]
      /\ pinned' = [p \in Providers |-> pinned[p] \cup {q \in Queries : queries[q].pc = "Pinning" /\ p \in arrived}]
    BY DEF CertInv, RestartServer
<1>2. \A q \in Queries : \/ queries'[q] = queries[q]
                         \/ queries'[q].pc = "Failed"
    BY <1>1
<1>3. TallyInv'
    <2>1. ChainInv' /\ CacheInv' /\ DOMAIN queries' = Queries
        BY <1>1 DEF TallyInv, ChainInv, CacheInv, Votes, None, Never
    <2>2. ASSUME NEW q \in Queries PROVE QueryInv(q)'
        <3>1. CASE queries'[q] = queries[q]
            BY <1>1, <3>1 DEF TallyInv, QueryInv, Given, Since, FinalSince, Votes, Finalized
        <3>2. CASE queries'[q].pc = "Failed"
            BY <3>2 DEF QueryInv, Given
        <3>3. QED
            BY <1>2, <3>1, <3>2
    <2>3. QED
        BY <2>1, <2>2 DEF TallyInv
<1>4. CertTypeOK'
    <2>1. ~initialised => \A q \in Queries : queries[q].pc # "Pinning"
        BY DEF CertInv
    <2>2. QED
        BY <1>1, <2>1 DEF CertInv, CertTypeOK
<1>5. \A r \in Queries : (\E p \in Providers : r \in pinned[p]) => \E p \in Providers : r \in pinned'[p]
    BY <1>1
<1>6. QED
    BY <1>1, <1>2, <1>3, <1>4, <1>5 DEF CertInv

-----------------------------------------------------------------------------
(* Tallies and certificates: the theorems *)

\* getTally, certify, pin: the invariant, queries overlapping as they may and the
\* server restarting at any moment.
THEOREM CertificateInvariant == CertSpec => []CertInv
<1>1. CertInit => CertInv
    <2> SUFFICES ASSUME CertInit PROVE CertInv
        OBVIOUS
    <2>1. DOMAIN queries = Queries /\ \A q \in Queries : queries[q] = Idle /\ queries[q].pc = "Idle"
        BY DEF CertInit, TallyInit, Idle
    <2>2. ChainInv /\ CacheInv
        BY LifeAssumption DEF CertInit, TallyInit, ChainInv, CacheInv, Votes, Never
    <2>3. TallyInv
        BY <2>1, <2>2 DEF TallyInv, QueryInv, Given
    <2>4. CertTypeOK /\ DOMAIN pinned = Providers
        BY DEF CertInit, CertTypeOK
    <2>5. QED
        BY <2>1, <2>3, <2>4 DEF CertInv
<1>2. CertInv /\ [CertNext]_certVars => CertInv'
    <2> SUFFICES ASSUME CertInv, [CertNext]_certVars PROVE CertInv'
        OBVIOUS
    <2>1. CASE UNCHANGED certVars
        <3>1. UNCHANGED <<now, declared, chain, finalisedAt, cache, queries, initialised, blocks, pinned, diverged>>
            BY <2>1 DEF certVars, tallyVars
        <3>2. TallyInv'
            BY <3>1 DEF CertInv, TallyInv, ChainInv, CacheInv, QueryInv, Given, Since, FinalSince,
                             Votes, Finalized, None, Never
        <3>3. QED
            BY <3>1, <3>2 DEF CertInv, CertTypeOK
    <2>2. QED
        BY <2>1, TallyStepKeeps, CertifyStep, PinStep, RestartStep DEF CertNext, CertStep
<1>3. QED
    BY <1>1, <1>2, PTL DEF CertSpec

\* getTally, certify, GET verify: of a ledger that emits the events the service
\* declares, an answer misses only votes and a finalisation no older than a cache
\* life and two queries, whichever query wrote the cache; of one that does not, it
\* is zero and open. An issued certificate can be fetched and verifies, whatever
\* failed or restarted, if a provider confirmed it under its CID.
THEOREM CertificatesCanBeReliedOn == CertSpec => []CertificatesSafe
<1>1. CertInv => CertificatesSafe
    <2> SUFFICES ASSUME CertInv PROVE CertificatesSafe
        OBVIOUS
    <2>1. TallyInv /\ CertTypeOK
        BY DEF CertInv
    <2>2. IssuedVerifies
        <3> SUFFICES ASSUME NEW q \in Queries, queries[q].pc = "Issued", q \notin diverged \ blocks
                     PROVE  verifyCertificate(q, sign(q)) = "Valid"
            BY DEF IssuedVerifies
        <3>1. Fetched(q)
            BY DEF CertInv, Fetched
        <3>2. ~SigningKey \/ sign(q) = q
            BY DEF sign
        <3>3. QED
            BY <3>1, <3>2 DEF verifyCertificate
    <2>3. AnswersAreRecent
        <3> SUFFICES ASSUME NEW q \in Queries, Given(q)
                     PROVE  /\ \E k \in 0..Len(Votes) :
                                  /\ queries[q].tally = Aggregate(SubSeq(Votes, 1, k))
                                  /\ \A i \in k + 1..Len(Votes) :
                                        ~(Votes[i].at + CACHE_TTL_MS + MaxDelay <= queries[q].began)
                            /\ declared /\ finalisedAt + CACHE_TTL_MS + MaxDelay <= queries[q].began
                                  => queries[q].finalized
                            /\ queries[q].finalized => Finalized
            BY DEF AnswersAreRecent, Recent
        <3> DEFINE r == queries[q]
        <3>1. /\ r.began \in 0..now /\ now \in Nat /\ finalisedAt \in Nat
              /\ CACHE_TTL_MS \in Nat /\ MaxDelay \in Nat /\ Votes \in Seq(VoteEvents)
            BY <2>1, LifeAssumption DEF TallyInv, QueryInv, ChainInv, Given, Never
        <3>2. /\ Since(r.tally, r.began + 1, CACHE_TTL_MS + MaxDelay)
              /\ FinalSince(r.finalized, r.began + 1, CACHE_TTL_MS + MaxDelay)
            BY <2>1 DEF TallyInv, QueryInv
        <3>3. PICK k \in 0..Len(Votes) :
                  /\ r.tally = Aggregate(SubSeq(Votes, 1, k))
                  /\ \A i \in k + 1..Len(Votes) : r.began + 1 <= Votes[i].at + (CACHE_TTL_MS + MaxDelay)
            BY <3>2 DEF Since
        <3>4. \A i \in k + 1..Len(Votes) : Votes[i].at \in Nat
            <4>1. \A i \in 1..Len(Votes) : Votes[i] \in VoteEvents
                BY <3>1, ElementOfSeq
            <4>2. QED
                BY <3>1, <4>1 DEF VoteEvents
        <3> HIDE DEF r
        <3>5. ASSUME NEW i \in k + 1..Len(Votes)
              PROVE  ~(Votes[i].at + CACHE_TTL_MS + MaxDelay <= r.began)
            <4>1. r.began + 1 <= Votes[i].at + (CACHE_TTL_MS + MaxDelay) /\ Votes[i].at \in Nat
                BY <3>3, <3>4
            <4>2. QED
                BY <3>1, <4>1
        <3> USE DEF r
        <3>6. /\ declared /\ finalisedAt + CACHE_TTL_MS + MaxDelay <= r.began => r.finalized
              /\ r.finalized => Finalized
            BY <3>1, <3>2 DEF FinalSince
        <3>7. QED
            BY <3>3, <3>5, <3>6
    <2>4. QED
        BY <2>1, <2>2, <2>3 DEF CertificatesSafe
<1>2. QED
    BY <1>1, CertificateInvariant, PTL

-----------------------------------------------------------------------------
(* Notifications: the invariant *)

UserRecords == [token : Nat \ {0}, country : Nations]
AppCalls ==
    [pc : {"Get", "Leave", "Write"}, kind : {"Register"}, alone : BOOLEAN,
     record : UserRecords, old : UserRecords \cup {NoRecord}]
    \cup [pc : {"Get", "Leave", "Write"}, kind : {"Unregister"}, alone : BOOLEAN, old : UserRecords \cup {NoRecord}]
Addressees == [userId : Subscribers, record : UserRecords]
Rounds ==
    [pc : {"Get", "Send", "Sent"}, userIds : SUBSET Subscribers, recipients : SUBSET Addressees,
     without : SUBSET Subscribers]
    \cup [pc : {"Unsent", "Sent"}] \cup [pc : {"Remove"}, stale : SUBSET Addressees]

NoteTypes ==
    /\ TK \in [Subscribers -> UserRecords \cup {NoRecord}]
    /\ CK \in [Nations -> SUBSET Subscribers]
    /\ device \in [Subscribers -> Nat] /\ left \subseteq Subscribers
    /\ calls \in [Subscribers -> Seq(AppCalls)]
    /\ broadcasts \in [Broadcasts -> Rounds]
    /\ settled \in [Subscribers -> UserRecords \cup {NoRecord}]

\* A call that was never one of several hands in the device's token. Who is settled
\* is in Redis with that token, who left is not, and neither has a call under way.
UserInv(u) ==
    /\ Len(calls[u]) = 1 /\ calls[u][1].alone /\ calls[u][1].kind = "Register" =>
          calls[u][1].record.token = device[u]
    /\ settled[u] # NoRecord =>
          /\ calls[u] = <<>> /\ TK[u] = settled[u]
          /\ u \in CK[settled[u].country] /\ settled[u].token = device[u]
    /\ u \in left => calls[u] = <<>> /\ TK[u] = NoRecord

\* A broadcast has the right token of whoever is settled, removes none of them, and
\* who had left when it began has no record, nor a call under way that makes one.
RoundInv(b) ==
    /\ broadcasts[b].pc = "Send" =>
          \A r \in broadcasts[b].recipients :
              /\ settled[r.userId] # NoRecord => r.record.token = device[r.userId]
              /\ r.userId \notin broadcasts[b].without
    /\ broadcasts[b].pc = "Remove" => \A r \in broadcasts[b].stale : settled[r.userId] = NoRecord
    /\ broadcasts[b].pc \in {"Get", "Send"} =>
          \A u \in broadcasts[b].without :
              TK[u] = NoRecord /\ \A i \in 1..Len(calls[u]) : calls[u][i].kind = "Unregister"

NoteInv ==
    NoteTypes /\ (\A u \in Subscribers : UserInv(u)) /\ (\A b \in Broadcasts : RoundInv(b))

-----------------------------------------------------------------------------
(* Notifications: lemmas *)

\* A stored record has a token, so it is told apart from its absence.
LEMMA RecordIsThere ==
    ASSUME NEW r \in UserRecords
    PROVE  r # NoRecord
BY DEF UserRecords, NoRecord

\* A request is a registration, with the record handed in, or a removal.
LEMMA AppCallFields ==
    ASSUME NEW c \in AppCalls
    PROVE  /\ c.pc \in {"Get", "Leave", "Write"} /\ c.kind \in {"Register", "Unregister"}
           /\ c.alone \in BOOLEAN /\ c.old \in UserRecords \cup {NoRecord}
           /\ c.kind = "Register" => c.record \in UserRecords
BY DEF AppCalls

\* A request that went on to pc, having read old.
Stepped(c, pc, old) == [[c EXCEPT !.pc = pc] EXCEPT !.old = old]

\* A step of a request changes where it is and what it read, and nothing else of it.
LEMMA StepOfCall ==
    ASSUME NEW c \in AppCalls, NEW pc \in {"Get", "Leave", "Write"}, NEW old \in UserRecords \cup {NoRecord}
    PROVE  /\ Stepped(c, pc, old) \in AppCalls /\ Stepped(c, pc, old).kind = c.kind
           /\ Stepped(c, pc, old).alone = c.alone
           /\ c.kind = "Register" => Stepped(c, pc, old).record = c.record
<1>1. CASE c.kind = "Register"
    BY <1>1 DEF Stepped, AppCalls
<1>2. CASE c.kind = "Unregister"
    BY <1>2 DEF Stepped, AppCalls
<1>3. QED
    BY <1>1, <1>2, AppCallFields

\* A call that saw another one end is no longer alone, and otherwise as it was.
LEMMA NoLongerAlone ==
    ASSUME NEW c \in AppCalls
    PROVE  LET d == [c EXCEPT !.alone = FALSE]
           IN  d \in AppCalls /\ d.kind = c.kind /\ d.alone = FALSE
BY DEF AppCalls

\* A step of one request of a user leaves all requests, their order and what they
\* ask for. (the awaits of registerToken and unregisterToken)
LEMMA AdvanceKeepsCalls ==
    ASSUME calls \in [Subscribers -> Seq(AppCalls)], NEW u \in Subscribers, NEW i \in DOMAIN calls[u],
           NEW pc \in {"Get", "Leave", "Write"}, NEW old \in UserRecords \cup {NoRecord},
           Advance(u, i, pc, old)
    PROVE  /\ calls' \in [Subscribers -> Seq(AppCalls)]
           /\ \A v \in Subscribers : Len(calls'[v]) = Len(calls[v])
           /\ \A v \in Subscribers : calls[v] = <<>> => calls'[v] = <<>>
           /\ \A v \in Subscribers : \A j \in 1..Len(calls[v]) :
                  /\ calls'[v][j].kind = calls[v][j].kind
                  /\ calls'[v][j].alone = calls[v][j].alone
                  /\ calls[v][j].kind = "Register" => calls'[v][j].record = calls[v][j].record
<1> DEFINE d == Stepped(calls[u][i], pc, old)
<1>1. /\ calls[u] \in Seq(AppCalls) /\ i \in 1..Len(calls[u]) /\ calls[u][i] \in AppCalls
      /\ Len(calls[u]) \in Nat /\ DOMAIN calls[u] = 1..Len(calls[u])
    OBVIOUS
<1>2. /\ d \in AppCalls /\ d.kind = calls[u][i].kind /\ d.alone = calls[u][i].alone
      /\ calls[u][i].kind = "Register" => d.record = calls[u][i].record
    BY <1>1, StepOfCall
<1>3. calls' = [calls EXCEPT ![u] = [calls[u] EXCEPT ![i] = d]]
    BY <1>1 DEF Advance, Stepped
<1> HIDE DEF d
<1>4. /\ calls'[u] = [calls[u] EXCEPT ![i] = d]
      /\ \A v \in Subscribers : v # u => calls'[v] = calls[v]
      /\ DOMAIN calls' = Subscribers
    BY <1>3
<1>5. calls'[u] \in Seq(AppCalls) /\ Len(calls'[u]) = Len(calls[u])
    BY <1>1, <1>2, <1>4, ExceptSeq
<1>6. \A j \in 1..Len(calls[u]) : calls'[u][j] = IF j = i THEN d ELSE calls[u][j]
    BY <1>1, <1>4
<1>7. calls[u] # <<>>
    BY <1>1
<1>8. calls' \in [Subscribers -> Seq(AppCalls)]
    BY <1>3, <1>4, <1>5
<1>9. /\ Len(calls'[u]) = Len(calls[u])
      /\ \A v \in Subscribers : v # u => Len(calls'[v]) = Len(calls[v])
      /\ \A v \in Subscribers : calls[v] = <<>> => calls'[v] = <<>>
    BY <1>4, <1>5, <1>7
<1>10. \A v \in Subscribers : \A j \in 1..Len(calls[v]) :
          /\ calls'[v][j].kind = calls[v][j].kind
          /\ calls'[v][j].alone = calls[v][j].alone
          /\ calls[v][j].kind = "Register" => calls'[v][j].record = calls[v][j].record
    BY <1>2, <1>4, <1>6
<1>11. QED
    BY <1>1, <1>2, <1>4, <1>5, <1>6, <1>8, <1>9, <1>10

\* When a request ends, those left of the user are not alone. (Finished)
LEMMA FinishedKeepsCalls ==
    ASSUME calls \in [Subscribers -> Seq(AppCalls)], NEW u \in Subscribers, NEW i \in DOMAIN calls[u],
           Finished(u, i)
    PROVE  /\ calls' \in [Subscribers -> Seq(AppCalls)]
           /\ \A v \in Subscribers : v # u => calls'[v] = calls[v]
           /\ Len(calls[u]) = 1 => calls'[u] = <<>>
           /\ \A j \in 1..Len(calls'[u]) :
                  /\ calls'[u][j].alone = FALSE
                  /\ \E k \in 1..Len(calls[u]) : calls'[u][j].kind = calls[u][k].kind
<1> DEFINE n == Len(calls[u]) - 1
           from(j) == IF j < i THEN j ELSE j + 1
           rest == [j \in 1..n |-> [calls[u][from(j)] EXCEPT !.alone = FALSE]]
<1>1. calls[u] \in Seq(AppCalls) /\ i \in 1..Len(calls[u]) /\ Len(calls[u]) \in Nat /\ n \in Nat
    OBVIOUS
<1>2. calls' = [calls EXCEPT ![u] = rest]
    BY DEF Finished
<1>3. \A j \in 1..n : from(j) \in 1..Len(calls[u])
    BY <1>1
<1>4. \A j \in 1..n : calls[u][from(j)] \in AppCalls
    BY <1>1, <1>3
<1> HIDE DEF from
<1>5. \A j \in 1..n : rest[j] \in AppCalls /\ rest[j].alone = FALSE /\ rest[j].kind = calls[u][from(j)].kind
    BY <1>4, NoLongerAlone
<1>6. rest \in [1..n -> AppCalls]
    BY <1>5
<1>7. rest \in Seq(AppCalls) /\ Len(rest) = n
    <2> HIDE DEF rest, n
    <2> QED BY <1>1, <1>6
<1> HIDE DEF rest
<1>8. n = 0 => rest = <<>>
    BY <1>7
<1>9. calls'[u] = rest /\ (\A v \in Subscribers : v # u => calls'[v] = calls[v])
    BY <1>2
<1>10. calls' \in [Subscribers -> Seq(AppCalls)]
    BY <1>2, <1>7
<1>11. QED
    BY <1>1, <1>3, <1>5, <1>7, <1>8, <1>9, <1>10

\* A broadcast under way has an audience, and those it must leave alone.
LEMMA RoundFields ==
    ASSUME NEW r \in Rounds
    PROVE  /\ r.pc \in {"Get", "Send"} =>
                 /\ r.userIds \subseteq Subscribers /\ r.recipients \subseteq Addressees
                 /\ r.without \subseteq Subscribers
                 /\ \A w \in SUBSET Subscribers :
                       /\ [r EXCEPT !.without = w] \in Rounds
                       /\ [r EXCEPT !.without = w].pc = r.pc
                       /\ [r EXCEPT !.without = w].recipients = r.recipients
                       /\ [r EXCEPT !.without = w].without = w
           /\ r.pc = "Remove" => r.stale \subseteq Addressees
BY DEF Rounds

\* What a broadcast sends goes to a subscriber under their record.
LEMMA AddresseeFields ==
    ASSUME NEW r \in Addressees
    PROVE  r.userId \in Subscribers /\ r.record \in UserRecords
BY DEF Addressees

\* At first nothing is stored and nothing under way.
LEMMA NoteInitInv == NoteInit => NoteInv
<1> SUFFICES ASSUME NoteInit PROVE NoteInv
    OBVIOUS
<1>1. NoteTypes
    BY DEF NoteInit, NoteTypes, Rounds
<1>2. \A u \in Subscribers : UserInv(u)
    BY DEF NoteInit, UserInv
<1>3. \A b \in Broadcasts : RoundInv(b)
    BY DEF NoteInit, RoundInv
<1>4. QED
    BY <1>1, <1>2, <1>3 DEF NoteInv

\* A new request unsettles its user, and one to register makes them fair game of
\* the broadcasts under way. (POST /register)
LEMMA RegisterInv ==
    ASSUME NoteInv, NEW u \in Subscribers, NEW c \in Nations, Register(u, c)
    PROVE  NoteInv'
<1> USE DEF NoteInv
<1>1. PICK token \in {device[u], device[u] + 1} :
         /\ token \in 1..MaxToken
         /\ device' = [device EXCEPT ![u] = token]
         /\ Call(u, [pc |-> "Get", kind |-> "Register", alone |-> calls[u] = <<>>,
                     record |-> [token |-> token, country |-> c], old |-> NoRecord])
    BY DEF Register
<1> DEFINE call == [pc |-> "Get", kind |-> "Register", alone |-> calls[u] = <<>>,
                    record |-> [token |-> token, country |-> c], old |-> NoRecord]
<1>2. token \in Nat \ {0}
    BY <1>1, TokenAssumption DEF NoteTypes
<1>3. call \in AppCalls /\ call.record.token = token
    BY <1>2 DEF AppCalls, UserRecords
<1>4. /\ calls' = [calls EXCEPT ![u] = Append(calls[u], call)]
      /\ settled' = [settled EXCEPT ![u] = NoRecord] /\ left' = left \ {u} /\ UNCHANGED <<TK, CK>>
    BY <1>1 DEF Call
<1> HIDE DEF call
<1>5. /\ calls[u] \in Seq(AppCalls) /\ calls'[u] = Append(calls[u], call)
      /\ Len(calls'[u]) = 1 => calls'[u][1] = call
      /\ \A v \in Subscribers : v # u => calls'[v] = calls[v]
    BY <1>3, <1>4 DEF NoteTypes
<1>6. \A b \in Broadcasts :
         /\ broadcasts'[b] \in Rounds /\ broadcasts'[b].pc = broadcasts[b].pc
         /\ broadcasts[b].pc \in {"Get", "Send"} =>
               /\ broadcasts'[b].without = broadcasts[b].without \ {u}
               /\ broadcasts'[b].recipients = broadcasts[b].recipients
         /\ broadcasts[b].pc = "Remove" => broadcasts'[b] = broadcasts[b]
    <2> TAKE b \in Broadcasts
    <2>1. broadcasts[b] \in Rounds
        BY DEF NoteTypes
    <2>2. broadcasts'[b] = IF broadcasts[b].pc \in {"Get", "Send"}
                           THEN [broadcasts[b] EXCEPT !.without = broadcasts[b].without \ {u}]
                           ELSE broadcasts[b]
        BY DEF Register, Return
    <2>3. broadcasts[b].pc \in {"Get", "Send"} => broadcasts[b].without \ {u} \in SUBSET Subscribers
        BY <2>1, RoundFields
    <2>4. QED
        BY <2>1, <2>2, <2>3, RoundFields
<1>7. NoteTypes'
    <2>1. broadcasts' \in [Broadcasts -> Rounds]
        BY <1>6 DEF Register, Return
    <2>2. calls' \in [Subscribers -> Seq(AppCalls)]
        BY <1>3, <1>4, <1>5 DEF NoteTypes
    <2>3. /\ device' \in [Subscribers -> Nat] /\ left' \subseteq Subscribers
          /\ settled' \in [Subscribers -> UserRecords \cup {NoRecord}]
        BY <1>1, <1>2, <1>4 DEF NoteTypes
    <2>4. QED
        BY <1>4, <2>1, <2>2, <2>3 DEF NoteTypes
<1>8. \A v \in Subscribers : UserInv(v)'
    <2>1. UserInv(u)'
        BY <1>1, <1>3, <1>4, <1>5 DEF NoteTypes, UserInv
    <2>2. ASSUME NEW v \in Subscribers, v # u PROVE UserInv(v)'
        BY <1>1, <1>4, <1>5, <2>2 DEF NoteTypes, UserInv
    <2>3. QED
        BY <2>1, <2>2
<1>9. ASSUME NEW b \in Broadcasts PROVE RoundInv(b)'
    <2>1. broadcasts[b] \in Rounds /\ RoundInv(b)
        BY DEF NoteTypes
    <2>2. \A v \in Subscribers :
             /\ settled'[v] # NoRecord => settled[v] # NoRecord /\ v # u
             /\ v # u => device'[v] = device[v]
        BY <1>1, <1>4 DEF NoteTypes
    <2>3. \A r \in Addressees : settled'[r.userId] # NoRecord =>
             settled[r.userId] # NoRecord /\ device'[r.userId] = device[r.userId]
        BY <2>2, AddresseeFields
    <2>4. broadcasts'[b].pc = "Send" =>
          \A r \in broadcasts'[b].recipients :
              /\ settled'[r.userId] # NoRecord => r.record.token = device'[r.userId]
              /\ r.userId \notin broadcasts'[b].without
        BY <1>6, <2>1, <2>3, RoundFields DEF RoundInv
    <2>5. broadcasts'[b].pc = "Remove" => \A r \in broadcasts'[b].stale : settled'[r.userId] = NoRecord
        BY <1>6, <2>1, <2>3, RoundFields DEF RoundInv
    <2>6. broadcasts'[b].pc \in {"Get", "Send"} =>
          \A v \in broadcasts'[b].without :
              TK'[v] = NoRecord /\ \A i \in 1..Len(calls'[v]) : calls'[v][i].kind = "Unregister"
        BY <1>4, <1>5, <1>6, <2>1, RoundFields DEF RoundInv
    <2>7. QED
        BY <2>4, <2>5, <2>6 DEF RoundInv
<1>10. QED
    BY <1>7, <1>8, <1>9

\* A removal asked for makes no record. (DELETE /register/:userId)
LEMMA UnregisterInv ==
    ASSUME NoteInv, NEW u \in Subscribers, Unregister(u)
    PROVE  NoteInv'
<1> USE DEF NoteInv
<1> DEFINE call == [pc |-> "Get", kind |-> "Unregister", alone |-> calls[u] = <<>>, old |-> NoRecord]
<1>1. call \in AppCalls /\ call.kind = "Unregister"
    BY DEF AppCalls
<1>2. /\ calls' = [calls EXCEPT ![u] = Append(calls[u], call)]
      /\ settled' = [settled EXCEPT ![u] = NoRecord] /\ left' = left \ {u}
      /\ UNCHANGED <<TK, CK, device, broadcasts>>
    BY DEF Unregister, Call
<1> HIDE DEF call
<1>3. /\ calls[u] \in Seq(AppCalls) /\ calls'[u] = Append(calls[u], call)
      /\ Len(calls'[u]) = 1 => calls'[u][1] = call
      /\ \A v \in Subscribers : v # u => calls'[v] = calls[v]
    BY <1>1, <1>2 DEF NoteTypes
<1>4. \A i \in 1..Len(calls'[u]) : calls'[u][i] = call \/ (i \in 1..Len(calls[u]) /\ calls'[u][i] = calls[u][i])
    BY <1>1, <1>3
<1>5. NoteTypes'
    <2>1. calls' \in [Subscribers -> Seq(AppCalls)]
        BY <1>1, <1>2, <1>3 DEF NoteTypes
    <2>2. left' \subseteq Subscribers /\ settled' \in [Subscribers -> UserRecords \cup {NoRecord}]
        BY <1>2 DEF NoteTypes
    <2>3. QED
        BY <1>2, <2>1, <2>2 DEF NoteTypes
<1>6. \A v \in Subscribers : UserInv(v)'
    <2>1. UserInv(u)'
        BY <1>1, <1>2, <1>3 DEF NoteTypes, UserInv
    <2>2. ASSUME NEW v \in Subscribers, v # u PROVE UserInv(v)'
        BY <1>2, <1>3, <2>2 DEF NoteTypes, UserInv
    <2>3. QED
        BY <2>1, <2>2
<1>7. ASSUME NEW b \in Broadcasts PROVE RoundInv(b)'
    <2>1. broadcasts[b] \in Rounds /\ RoundInv(b)
        BY DEF NoteTypes
    <2>2. \A r \in Addressees : settled'[r.userId] # NoRecord => settled[r.userId] # NoRecord
        BY <1>2, AddresseeFields DEF NoteTypes
    <2>3. broadcasts[b].pc = "Send" =>
          \A r \in broadcasts[b].recipients :
              /\ settled'[r.userId] # NoRecord => r.record.token = device[r.userId]
              /\ r.userId \notin broadcasts[b].without
        BY <2>1, <2>2, RoundFields DEF RoundInv
    <2>4. broadcasts[b].pc = "Remove" => \A r \in broadcasts[b].stale : settled'[r.userId] = NoRecord
        BY <2>1, <2>2, RoundFields DEF RoundInv
    <2>5. broadcasts[b].pc \in {"Get", "Send"} =>
          \A v \in broadcasts[b].without :
              TK[v] = NoRecord /\ \A i \in 1..Len(calls'[v]) : calls'[v][i].kind = "Unregister"
        BY <1>1, <1>3, <1>4, <2>1, RoundFields DEF RoundInv
    <2>6. QED
        BY <1>2, <2>3, <2>4, <2>5 DEF RoundInv
<1>8. QED
    BY <1>5, <1>6, <1>7

\* A step that changes neither what is stored nor what is settled, and of the
\* requests only where they are, keeps the invariant of every user and broadcast.
LEMMA AdvanceInv ==
    ASSUME NoteInv, NEW u \in Subscribers, NEW i \in DOMAIN calls[u],
           NEW pc \in {"Get", "Leave", "Write"}, NEW old \in UserRecords \cup {NoRecord},
           Advance(u, i, pc, old), CK' \in [Nations -> SUBSET Subscribers],
           \A c \in Nations : CK[c] \ {u} \subseteq CK'[c],
           UNCHANGED <<TK, device, broadcasts, settled, left>>
    PROVE  NoteInv'
<1> USE DEF NoteInv
<1>1. calls \in [Subscribers -> Seq(AppCalls)]
    BY DEF NoteTypes
<1>2. /\ calls' \in [Subscribers -> Seq(AppCalls)]
      /\ \A v \in Subscribers : Len(calls'[v]) = Len(calls[v])
      /\ \A v \in Subscribers : calls[v] = <<>> => calls'[v] = <<>>
      /\ \A v \in Subscribers : \A j \in 1..Len(calls[v]) :
             /\ calls'[v][j].kind = calls[v][j].kind
             /\ calls'[v][j].alone = calls[v][j].alone
             /\ calls[v][j].kind = "Register" => calls'[v][j].record = calls[v][j].record
    BY <1>1, AdvanceKeepsCalls
<1>3. NoteTypes'
    BY <1>2 DEF NoteTypes
<1>4. ASSUME NEW v \in Subscribers PROVE UserInv(v)'
    <2>1. UserInv(v)
        OBVIOUS
    <2>2. Len(calls'[v]) = 1 /\ calls'[v][1].alone /\ calls'[v][1].kind = "Register" =>
              calls'[v][1].record.token = device'[v]
        BY <1>2, <2>1 DEF UserInv
    <2>3. settled[v] # NoRecord => v # u
        BY <2>1, <1>1 DEF UserInv
    <2>4. settled'[v] # NoRecord =>
             /\ calls'[v] = <<>> /\ TK'[v] = settled'[v]
             /\ v \in CK'[settled'[v].country] /\ settled'[v].token = device'[v]
        <3>1. settled[v] # NoRecord => settled[v].country \in Nations
            BY DEF NoteTypes, UserRecords
        <3>2. QED
            BY <1>2, <2>1, <2>3, <3>1 DEF UserInv
    <2>5. v \in left' => calls'[v] = <<>> /\ TK'[v] = NoRecord
        BY <1>2, <2>1 DEF UserInv
    <2>6. QED
        BY <2>2, <2>4, <2>5 DEF UserInv
<1>5. ASSUME NEW b \in Broadcasts PROVE RoundInv(b)'
    <2>1. broadcasts[b] \in Rounds /\ RoundInv(b)
        BY DEF NoteTypes
    <2>2. broadcasts[b].pc \in {"Get", "Send"} =>
             \A v \in broadcasts[b].without :
                 TK[v] = NoRecord /\ \A j \in 1..Len(calls'[v]) : calls'[v][j].kind = "Unregister"
        BY <1>2, <2>1, RoundFields DEF RoundInv
    <2>3. QED
        BY <2>1, <2>2 DEF RoundInv
<1>6. QED
    BY <1>3, <1>4, <1>5

\* get: what is read is a record or none.
LEMMA ReadRecordInv ==
    ASSUME NoteInv, NEW u \in Subscribers, NEW i \in DOMAIN calls[u], ReadRecord(u, i)
    PROVE  NoteInv'
<1>1. PICK pc \in {"Leave", "Write"} : Advance(u, i, pc, TK[u])
    BY DEF ReadRecord
<1>2. TK[u] \in UserRecords \cup {NoRecord}
    BY DEF NoteInv, NoteTypes
<1>3. /\ UNCHANGED <<TK, CK, device, broadcasts, settled, left>>
      /\ CK \in [Nations -> SUBSET Subscribers]
    BY DEF ReadRecord, NoteInv, NoteTypes
<1>4. QED
    BY <1>1, <1>2, <1>3, AdvanceInv

\* srem takes from the countries none but the caller, who is not settled.
LEMMA LeaveCountryInv ==
    ASSUME NoteInv, NEW u \in Subscribers, NEW i \in DOMAIN calls[u], LeaveCountry(u, i)
    PROVE  NoteInv'
<1>1. Advance(u, i, "Write", calls[u][i].old) /\ UNCHANGED <<TK, device, broadcasts, settled, left>>
    BY DEF LeaveCountry
<1>2. calls[u][i] \in AppCalls
    BY DEF NoteInv, NoteTypes
<1>3. calls[u][i].old \in UserRecords \cup {NoRecord}
    BY <1>2, AppCallFields
<1>4. /\ CK' \in [Nations -> SUBSET Subscribers]
      /\ \A c \in Nations : CK[c] \ {u} \subseteq CK'[c]
    BY DEF LeaveCountry, NoteInv, NoteTypes
<1>5. QED
    BY <1>1, <1>3, <1>4, AdvanceInv

\* set and sadd: a registration that no other call and no broadcast overtakes is in
\* Redis, with the device's token, and then settled. (registerToken)
LEMMA registerTokenInv ==
    ASSUME NoteInv, NEW u \in Subscribers, NEW i \in DOMAIN calls[u], registerToken(u, i)
    PROVE  NoteInv'
<1> USE DEF NoteInv
<1> DEFINE call == calls[u][i]
           record == call.record
<1>1. /\ calls \in [Subscribers -> Seq(AppCalls)] /\ calls[u] \in Seq(AppCalls)
      /\ i \in 1..Len(calls[u]) /\ calls[u] # <<>> /\ call \in AppCalls
    BY DEF NoteTypes
<1>2. /\ calls' \in [Subscribers -> Seq(AppCalls)]
      /\ \A v \in Subscribers : v # u => calls'[v] = calls[v]
      /\ Len(calls[u]) = 1 => calls'[u] = <<>>
      /\ \A j \in 1..Len(calls'[u]) :
             /\ calls'[u][j].alone = FALSE
             /\ \E k \in 1..Len(calls[u]) : calls'[u][j].kind = calls[u][k].kind
    BY <1>1, FinishedKeepsCalls DEF registerToken
<1>3. call.kind = "Register" /\ record \in UserRecords /\ record.country \in Nations
    BY <1>1, AppCallFields DEF registerToken, UserRecords
<1>4. settled[u] = NoRecord /\ u \notin left
    BY <1>1 DEF UserInv
<1>5. \A b \in Broadcasts : broadcasts[b].pc \in {"Get", "Send"} => u \notin broadcasts[b].without
    BY <1>1, <1>3 DEF RoundInv
<1>6. Alone(u, i) => i = 1 /\ Len(calls[u]) = 1 /\ record.token = device[u]
    <2>1. Alone(u, i) => Len(calls[u]) = 1 /\ i = 1 /\ calls[u][1].alone
        BY <1>1 DEF Alone
    <2>2. QED
        BY <1>3, <2>1 DEF UserInv
<1>7. /\ TK' = [TK EXCEPT ![u] = record]
      /\ CK' = [CK EXCEPT ![record.country] = CK[record.country] \cup {u}]
      /\ settled' = IF Alone(u, i) /\ ~Overtaken(u) THEN [settled EXCEPT ![u] = record] ELSE settled
      /\ UNCHANGED <<device, broadcasts, left>>
    BY DEF registerToken
<1> HIDE DEF call, record
<1>8. NoteTypes'
    BY <1>2, <1>3, <1>7 DEF NoteTypes
<1>9. TK'[u] = record /\ (\A c \in Nations : CK[c] \subseteq CK'[c]) /\ u \in CK'[record.country]
    BY <1>3, <1>7 DEF NoteTypes
<1>10. \A v \in Subscribers : v # u => TK'[v] = TK[v] /\ settled'[v] = settled[v]
    BY <1>7 DEF NoteTypes
<1>11. settled'[u] # NoRecord => Alone(u, i) /\ ~Overtaken(u) /\ settled'[u] = record
    BY <1>4, <1>7 DEF NoteTypes
<1>12. \A v \in Subscribers : UserInv(v)'
    <2>1. UserInv(u)'
        <3>1. Len(calls'[u]) = 1 => ~calls'[u][1].alone
            BY <1>2
        <3>2. settled'[u] # NoRecord =>
                 /\ calls'[u] = <<>> /\ TK'[u] = settled'[u]
                 /\ u \in CK'[settled'[u].country] /\ settled'[u].token = device'[u]
            BY <1>2, <1>6, <1>7, <1>9, <1>11
        <3>3. u \notin left'
            BY <1>4, <1>7
        <3>4. QED
            BY <3>1, <3>2, <3>3 DEF UserInv
    <2>2. ASSUME NEW v \in Subscribers, v # u PROVE UserInv(v)'
        <3>1. UserInv(v) /\ calls'[v] = calls[v] /\ TK'[v] = TK[v] /\ settled'[v] = settled[v]
            BY <1>2, <1>10, <2>2
        <3>2. settled[v] # NoRecord => settled[v].country \in Nations
            BY DEF NoteTypes, UserRecords
        <3>3. QED
            BY <1>7, <1>9, <3>1, <3>2 DEF UserInv
    <2>3. QED
        BY <2>1, <2>2
<1>13. ASSUME NEW b \in Broadcasts PROVE RoundInv(b)'
    <2>1. broadcasts[b] \in Rounds /\ RoundInv(b)
        BY DEF NoteTypes
    <2>2. broadcasts[b].pc \in InFlight => \A v \in Subscribers : settled'[v] # NoRecord => settled[v] # NoRecord
        BY <1>10, <1>11 DEF Overtaken
    <2>3. broadcasts[b].pc = "Send" =>
          \A r \in broadcasts[b].recipients :
              /\ settled'[r.userId] # NoRecord => r.record.token = device[r.userId]
              /\ r.userId \notin broadcasts[b].without
        BY <2>1, <2>2, RoundFields, AddresseeFields DEF RoundInv, InFlight
    <2>4. broadcasts[b].pc = "Remove" => \A r \in broadcasts[b].stale : settled'[r.userId] = NoRecord
        BY <2>1, <2>2, RoundFields, AddresseeFields DEF RoundInv, InFlight
    <2>5. broadcasts[b].pc \in {"Get", "Send"} =>
          \A v \in broadcasts[b].without :
              TK'[v] = NoRecord /\ \A j \in 1..Len(calls'[v]) : calls'[v][j].kind = "Unregister"
        <3> SUFFICES ASSUME broadcasts[b].pc \in {"Get", "Send"}, NEW v \in broadcasts[b].without
                     PROVE  TK'[v] = NoRecord /\ \A j \in 1..Len(calls'[v]) : calls'[v][j].kind = "Unregister"
            OBVIOUS
        <3>1. v \in Subscribers /\ v # u
            BY <1>5, <2>1, RoundFields
        <3>2. TK[v] = NoRecord /\ \A j \in 1..Len(calls[v]) : calls[v][j].kind = "Unregister"
            BY <2>1 DEF RoundInv
        <3>3. QED
            BY <1>2, <1>10, <3>1, <3>2
    <2>6. QED
        BY <1>7, <2>3, <2>4, <2>5 DEF RoundInv
<1>14. QED
    BY <1>8, <1>12, <1>13

\* del: whoever ends the only call of theirs with it has left. (unregisterToken)
LEMMA unregisterTokenInv ==
    ASSUME NoteInv, NEW u \in Subscribers, NEW i \in DOMAIN calls[u], unregisterToken(u, i)
    PROVE  NoteInv'
<1> USE DEF NoteInv
<1>1. /\ calls \in [Subscribers -> Seq(AppCalls)] /\ calls[u] \in Seq(AppCalls)
      /\ i \in 1..Len(calls[u]) /\ calls[u] # <<>>
    BY DEF NoteTypes
<1>2. /\ calls' \in [Subscribers -> Seq(AppCalls)]
      /\ \A v \in Subscribers : v # u => calls'[v] = calls[v]
      /\ Len(calls[u]) = 1 => calls'[u] = <<>>
      /\ \A j \in 1..Len(calls'[u]) :
             /\ calls'[u][j].alone = FALSE
             /\ \E k \in 1..Len(calls[u]) : calls'[u][j].kind = calls[u][k].kind
    BY <1>1, FinishedKeepsCalls DEF unregisterToken
<1>3. settled[u] = NoRecord /\ u \notin left
    BY <1>1 DEF UserInv
<1>4. /\ TK' = [TK EXCEPT ![u] = NoRecord]
      /\ left' = IF Alone(u, i) THEN left \cup {u} ELSE left
      /\ UNCHANGED <<CK, device, broadcasts, settled>>
    BY DEF unregisterToken
<1>5. TK'[u] = NoRecord /\ (\A v \in Subscribers : v # u => TK'[v] = TK[v])
    BY <1>4 DEF NoteTypes
<1>6. NoteTypes'
    BY <1>2, <1>4 DEF NoteTypes
<1>7. \A v \in Subscribers : UserInv(v)'
    <2>1. UserInv(u)'
        <3>1. Len(calls'[u]) = 1 => ~calls'[u][1].alone
            BY <1>2
        <3>2. u \in left' => calls'[u] = <<>>
            BY <1>2, <1>3, <1>4 DEF Alone
        <3>3. QED
            BY <1>3, <1>4, <1>5, <3>1, <3>2 DEF UserInv
    <2>2. ASSUME NEW v \in Subscribers, v # u PROVE UserInv(v)'
        BY <1>2, <1>4, <1>5, <2>2 DEF UserInv
    <2>3. QED
        BY <2>1, <2>2
<1>8. ASSUME NEW b \in Broadcasts PROVE RoundInv(b)'
    <2>1. broadcasts[b] \in Rounds /\ RoundInv(b)
        BY DEF NoteTypes
    <2>2. broadcasts[b].pc \in {"Get", "Send"} =>
          \A v \in broadcasts[b].without :
              TK'[v] = NoRecord /\ \A j \in 1..Len(calls'[v]) : calls'[v][j].kind = "Unregister"
        BY <1>2, <1>5, <2>1, RoundFields DEF RoundInv
    <2>3. QED
        BY <1>4, <2>1, <2>2 DEF RoundInv
<1>9. QED
    BY <1>6, <1>7, <1>8

\* smembers: a broadcast begins knowing nobody's token. (broadcast)
LEMMA BroadcastInv ==
    ASSUME NoteInv, NEW b \in Broadcasts, NEW c \in Nations, Broadcast(b, c)
    PROVE  NoteInv'
<1> USE DEF NoteInv
<1> DEFINE new == IF CK[c] = {} THEN [pc |-> "Sent"]
                  ELSE [pc |-> "Get", userIds |-> CK[c], recipients |-> {}, without |-> left]
<1>1. broadcasts' = [broadcasts EXCEPT ![b] = new] /\ UNCHANGED <<TK, CK, device, calls, settled, left>>
    BY DEF Broadcast
<1>2. new \in Rounds /\ new.pc \in {"Get", "Sent"} /\ (new.pc = "Get" => new.without = left)
    BY DEF NoteTypes, Rounds
<1> HIDE DEF new
<1>3. NoteTypes'
    BY <1>1, <1>2 DEF NoteTypes
<1>4. \A v \in Subscribers : UserInv(v)'
    BY <1>1 DEF UserInv
<1>5. \A v \in left : TK[v] = NoRecord /\ \A j \in 1..Len(calls[v]) : calls[v][j].kind = "Unregister"
    BY DEF UserInv, NoteTypes
<1>6. ASSUME NEW d \in Broadcasts PROVE RoundInv(d)'
    <2>1. CASE d = b
        <3>1. broadcasts'[d] = new
            BY <1>1, <2>1 DEF NoteTypes
        <3>2. QED
            BY <1>1, <1>2, <1>5, <3>1 DEF RoundInv
    <2>2. CASE d # b
        <3>1. broadcasts'[d] = broadcasts[d] /\ RoundInv(d)
            BY <1>1, <2>2 DEF NoteTypes
        <3>2. QED
            BY <1>1, <3>1 DEF RoundInv
    <2>3. QED
        BY <2>1, <2>2
<1>7. QED
    BY <1>3, <1>4, <1>6

\* The gets find whoever is settled under the device's token, and no record of
\* whoever had left. (broadcast)
LEMMA ReadRecipientsInv ==
    ASSUME NoteInv, NEW b \in Broadcasts, ReadRecipients(b)
    PROVE  NoteInv'
<1> USE DEF NoteInv
<1> DEFINE new == [[broadcasts[b] EXCEPT !.recipients = Recipients(b)]
                      EXCEPT !.pc = IF Recipients(b) = {} THEN "Sent" ELSE "Send"]
<1>1. UNCHANGED <<TK, CK, device, calls, settled, left>> /\ broadcasts[b].pc = "Get"
    BY DEF ReadRecipients
<1>2. broadcasts[b] \in Rounds /\ broadcasts[b].userIds \subseteq Subscribers /\ b \in DOMAIN broadcasts
    BY <1>1, RoundFields DEF NoteTypes
<1>3. broadcasts' = [broadcasts EXCEPT ![b] = new]
    BY <1>2 DEF ReadRecipients
<1>4. \A r \in Recipients(b) :
         /\ r.userId \in Subscribers /\ r.record = TK[r.userId] /\ TK[r.userId] # NoRecord
         /\ r \in Addressees
    <2>1. ASSUME NEW v \in broadcasts[b].userIds, TK[v] # NoRecord
          PROVE  [userId |-> v, record |-> TK[v]] \in Addressees
        BY <1>2, <2>1 DEF Addressees, NoteTypes
    <2>2. QED
        BY <1>2, <2>1 DEF Recipients
<1>5. Recipients(b) \subseteq Addressees
    BY <1>4
<1>6. /\ new \in Rounds /\ new.pc \in {"Send", "Sent"}
      /\ new.recipients = Recipients(b) /\ new.without = broadcasts[b].without
    BY <1>1, <1>2, <1>5 DEF Rounds
<1> HIDE DEF new
<1>7. NoteTypes'
    BY <1>1, <1>3, <1>6 DEF NoteTypes
<1>8. \A v \in Subscribers : UserInv(v)'
    BY <1>1 DEF UserInv
<1>9. ASSUME NEW d \in Broadcasts PROVE RoundInv(d)'
    <2>1. CASE d = b
        <3>1. broadcasts'[d] = new /\ RoundInv(b)
            BY <1>3, <2>1 DEF NoteTypes
        <3>2. \A v \in broadcasts[b].without :
                 TK[v] = NoRecord /\ \A j \in 1..Len(calls[v]) : calls[v][j].kind = "Unregister"
            BY <1>1, <3>1 DEF RoundInv
        <3>3. \A r \in Recipients(b) :
                 /\ settled[r.userId] # NoRecord => r.record.token = device[r.userId]
                 /\ r.userId \notin broadcasts[b].without
            BY <1>4, <3>2 DEF UserInv
        <3>4. QED
            BY <1>1, <1>6, <3>1, <3>2, <3>3 DEF RoundInv
    <2>2. CASE d # b
        <3>1. broadcasts'[d] = broadcasts[d] /\ RoundInv(d)
            BY <1>3, <2>2 DEF NoteTypes
        <3>2. QED
            BY <1>1, <3>1 DEF RoundInv
    <2>3. QED
        BY <2>1, <2>2
<1>10. QED
    BY <1>7, <1>8, <1>9

\* Of the messages that fail, those to be cleaned up went to a token the push
\* service knows no more, so to nobody who is settled. (broadcast)
LEMMA SendInv ==
    ASSUME NoteInv, NEW b \in Broadcasts, Send(b)
    PROVE  NoteInv'
<1> USE DEF NoteInv
<1>1. UNCHANGED <<TK, CK, device, calls, settled, left>> /\ broadcasts[b].pc = "Send"
    BY DEF Send
<1>2. broadcasts[b] \in Rounds /\ broadcasts[b].recipients \subseteq Addressees /\ RoundInv(b)
    BY <1>1, RoundFields DEF NoteTypes
<1>3. PICK new \in Rounds :
         /\ broadcasts' = [broadcasts EXCEPT ![b] = new]
         /\ new.pc \in {"Sent", "Remove"}
         /\ new.pc = "Remove" => \A r \in new.stale : settled[r.userId] = NoRecord
    <2>1. CASE broadcasts' = [broadcasts EXCEPT ![b] = [pc |-> "Sent"]]
        <3>1. [pc |-> "Sent"] \in Rounds
            BY DEF Rounds
        <3>2. QED
            BY <2>1, <3>1
    <2>2. CASE \E failed \in SUBSET broadcasts[b].recipients :
                 LET stale == {r \in failed : IsStale(r)}
                 IN  broadcasts' = [broadcasts EXCEPT ![b] =
                         IF stale = {} THEN [pc |-> "Sent"] ELSE [pc |-> "Remove", stale |-> stale]]
        <3>1. PICK failed \in SUBSET broadcasts[b].recipients :
                 broadcasts' = [broadcasts EXCEPT ![b] =
                     IF {r \in failed : IsStale(r)} = {} THEN [pc |-> "Sent"]
                     ELSE [pc |-> "Remove", stale |-> {r \in failed : IsStale(r)}]]
            BY <2>2
        <3> DEFINE stale == {r \in failed : IsStale(r)}
                   over == IF stale = {} THEN [pc |-> "Sent"] ELSE [pc |-> "Remove", stale |-> stale]
        <3>2. stale \subseteq Addressees
            BY <1>2
        <3>3. \A r \in stale : settled[r.userId] = NoRecord
            BY <1>1, <1>2 DEF IsStale, Refused, RoundInv
        <3>4. broadcasts' = [broadcasts EXCEPT ![b] = over]
            BY <3>1
        <3> HIDE DEF stale
        <3>5. /\ over \in Rounds /\ over.pc \in {"Sent", "Remove"}
              /\ over.pc = "Remove" => over.stale = stale
            BY <3>2 DEF Rounds
        <3> HIDE DEF over
        <3>6. QED
            BY <3>3, <3>4, <3>5
    <2>3. QED
        BY <2>1, <2>2 DEF Send
<1>4. NoteTypes'
    BY <1>1, <1>3 DEF NoteTypes
<1>5. \A v \in Subscribers : UserInv(v)'
    BY <1>1 DEF UserInv
<1>6. ASSUME NEW d \in Broadcasts PROVE RoundInv(d)'
    <2>1. CASE d = b
        <3>1. broadcasts'[d] = new
            BY <1>3, <2>1 DEF NoteTypes
        <3>2. QED
            BY <1>1, <1>3, <3>1 DEF RoundInv
    <2>2. CASE d # b
        <3>1. broadcasts'[d] = broadcasts[d] /\ RoundInv(d)
            BY <1>3, <2>2 DEF NoteTypes
        <3>2. QED
            BY <1>1, <3>1 DEF RoundInv
    <2>3. QED
        BY <2>1, <2>2
<1>7. QED
    BY <1>4, <1>5, <1>6

\* del and srem of stale tokens take nobody who is settled. (broadcast)
LEMMA RemoveStaleInv ==
    ASSUME NoteInv, NEW b \in Broadcasts, RemoveStale(b)
    PROVE  NoteInv'
<1> USE DEF NoteInv
<1>1. /\ UNCHANGED <<device, calls, settled, left>> /\ broadcasts[b].pc = "Remove"
      /\ broadcasts' = [broadcasts EXCEPT ![b] = [pc |-> "Sent"]]
    BY DEF RemoveStale
<1>2. broadcasts[b].stale \subseteq Addressees /\ \A r \in broadcasts[b].stale : settled[r.userId] = NoRecord
    BY <1>1, RoundFields DEF NoteTypes, RoundInv
<1>3. \A v \in Subscribers :
         /\ TK'[v] \in {TK[v], NoRecord}
         /\ settled[v] # NoRecord => TK'[v] = TK[v]
    BY <1>2 DEF RemoveStale
<1>4. \A c \in Nations : \A v \in Subscribers :
         CK'[c] \subseteq CK[c] /\ (settled[v] # NoRecord /\ v \in CK[c] => v \in CK'[c])
    BY <1>2 DEF RemoveStale
<1>5. NoteTypes'
    <2>1. TK' \in [Subscribers -> UserRecords \cup {NoRecord}]
        <3>1. TK' = [v \in Subscribers |-> TK'[v]]
            BY DEF RemoveStale
        <3>2. QED
            BY <1>3, <3>1 DEF NoteTypes
    <2>2. CK' \in [Nations -> SUBSET Subscribers]
        BY DEF RemoveStale, NoteTypes
    <2>3. [pc |-> "Sent"] \in Rounds
        BY DEF Rounds
    <2>4. QED
        BY <1>1, <2>1, <2>2, <2>3 DEF NoteTypes
<1>6. ASSUME NEW v \in Subscribers PROVE UserInv(v)'
    <2>1. UserInv(v) /\ (settled[v] # NoRecord => settled[v].country \in Nations)
        BY DEF NoteTypes, UserRecords
    <2>2. settled[v] # NoRecord =>
             /\ calls[v] = <<>> /\ TK'[v] = settled[v]
             /\ v \in CK'[settled[v].country] /\ settled[v].token = device[v]
        BY <1>3, <1>4, <2>1 DEF UserInv
    <2>3. v \in left => calls[v] = <<>> /\ TK'[v] = NoRecord
        BY <1>3, <2>1 DEF UserInv
    <2>4. QED
        BY <1>1, <2>1, <2>2, <2>3 DEF UserInv
<1>7. ASSUME NEW d \in Broadcasts PROVE RoundInv(d)'
    <2>1. CASE d = b
        <3>1. broadcasts'[d] = [pc |-> "Sent"]
            BY <1>1, <2>1 DEF NoteTypes
        <3>2. QED
            BY <3>1 DEF RoundInv
    <2>2. CASE d # b
        <3>1. broadcasts'[d] = broadcasts[d] /\ RoundInv(d) /\ broadcasts[d] \in Rounds
            BY <1>1, <2>2 DEF NoteTypes
        <3>2. broadcasts[d].pc \in {"Get", "Send"} =>
                 \A v \in broadcasts[d].without :
                     TK'[v] = NoRecord /\ \A i \in 1..Len(calls[v]) : calls[v][i].kind = "Unregister"
            BY <1>3, <3>1, RoundFields DEF RoundInv
        <3>3. QED
            BY <1>1, <3>1, <3>2 DEF RoundInv
    <2>3. QED
        BY <2>1, <2>2
<1>8. QED
    BY <1>5, <1>6, <1>7

\* When the process dies Redis keeps what it has.
LEMMA DiesInv == ASSUME NoteInv, Dies PROVE NoteInv'
<1> USE DEF NoteInv
<1>1. /\ UNCHANGED <<TK, CK, device, settled, left>>
      /\ calls' = [u \in Subscribers |-> <<>>]
      /\ broadcasts' = [b \in Broadcasts |->
             IF broadcasts[b].pc \in InFlight THEN [pc |-> "Sent"] ELSE broadcasts[b]]
    BY DEF Dies
<1>2. [pc |-> "Sent"] \in Rounds
    BY DEF Rounds
<1>3. NoteTypes'
    BY <1>1, <1>2 DEF NoteTypes
<1>4. \A v \in Subscribers : UserInv(v)'
    BY <1>1 DEF UserInv
<1>5. \A b \in Broadcasts : broadcasts'[b].pc \notin InFlight
    BY <1>1 DEF InFlight
<1>6. \A b \in Broadcasts : RoundInv(b)'
    BY <1>5 DEF RoundInv, InFlight
<1>7. QED
    BY <1>3, <1>4, <1>6

\* The invariant of the notifications holds whatever interleaving of apps,
\* broadcasts and crashes. (NotificationService)
THEOREM NoteInvariant == NoteSpec => []NoteInv
<1>1. ASSUME NoteInv, NoteNext PROVE NoteInv'
    <2>1. CASE \E u \in Subscribers : \E c \in Nations : Register(u, c)
        BY <1>1, <2>1, RegisterInv
    <2>2. CASE \E u \in Subscribers : Unregister(u)
        BY <1>1, <2>2, UnregisterInv
    <2>3. CASE \E u \in Subscribers : \E i \in DOMAIN calls[u] : ReadRecord(u, i)
        BY <1>1, <2>3, ReadRecordInv
    <2>4. CASE \E u \in Subscribers : \E i \in DOMAIN calls[u] : LeaveCountry(u, i)
        BY <1>1, <2>4, LeaveCountryInv
    <2>5. CASE \E u \in Subscribers : \E i \in DOMAIN calls[u] : registerToken(u, i)
        BY <1>1, <2>5, registerTokenInv
    <2>6. CASE \E u \in Subscribers : \E i \in DOMAIN calls[u] : unregisterToken(u, i)
        BY <1>1, <2>6, unregisterTokenInv
    <2>7. CASE \E b \in Broadcasts : \E c \in Nations : Broadcast(b, c)
        BY <1>1, <2>7, BroadcastInv
    <2>8. CASE \E b \in Broadcasts : ReadRecipients(b)
        BY <1>1, <2>8, ReadRecipientsInv
    <2>9. CASE \E b \in Broadcasts : Send(b)
        BY <1>1, <2>9, SendInv
    <2>10. CASE \E b \in Broadcasts : RemoveStale(b)
        BY <1>1, <2>10, RemoveStaleInv
    <2>11. CASE Dies
        BY <1>1, <2>11, DiesInv
    <2>12. QED
        BY <1>1, <2>1, <2>2, <2>3, <2>4, <2>5, <2>6, <2>7, <2>8, <2>9, <2>10, <2>11 DEF NoteNext
<1>2. ASSUME NoteInv, UNCHANGED noteVars PROVE NoteInv'
    BY <1>2 DEF NoteInv, NoteTypes, UserInv, RoundInv, noteVars
<1>3. QED
    BY <1>1, <1>2, NoteInitInv, PTL DEF NoteSpec

\* A device that registered, and asked for nothing since, is in Redis under its
\* country, whatever broadcasts clean up; and who unregistered is not among those a
\* later broadcast sends to. (registerToken, unregisterToken, broadcast)
THEOREM BroadcastsReachWhomTheyShould == NoteSpec => []BroadcastsSafe
<1>1. NoteInv => BroadcastsSafe
    <2> SUFFICES ASSUME NoteInv PROVE BroadcastsSafe
        OBVIOUS
    <2>1. RegisteredIsReached
        BY DEF NoteInv, UserInv, RegisteredIsReached
    <2>2. LeftInPeace
        BY DEF NoteInv, RoundInv, LeftInPeace
    <2>3. QED
        BY <2>1, <2>2 DEF BroadcastsSafe
<1>2. QED
    BY <1>1, NoteInvariant, PTL

-----------------------------------------------------------------------------
(* The pause guardian: the invariant *)

\* What is inductive: the two safety invariants, with the strengthening that the
\* sets of approvals are finite, so that one more approval is one more element.
GuardianInv ==
    /\ TypeOK
    /\ \A i \in Ids : IsFiniteSet(approved[i])
    /\ ThresholdOfDistinctAccounts
    /\ SwitchFollowsProposals

-----------------------------------------------------------------------------
(* The executed proposals *)

\* Ids are finitely many, and so are the executed ones of either kind.
LEMMA ExecutedFinite ==
    ASSUME NEW k \in BOOLEAN
    PROVE  IsFiniteSet(Executed(k)) /\ Cardinality(Executed(k)) \in Nat
<1>1. IsFiniteSet(Ids)
    BY MaxProposalsAssumption, FS_Interval DEF Ids
<1>2. Executed(k) \in SUBSET Ids
    BY DEF Executed
<1>3. QED
    BY <1>1, <1>2, FS_Subset, FS_CardinalityType

\* Executing a proposal adds it to the executed ones of its kind, once, and
\* leaves those of the other kind alone.
LEMMA OneMoreExecuted ==
    ASSUME TypeOK, NEW k \in BOOLEAN, NEW m \in BOOLEAN, k # m, NEW i \in Ids,
           ~executed[i], isPause[i] = k,
           executed' = [executed EXCEPT ![i] = TRUE], isPause' = isPause
    PROVE  /\ Cardinality(Executed(k)') = Cardinality(Executed(k)) + 1
           /\ Cardinality(Executed(m)') = Cardinality(Executed(m))
<1>1. i \notin Executed(k)
    BY DEF Executed
<1>2. \A j \in Ids : executed'[j] <=> executed[j] \/ j = i
    BY DEF TypeOK
<1>3. Executed(k)' = Executed(k) \cup {i}
    BY <1>2 DEF Executed
<1>4. Executed(m)' = Executed(m)
    BY <1>2 DEF Executed
<1>5. QED
    BY <1>1, <1>3, <1>4, ExecutedFinite, FS_AddElement

\* A step that neither executes a proposal nor changes the kind of an executed
\* one keeps both sets.
LEMMA SameExecuted ==
    ASSUME executed' = executed,
           \A i \in Ids : executed[i] => isPause'[i] = isPause[i],
           NEW k \in BOOLEAN
    PROVE  Executed(k)' = Executed(k)
BY DEF Executed

-----------------------------------------------------------------------------
(* Types *)

LEMMA TypeCorrectInit == Init => TypeOK
<1> SUFFICES ASSUME Init PROVE TypeOK
    OBVIOUS
<1>1. guardians \subseteq Accounts /\ proposalCount \in 0 .. MaxProposals
    BY MaxProposalsAssumption DEF Init
<1>2. /\ isPause \in [Ids -> BOOLEAN] /\ executed \in [Ids -> BOOLEAN]
      /\ approvals \in [Ids -> Nat]
      /\ approved \in [Ids -> SUBSET Accounts] /\ cosigned \in [Ids -> SUBSET Accounts]
    BY DEF Init
<1>3. targetOwner \in Operators \cup {Guardian} /\ paused \in BOOLEAN
      /\ inherited \in BOOLEAN
    BY OwnerAssumption DEF Init
<1>4. QED
    BY <1>1, <1>2, <1>3 DEF TypeOK

\* What _approve does to the types, in whatever function it is called.
LEMMA ApproveTyped ==
    ASSUME TypeOK, NEW g \in Accounts, NEW i \in Ids, Approve(g, i)
    PROVE  approvals' \in [Ids -> Nat] /\ approved' \in [Ids -> SUBSET Accounts]
BY DEF TypeOK, Approve

\* The type invariant of the guardian: every function leaves the counters natural
\* numbers, the approvals sets of accounts and the flags Booleans.
THEOREM GuardianTypeCorrect == Spec => []TypeOK
<1>1. TypeOK /\ [Next]_vars => TypeOK'
    <2> SUFFICES ASSUME TypeOK, [Next]_vars PROVE TypeOK'
        OBVIOUS
    <2>0. ASSUME NEW g \in Accounts, NEW pause \in BOOLEAN, Propose(g, pause),
                 cosigned' \in [Ids -> SUBSET Accounts]
          PROVE  TypeOK'
        <3>1. proposalCount \in Ids /\ proposalCount' \in 0 .. MaxProposals
            BY <2>0, MaxProposalsAssumption DEF TypeOK, Propose, Ids
        <3>2. isPause' \in [Ids -> BOOLEAN]
            BY <2>0 DEF TypeOK, Propose
        <3>3. QED
            BY <2>0, <3>1, <3>2, ApproveTyped DEF TypeOK, Propose, targetVars
    <2>1. ASSUME NEW g \in Accounts, ProposePause(g) PROVE TypeOK'
        BY <2>0, <2>1 DEF ProposePause, TypeOK
    <2>2. ASSUME NEW g \in Accounts, ProposeUnpause(g) PROVE TypeOK'
        BY <2>0, <2>2 DEF ProposeUnpause, TypeOK
    <2>3. ASSUME NEW g \in Accounts, NEW i \in Ids, ApprovePause(g, i) PROVE TypeOK'
        BY <2>3, ApproveTyped DEF ApprovePause, TypeOK, targetVars
    <2>4. ASSUME NEW g \in Accounts, NEW i \in Ids, ApproveUnpause(g, i) PROVE TypeOK'
        BY <2>4, ApproveTyped DEF ApproveUnpause, TypeOK, targetVars
    <2>5. ASSUME NEW g \in Accounts, NEW i \in Ids, ExecutePause(g, i) PROVE TypeOK'
        BY <2>5 DEF ExecutePause, TypeOK
    <2>6. ASSUME NEW g \in Accounts, NEW i \in Ids, ExecuteUnpause(g, i) PROVE TypeOK'
        BY <2>6 DEF ExecuteUnpause, TypeOK
    <2>7. ASSUME NEW g \in Accounts, GrantRole(g) \/ RevokeRole(g) PROVE TypeOK'
        BY <2>7 DEF GrantRole, RevokeRole, TypeOK, proposalVars, targetVars
    <2>8. ASSUME NEW to \in Operators \cup {Guardian}, TransferTarget(to) PROVE TypeOK'
        BY <2>8 DEF TransferTarget, TypeOK, proposalVars
    <2>9. ASSUME OwnerSwitches PROVE TypeOK'
        BY <2>9 DEF OwnerSwitches, TypeOK, proposalVars
    <2>10. ASSUME UNCHANGED vars PROVE TypeOK'
        BY <2>10 DEF vars, TypeOK
    <2>11. QED
        BY <2>1, <2>2, <2>3, <2>4, <2>5, <2>6, <2>7, <2>8, <2>9, <2>10 DEF Next
<1>2. QED
    BY <1>1, TypeCorrectInit, PTL DEF Spec

-----------------------------------------------------------------------------
(* Safety *)

\* _approve keeps the counter the number of approving accounts, because it refuses
\* an account that is in the set, and touches no executed proposal.
LEMMA ApproveCounts ==
    ASSUME GuardianInv, NEW g \in Accounts, NEW i \in Ids, Approve(g, i),
           executed' = executed
    PROVE  /\ \A j \in Ids : IsFiniteSet(approved'[j])
           /\ ThresholdOfDistinctAccounts'
<1> USE DEF GuardianInv
<1>1. /\ approved' = [approved EXCEPT ![i] = approved[i] \cup {g}]
      /\ approvals' = [approvals EXCEPT ![i] = approvals[i] + 1]
      /\ g \notin approved[i] /\ ~executed[i]
    BY DEF Approve
<1>2. \A j \in Ids : j # i => approved'[j] = approved[j] /\ approvals'[j] = approvals[j]
    BY <1>1 DEF TypeOK
<1>3. approved'[i] = approved[i] \cup {g} /\ approvals'[i] = approvals[i] + 1
    BY <1>1 DEF TypeOK
<1>4. /\ IsFiniteSet(approved'[i])
      /\ Cardinality(approved'[i]) = Cardinality(approved[i]) + 1
    <2>1. IsFiniteSet(approved[i]) /\ g \notin approved[i]
        BY <1>1
    <2>2. /\ IsFiniteSet(approved[i] \cup {g})
          /\ Cardinality(approved[i] \cup {g}) = Cardinality(approved[i]) + 1
        BY ONLY <2>1, FS_AddElement
    <2>3. QED
        BY <1>3, <2>2
<1>5. \A j \in Ids : IsFiniteSet(approved'[j])
    BY <1>2, <1>4
<1>6. ThresholdOfDistinctAccounts'
    BY <1>1, <1>2, <1>3, <1>4 DEF ThresholdOfDistinctAccounts
<1>7. QED
    BY <1>5, <1>6

\* A step that moves neither the switch nor its owner, executes nothing and leaves
\* the kind of executed proposals alone keeps SwitchFollowsProposals.
LEMMA SwitchUntouched ==
    ASSUME SwitchFollowsProposals, UNCHANGED <<executed, targetVars>>,
           \A i \in Ids : executed[i] => isPause'[i] = isPause[i]
    PROVE  SwitchFollowsProposals'
BY SameExecuted DEF SwitchFollowsProposals, targetVars

\* One more executed pause moves the switch from off to on, one more executed
\* unpause from on to off, and the difference with it.
LEMMA SwitchMoves ==
    ASSUME SwitchFollowsProposals, targetOwner = Guardian, targetOwner' = Guardian,
           inherited \in BOOLEAN, inherited' = inherited,
           \/ /\ ~paused /\ paused \in BOOLEAN /\ paused' = TRUE
              /\ Cardinality(Executed(TRUE)') = Cardinality(Executed(TRUE)) + 1
              /\ Cardinality(Executed(FALSE)') = Cardinality(Executed(FALSE))
           \/ /\ paused /\ paused \in BOOLEAN /\ paused' = FALSE
              /\ Cardinality(Executed(FALSE)') = Cardinality(Executed(FALSE)) + 1
              /\ Cardinality(Executed(TRUE)') = Cardinality(Executed(TRUE))
    PROVE  SwitchFollowsProposals'
<1> DEFINE t == Cardinality(Executed(TRUE))
           f == Cardinality(Executed(FALSE))
<1>1. t \in Nat /\ f \in Nat
    BY ExecutedFinite
<1>2. t - f = IF paused # inherited THEN IF paused THEN 1 ELSE -1 ELSE 0
    BY DEF SwitchFollowsProposals
<1>3. SwitchFollowsProposals' <=>
          t' - f' = IF paused' # inherited THEN IF paused' THEN 1 ELSE -1 ELSE 0
    BY DEF SwitchFollowsProposals
<1> HIDE DEF t, f
<1>4. CASE paused = FALSE /\ paused' = TRUE /\ t' = t + 1 /\ f' = f
    <2>1. CASE inherited = TRUE
        <3>1. t - f = -1
            BY <1>2, <1>4, <2>1
        <3>2. t' - f' = 0
            BY <1>1, <1>4, <3>1
        <3>3. QED
            BY <1>3, <1>4, <2>1, <3>2
    <2>2. CASE inherited = FALSE
        <3>1. t - f = 0
            BY <1>2, <1>4, <2>2
        <3>2. t' - f' = 1
            BY <1>1, <1>4, <3>1
        <3>3. QED
            BY <1>3, <1>4, <2>2, <3>2
    <2>3. QED
        BY <2>1, <2>2
<1>5. CASE paused = TRUE /\ paused' = FALSE /\ f' = f + 1 /\ t' = t
    <2>1. CASE inherited = TRUE
        <3>1. t - f = 0
            BY <1>2, <1>5, <2>1
        <3>2. t' - f' = -1
            BY <1>1, <1>5, <3>1
        <3>3. QED
            BY <1>3, <1>5, <2>1, <3>2
    <2>2. CASE inherited = FALSE
        <3>1. t - f = 1
            BY <1>2, <1>5, <2>2
        <3>2. t' - f' = 0
            BY <1>1, <1>5, <3>1
        <3>3. QED
            BY <1>3, <1>5, <2>2, <3>2
    <2>3. QED
        BY <2>1, <2>2
<1>6. QED
    BY <1>4, <1>5 DEF t, f

\* The invariant is inductive.
THEOREM GuardianInvariant == Spec => []GuardianInv
<1>1. Init => GuardianInv
    <2> SUFFICES ASSUME Init PROVE GuardianInv
        OBVIOUS
    <2>1. \A k \in BOOLEAN : Executed(k) = {}
        BY DEF Init, Executed
    <2>2. \A i \in Ids : approved[i] = {} /\ approvals[i] = 0 /\ ~executed[i]
        BY DEF Init
    <2>3. SwitchFollowsProposals
        <3> DEFINE t == Cardinality(Executed(TRUE))
                   f == Cardinality(Executed(FALSE))
        <3>1. t = 0 /\ f = 0
            BY <2>1, FS_EmptySet
        <3>2. paused = inherited
            BY DEF Init
        <3>3. SwitchFollowsProposals <=>
                  t - f = IF targetOwner = Guardian /\ paused # inherited
                          THEN IF paused THEN 1 ELSE -1 ELSE 0
            BY DEF SwitchFollowsProposals
        <3> HIDE DEF t, f
        <3>4. t - f = 0
            BY <3>1
        <3>5. QED
            BY <3>2, <3>3, <3>4
    <2>4. QED
        BY <2>2, <2>3, TypeCorrectInit, FS_EmptySet
        DEF GuardianInv, ThresholdOfDistinctAccounts
<1>2. GuardianInv /\ TypeOK' /\ [Next]_vars => GuardianInv'
    <2> SUFFICES ASSUME GuardianInv, TypeOK', [Next]_vars PROVE GuardianInv'
        OBVIOUS
    <2> USE DEF GuardianInv
    <2>0. ASSUME NEW g \in Accounts, NEW pause \in BOOLEAN, Propose(g, pause)
          PROVE  GuardianInv'
        <3>1. /\ proposalCount \in Ids /\ Approve(g, proposalCount)
              /\ UNCHANGED <<executed, targetVars>>
              /\ ~executed[proposalCount]
              /\ isPause' = [isPause EXCEPT ![proposalCount] = pause]
            BY <2>0, MaxProposalsAssumption DEF TypeOK, Propose, Approve, Ids
        <3>2. \A i \in Ids : executed[i] => isPause'[i] = isPause[i]
            BY <3>1 DEF TypeOK
        <3>3. QED
            BY <3>1, <3>2, ApproveCounts, SwitchUntouched
    <2>1. ASSUME NEW g \in Accounts, ProposePause(g) \/ ProposeUnpause(g)
          PROVE  GuardianInv'
        BY <2>0, <2>1 DEF ProposePause, ProposeUnpause
    <2>2. ASSUME NEW g \in Accounts, NEW i \in Ids,
                 ApprovePause(g, i) \/ ApproveUnpause(g, i)
          PROVE  GuardianInv'
        <3>1. Approve(g, i) /\ UNCHANGED <<executed, isPause, targetVars>>
            BY <2>2 DEF ApprovePause, ApproveUnpause
        <3>2. QED
            BY <3>1, ApproveCounts, SwitchUntouched
    <2>3. ASSUME NEW g \in Accounts, NEW i \in Ids, ExecutePause(g, i)
          PROVE  GuardianInv'
        <3>1. ThresholdOfDistinctAccounts'
            BY <2>3 DEF ExecutePause, ThresholdOfDistinctAccounts, TypeOK
        <3>2. /\ Cardinality(Executed(TRUE)') = Cardinality(Executed(TRUE)) + 1
              /\ Cardinality(Executed(FALSE)') = Cardinality(Executed(FALSE))
            <4>1. isPause[i] = TRUE
                BY <2>3 DEF ExecutePause, TypeOK
            <4>2. QED
                BY <2>3, <4>1, OneMoreExecuted DEF ExecutePause
        <3>3. SwitchFollowsProposals'
            BY <2>3, <3>2, SwitchMoves DEF ExecutePause, TypeOK
        <3>4. QED
            BY <2>3, <3>1, <3>3 DEF ExecutePause
    <2>4. ASSUME NEW g \in Accounts, NEW i \in Ids, ExecuteUnpause(g, i)
          PROVE  GuardianInv'
        <3>1. ThresholdOfDistinctAccounts'
            BY <2>4 DEF ExecuteUnpause, ThresholdOfDistinctAccounts, TypeOK
        <3>2. /\ Cardinality(Executed(FALSE)') = Cardinality(Executed(FALSE)) + 1
              /\ Cardinality(Executed(TRUE)') = Cardinality(Executed(TRUE))
            <4>1. isPause[i] = FALSE
                BY <2>4 DEF ExecuteUnpause, TypeOK
            <4>2. QED
                BY <2>4, <4>1, OneMoreExecuted DEF ExecuteUnpause
        <3>3. SwitchFollowsProposals'
            BY <2>4, <3>2, SwitchMoves DEF ExecuteUnpause, TypeOK
        <3>4. QED
            BY <2>4, <3>1, <3>3 DEF ExecuteUnpause
    <2>5. ASSUME NEW g \in Accounts, GrantRole(g) \/ RevokeRole(g)
          PROVE  GuardianInv'
        <3>1. UNCHANGED <<proposalVars, targetVars>>
            BY <2>5 DEF GrantRole, RevokeRole
        <3>2. QED
            BY <3>1, SwitchUntouched DEF proposalVars, ThresholdOfDistinctAccounts
    <2>6. ASSUME UNCHANGED proposalVars, targetOwner # Guardian,
                 targetOwner' = Guardian => inherited' = paused'
          PROVE  GuardianInv'
        <3>1. \A k \in BOOLEAN : Executed(k)' = Executed(k)
            BY <2>6, SameExecuted DEF proposalVars
        <3>2. Cardinality(Executed(TRUE)) - Cardinality(Executed(FALSE)) = 0
            BY <2>6 DEF SwitchFollowsProposals
        <3>3. SwitchFollowsProposals'
            BY <2>6, <3>1, <3>2 DEF SwitchFollowsProposals
        <3>4. QED
            BY <2>6, <3>3 DEF proposalVars, ThresholdOfDistinctAccounts
    <2>7. ASSUME NEW to \in Operators \cup {Guardian}, TransferTarget(to)
          PROVE  GuardianInv'
        BY <2>6, <2>7, OwnerAssumption DEF TransferTarget
    <2>8. ASSUME OwnerSwitches PROVE GuardianInv'
        BY <2>6, <2>8, OwnerAssumption DEF OwnerSwitches
    <2>9. ASSUME UNCHANGED vars PROVE GuardianInv'
        BY <2>9, SwitchUntouched DEF vars, targetVars, ThresholdOfDistinctAccounts
    <2>10. QED
        BY <2>1, <2>2, <2>3, <2>4, <2>5, <2>7, <2>8, <2>9 DEF Next
<1>3. QED
    BY <1>1, <1>2, GuardianTypeCorrect, PTL DEF Spec

\* Approvals count distinct accounts and nothing is executed with fewer than the
\* threshold (PauseGuardian.sol:132-138, 85, 107); the target's switch and the
\* executed flags never part (lines 86-87, 108-109), also when ids without a
\* proposal are approved and executed.
THEOREM GuardianSafety ==
    Spec => [](ThresholdOfDistinctAccounts /\ SwitchFollowsProposals)
<1>1. GuardianInv => ThresholdOfDistinctAccounts /\ SwitchFollowsProposals
    BY DEF GuardianInv
<1>2. QED
    BY <1>1, GuardianInvariant, PTL

\* Whatever is proposed, approved and executed in whatever order, the target's pause
\* flag is what the executed proposals make it.
THEOREM SwitchIsWhatWasExecuted == Spec => []SwitchFollowsProposals
BY GuardianSafety, PTL

=============================================================================
