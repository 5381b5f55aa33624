--------------------------- MODULE CrossChainProofs ---------------------------
(***************************************************************************)
(* Proofs about the two ways to the ledger, the API relay and the L2        *)
(* chains, for any nullifiers, requests, chains and freshness window.       *)
(***************************************************************************)
EXTENDS CrossChain, FiniteSetTheorems, SequenceTheorems, TLAPS

-----------------------------------------------------------------------------
(* The invariant *)

Handlers == [pc : {"Proving", "Populating", "Sending", "Waiting"} \cup Over,
             nullifier : Nullifiers, timestamp : 0..MaxTime, nonce : Nat]

Mined == {r \in Requests : mined[r] # "None"}

\* The relay's side: every request has one transaction at most, in the mempool or
\* mined; a handler that sent one waits for it or has lost sight of it.
RelayInv ==
    /\ now \in 0..MaxTime
    /\ accepting \in BOOLEAN
    /\ requests \in [Requests -> Handlers \cup {Fresh}]
    /\ mined \in [Requests -> {"None", "Success", "Reverted"}]
    /\ mempool \in Seq(Requests)
    /\ \A i, j \in 1..Len(mempool) : mempool[i] = mempool[j] => i = j
    /\ \A i \in 1..Len(mempool) : /\ mined[mempool[i]] = "None"
                                  /\ requests[mempool[i]].pc \in {"Waiting", "Unknown"}
    /\ \A r \in Mined : requests[r].pc \in {"Waiting", "Created", "Failed", "Unknown"}
    /\ \A r \in Requests : requests[r].pc = "Created" => mined[r] = "Success"
    /\ IsFiniteSet(Mined)
    /\ nonce = Len(mempool) + Cardinality(Mined)

\* The ledger's side: an origin is counted for the nullifier it used, and the
\* nullifier of a counted vote is spent.
CountInv ==
    /\ spent \subseteq Nullifiers
    /\ counted \in [Nullifiers -> SUBSET (Requests \cup Chains)]
    /\ \A n \in Nullifiers : counted[n] = {} \/ (n \in spent /\ \E x \in Requests \cup Chains : counted[n] = {x})
    /\ \A n \in Nullifiers, r \in Requests :
           r \in counted[n] => mined[r] = "Success" /\ requests[r].nullifier = n
    /\ \A r \in Requests :
           mined[r] = "Success" => requests[r].nullifier \in Nullifiers
                                   /\ r \in counted[requests[r].nullifier]

ChainInv ==
    /\ l2Nullifiers \in [Chains -> SUBSET Nullifiers]
    /\ messages \subseteq [chain : Chains, nullifier : Nullifiers]
    /\ L2SpentIsAccounted

ChannelInv == RelayInv /\ CountInv /\ ChainInv

-----------------------------------------------------------------------------
(* What a handler's step does *)

\* A handler that has begun has a record of its own, which keeps its nullifier.
LEMMA Begun ==
    ASSUME RelayInv, NEW r \in Requests, requests[r].pc # "Fresh"
    PROVE  /\ requests[r] \in Handlers
           /\ \A pc \in {"Proving", "Populating", "Sending", "Waiting"} \cup Over :
                  LET h == [requests[r] EXCEPT !.pc = pc]
                  IN  h \in Handlers /\ h.pc = pc /\ h.nullifier = requests[r].nullifier
<1>1. requests[r] \in Handlers
    BY DEF RelayInv, Fresh
<1>2. QED
    BY <1>1 DEF Handlers

\* The wallet's transactions that are not mined are of requests without one.
LEMMA Pending ==
    ASSUME RelayInv
    PROVE  /\ Len(mempool) \in Nat
           /\ \A i \in 1..Len(mempool) : mempool[i] \in Requests
           /\ Cardinality(Mined) \in Nat
           /\ nonce \in Nat
    BY LenProperties, ElementOfSeq, FS_CardinalityType DEF RelayInv

\* A handler may move on alone if its new stage fits its transaction.
LEMMA HandlerMoves ==
    ASSUME RelayInv, CountInv,
           NEW r \in Requests, NEW h \in Handlers,
           requests' = [requests EXCEPT ![r] = h],
           UNCHANGED <<now, ledgerVars, mempool, nonce, mined>>,
           requests[r] # Fresh => h.nullifier = requests[r].nullifier,
           \/ h.pc \in {"Waiting", "Unknown"}
           \/ mined[r] # "None" /\ h.pc \in {"Created", "Failed"}
           \/ requests[r].pc \notin {"Waiting", "Created", "Failed", "Unknown"},
           h.pc = "Created" => mined[r] = "Success"
    PROVE  RelayInv' /\ CountInv'
<1>1. /\ UNCHANGED <<now, accepting, spent, counted, mempool, nonce, mined>>
      /\ Mined' = Mined
    BY DEF ledgerVars, Mined
<1>2. requests' \in [Requests -> Handlers \cup {Fresh}]
    BY DEF RelayInv
<1>3. /\ requests'[r] = h
      /\ \A q \in Requests : q # r => requests'[q] = requests[q]
    BY DEF RelayInv
<1>4. \A i \in 1..Len(mempool) : mempool[i] \in Requests
    BY Pending
<1>5. \A i \in 1..Len(mempool) : requests'[mempool[i]].pc \in {"Waiting", "Unknown"}
    BY <1>3, <1>4 DEF RelayInv
<1>6. \A q \in Mined : requests'[q].pc \in {"Waiting", "Created", "Failed", "Unknown"}
    BY <1>3 DEF RelayInv, Mined
<1>7. RelayInv'
    BY <1>1, <1>2, <1>3, <1>5, <1>6 DEF RelayInv
<1>8. mined[r] = "Success" => requests[r] # Fresh
    BY DEF RelayInv, Mined, Fresh
<1>9. CountInv'
    BY <1>1, <1>3, <1>8 DEF CountInv
<1>10. QED
    BY <1>7, <1>9

\* A handler that has not sent broadcasts its transaction and waits for it, or has
\* lost the answer.
LEMMA HandlerSends ==
    ASSUME RelayInv, CountInv,
           NEW r \in Requests, requests[r].pc = "Sending", Broadcast(r),
           NEW pc \in {"Waiting", "Unknown"}, Goto(r, pc),
           UNCHANGED <<now, ledgerVars, mined>>
    PROVE  RelayInv' /\ CountInv'
<1> DEFINE h == [requests[r] EXCEPT !.pc = pc]
<1>1. h \in Handlers /\ h.pc = pc /\ h.nullifier = requests[r].nullifier
    BY Begun DEF Over
<1>2. requests' = [requests EXCEPT ![r] = h]
    BY DEF Goto
<1> HIDE DEF h
<1>3. /\ UNCHANGED <<now, accepting, spent, counted, mined>>
      /\ Mined' = Mined
    BY DEF ledgerVars, Mined
<1>4. /\ requests' \in [Requests -> Handlers \cup {Fresh}]
      /\ requests'[r] = h
      /\ \A q \in Requests : q # r => requests'[q] = requests[q]
    BY <1>1, <1>2 DEF RelayInv
<1>5. mined[r] = "None" /\ \A i \in 1..Len(mempool) : mempool[i] # r
    BY DEF RelayInv, Mined
<1>6. /\ mempool' \in Seq(Requests)
      /\ Len(mempool') = Len(mempool) + 1
      /\ mempool'[Len(mempool) + 1] = r
      /\ \A i \in 1..Len(mempool) : mempool'[i] = mempool[i] /\ mempool[i] \in Requests
    BY AppendProperties, Pending DEF RelayInv, Broadcast
<1>7. \A i \in 1..Len(mempool') : i \in 1..Len(mempool) \/ i = Len(mempool) + 1
    BY <1>6, Pending
<1>8. \A i, j \in 1..Len(mempool') : mempool'[i] = mempool'[j] => i = j
    BY <1>5, <1>6, <1>7 DEF RelayInv
<1>9. \A i \in 1..Len(mempool') : /\ mined[mempool'[i]] = "None"
                                  /\ requests'[mempool'[i]].pc \in {"Waiting", "Unknown"}
    BY <1>1, <1>4, <1>5, <1>6, <1>7 DEF RelayInv
<1>10. \A q \in Mined : requests'[q].pc \in {"Waiting", "Created", "Failed", "Unknown"}
    BY <1>4, <1>5 DEF RelayInv, Mined
<1>11. nonce' = Len(mempool') + Cardinality(Mined)
    BY <1>6, Pending DEF RelayInv, Broadcast
<1>12. \A q \in Requests : requests'[q].pc = "Created" => mined[q] = "Success"
    BY <1>1, <1>4 DEF RelayInv
<1>13. RelayInv'
    BY <1>3, <1>4, <1>6, <1>8, <1>9, <1>10, <1>11, <1>12 DEF RelayInv
<1>14. CountInv'
    BY <1>1, <1>3, <1>4 DEF CountInv
<1>15. QED
    BY <1>13, <1>14

\* What mining does to the mempool: its first transaction goes, the others stay.
LEMMA MineEffect ==
    ASSUME RelayInv, mempool # <<>>, NEW outcome \in {"Success", "Reverted"},
           mempool' = Tail(mempool),
           mined' = [mined EXCEPT ![Head(mempool)] = outcome],
           UNCHANGED <<now, nonce, requests>>, accepting' \in BOOLEAN
    PROVE  RelayInv'
<1> DEFINE r == Head(mempool)
<1>1. /\ r \in Requests /\ r = mempool[1]
      /\ Len(mempool) \in Nat \ {0} /\ 1 \in 1..Len(mempool)
    BY HeadTailProperties, EmptySeq DEF RelayInv
<1>2. /\ mempool' \in Seq(Requests)
      /\ Len(mempool') = Len(mempool) - 1
      /\ \A i \in 1..Len(mempool') : mempool'[i] = mempool[i + 1]
    BY HeadTailProperties DEF RelayInv
<1>3. mined[r] = "None" /\ requests[r].pc \in {"Waiting", "Unknown"}
    BY <1>1 DEF RelayInv
<1>4. /\ mined' \in [Requests -> {"None", "Success", "Reverted"}]
      /\ mined'[r] = outcome
      /\ \A q \in Requests : q # r => mined'[q] = mined[q]
    BY <1>1 DEF RelayInv
<1> HIDE DEF r
<1>5. \A i \in 1..Len(mempool') : i + 1 \in 1..Len(mempool) /\ i + 1 # 1 /\ mempool[i + 1] \in Requests
    BY <1>1, <1>2, Pending
<1>6. \A i, j \in 1..Len(mempool') : mempool'[i] = mempool'[j] => i = j
    <2> SUFFICES ASSUME NEW i \in 1..Len(mempool'), NEW j \in 1..Len(mempool'),
                        mempool'[i] = mempool'[j]
                 PROVE  i = j
        OBVIOUS
    <2>1. i + 1 = j + 1
        BY <1>2, <1>5 DEF RelayInv
    <2>2. QED
        BY <1>1, <1>2, <2>1
<1>7. \A i \in 1..Len(mempool') : mempool'[i] # r
    BY <1>1, <1>2, <1>5 DEF RelayInv
<1>8. \A i \in 1..Len(mempool') : /\ mined'[mempool'[i]] = "None"
                                  /\ requests'[mempool'[i]].pc \in {"Waiting", "Unknown"}
    BY <1>2, <1>4, <1>5, <1>7 DEF RelayInv
<1>9. Mined' = Mined \cup {r} /\ r \notin Mined
    BY <1>1, <1>3, <1>4 DEF Mined
<1>10. IsFiniteSet(Mined') /\ Cardinality(Mined') = Cardinality(Mined) + 1
    BY <1>9, FS_AddElement DEF RelayInv
<1>11. nonce' = Len(mempool') + Cardinality(Mined')
    BY <1>1, <1>2, <1>10, Pending DEF RelayInv
<1>12. \A q \in Mined' : requests'[q].pc \in {"Waiting", "Created", "Failed", "Unknown"}
    BY <1>3, <1>9 DEF RelayInv
<1>13. \A q \in Requests : requests'[q].pc = "Created" => mined'[q] = "Success"
    BY <1>3, <1>4 DEF RelayInv
<1>14. QED
    BY <1>2, <1>4, <1>6, <1>8, <1>10, <1>11, <1>12, <1>13 DEF RelayInv

\* A vote is counted where none was: alone, and for a nullifier that is spent now.
LEMMA CountEffect ==
    ASSUME CountInv, NEW n \in Nullifiers, NEW origin \in Requests \cup Chains,
           Castable(n), CountVote(n, origin)
    PROVE  /\ spent' \subseteq Nullifiers
           /\ counted' \in [Nullifiers -> SUBSET (Requests \cup Chains)]
           /\ counted'[n] = {origin}
           /\ \A m \in Nullifiers : m # n => counted'[m] = counted[m]
           /\ \A m \in Nullifiers :
                 counted'[m] = {} \/ (m \in spent' /\ \E x \in Requests \cup Chains : counted'[m] = {x})
<1>1. counted[n] = {} /\ spent' = spent \cup {n}
    BY DEF CountInv, Castable, CountVote
<1>2. /\ counted' = [counted EXCEPT ![n] = {origin}]
    BY <1>1 DEF CountInv, CountVote
<1>3. QED
    BY <1>1, <1>2 DEF CountInv

LEMMA MineStep ==
    ASSUME RelayInv, CountInv, Mine
    PROVE  RelayInv' /\ CountInv'
<1> DEFINE r == Head(mempool)
           n == requests[r].nullifier
<1>1. mempool # <<>> /\ mempool' = Tail(mempool) /\ UNCHANGED <<now, accepting, nonce, requests>>
    BY DEF Mine
<1>2. /\ r \in Requests /\ r = mempool[1] /\ 1 \in 1..Len(mempool)
    BY <1>1, HeadTailProperties, EmptySeq DEF RelayInv
<1>3. mined[r] = "None" /\ requests[r].pc \in {"Waiting", "Unknown"}
    BY <1>2 DEF RelayInv
<1>4. n \in Nullifiers
    BY <1>2, <1>3, Begun DEF Handlers
<1>5. accepting' \in BOOLEAN
    BY <1>1 DEF RelayInv
<1>6. CASE Castable(n)
    <2>1. CountVote(n, r) /\ mined' = [mined EXCEPT ![r] = "Success"]
        BY <1>6 DEF Mine
    <2>2. RelayInv'
        BY <1>1, <1>5, <2>1, MineEffect
    <2>3. /\ spent' \subseteq Nullifiers
          /\ counted' \in [Nullifiers -> SUBSET (Requests \cup Chains)]
          /\ counted'[n] = {r}
          /\ \A m \in Nullifiers : m # n => counted'[m] = counted[m]
          /\ \A m \in Nullifiers :
                counted'[m] = {} \/ (m \in spent' /\ \E x \in Requests \cup Chains : counted'[m] = {x})
        BY <1>2, <1>4, <1>6, <2>1, CountEffect
    <2>4. /\ mined'[r] = "Success"
          /\ \A q \in Requests : q # r => mined'[q] = mined[q]
        BY <1>2, <2>1 DEF RelayInv
    <2> HIDE DEF r, n
    <2>5. n = requests[r].nullifier
        BY DEF n
    <2>6. \A m \in Nullifiers, q \in Requests :
             q \in counted'[m] => mined'[q] = "Success" /\ requests'[q].nullifier = m
        BY <1>1, <2>3, <2>4, <2>5 DEF CountInv
    <2>7. \A q \in Requests :
             q # r /\ mined[q] = "Success" => requests[q].nullifier # n
        BY <1>4, <1>6 DEF CountInv, Castable
    <2>8. \A q \in Requests : mined'[q] = "Success" =>
             requests'[q].nullifier \in Nullifiers /\ q \in counted'[requests'[q].nullifier]
        BY <1>1, <1>4, <2>3, <2>4, <2>5, <2>7 DEF CountInv
    <2>9. CountInv'
        BY <2>3, <2>6, <2>8 DEF CountInv
    <2>10. QED
        BY <2>2, <2>9
<1>7. CASE ~Castable(n)
    <2>1. UNCHANGED <<spent, counted>> /\ mined' = [mined EXCEPT ![r] = "Reverted"]
        BY <1>7 DEF Mine
    <2>2. RelayInv'
        BY <1>1, <1>5, <2>1, MineEffect
    <2>3. \A q \in Requests : mined'[q] = "Success" <=> mined[q] = "Success"
        BY <1>2, <1>3, <2>1 DEF RelayInv
    <2>4. QED
        BY <1>1, <2>1, <2>2, <2>3 DEF CountInv
<1>8. QED
    BY <1>6, <1>7

\* A crash ends the handlers that run; nobody waits for their transactions.
LEMMA CrashStep ==
    ASSUME RelayInv, CountInv, Crash
    PROVE  RelayInv' /\ CountInv'
<1>1. /\ UNCHANGED <<now, accepting, spent, counted, mempool, nonce, mined>>
      /\ Mined' = Mined
    BY DEF Crash, ledgerVars, Mined
<1>2. ASSUME NEW q \in Requests
      PROVE  /\ requests'[q] \in Handlers \cup {Fresh}
             /\ requests'[q] = requests[q] \/ requests'[q].pc = "Unknown"
             /\ requests[q] # Fresh => requests'[q].nullifier = requests[q].nullifier
    <2>1. CASE requests[q].pc \in Over \cup {"Fresh"}
        BY <2>1 DEF Crash, RelayInv
    <2>2. CASE requests[q].pc \notin Over \cup {"Fresh"}
        <3>1. requests'[q] = [requests[q] EXCEPT !.pc = "Unknown"]
            BY <2>2 DEF Crash
        <3>2. requests[q] \in Handlers
            BY <2>2, Begun
        <3>3. QED
            BY <3>1, <3>2 DEF Handlers, Over
    <2>3. QED
        BY <2>1, <2>2
<1>3. requests' \in [Requests -> Handlers \cup {Fresh}]
    BY <1>2 DEF Crash
<1>4. \A i \in 1..Len(mempool) : requests'[mempool[i]].pc \in {"Waiting", "Unknown"}
    BY <1>2, Pending DEF RelayInv
<1>5. \A q \in Mined : requests'[q].pc \in {"Waiting", "Created", "Failed", "Unknown"}
    BY <1>2 DEF RelayInv, Mined
<1>6. \A q \in Requests : requests'[q].pc = "Created" => mined[q] = "Success"
    BY <1>2 DEF RelayInv
<1>7. RelayInv'
    BY <1>1, <1>3, <1>4, <1>5, <1>6 DEF RelayInv
<1>8. \A q \in Requests : mined[q] = "Success" => requests[q] # Fresh
    BY DEF RelayInv, Mined, Fresh
<1>9. CountInv'
    BY <1>1, <1>2, <1>8 DEF CountInv
<1>10. QED
    BY <1>7, <1>9

\* A handler takes a step of its own.
LEMMA HandleStep ==
    ASSUME RelayInv, CountInv, NEW r \in Requests,
           \/ Handle(r)
           \/ RpcFails(r)
           \/ \E n \in Nullifiers, timestamp \in 0..MaxTime : Arrive(r, n, timestamp)
    PROVE  RelayInv' /\ CountInv'
<1>1. ASSUME NEW n \in Nullifiers, NEW timestamp \in 0..MaxTime, Arrive(r, n, timestamp)
      PROVE  RelayInv' /\ CountInv'
    <2> DEFINE h == [pc |-> "Proving", nullifier |-> n, timestamp |-> timestamp, nonce |-> 0]
    <2>1. h \in Handlers /\ h.pc = "Proving"
        BY DEF Handlers
    <2>2. requests[r] = Fresh /\ requests' = [requests EXCEPT ![r] = h]
          /\ UNCHANGED <<now, ledgerVars, mempool, nonce, mined>>
        BY <1>1 DEF Arrive
    <2>3. requests[r].pc = "Fresh"
        BY <2>2 DEF Fresh
    <2> HIDE DEF h
    <2>4. QED
        BY <2>1, <2>2, <2>3, HandlerMoves
<1>2. ASSUME NEW valid \in BOOLEAN, Proved(r, valid)
      PROVE  RelayInv' /\ CountInv'
    <2>1. PICK pc \in {"Populating", "Refused"} : Goto(r, pc)
        BY <1>2 DEF Proved
    <2> DEFINE h == [requests[r] EXCEPT !.pc = pc]
    <2>2. requests[r].pc = "Proving" /\ UNCHANGED <<now, ledgerVars, mempool, nonce, mined>>
        BY <1>2 DEF Proved
    <2>3. h \in Handlers /\ h.pc = pc /\ h.nullifier = requests[r].nullifier
        BY <2>2, Begun DEF Over
    <2>4. requests' = [requests EXCEPT ![r] = h]
        BY <2>1 DEF Goto
    <2> HIDE DEF h
    <2>5. QED
        BY <2>2, <2>3, <2>4, HandlerMoves
<1>3. ASSUME Populate(r) PROVE RelayInv' /\ CountInv'
    <2> DEFINE h == IF Castable(requests[r].nullifier)
                    THEN [requests[r] EXCEPT !.pc = "Sending", !.nonce = nonce]
                    ELSE [requests[r] EXCEPT !.pc = "Refused"]
    <2>1. requests[r].pc = "Populating" /\ UNCHANGED <<now, ledgerVars, mempool, nonce, mined>>
        BY <1>3 DEF Populate
    <2>2. requests[r] \in Handlers
        BY <2>1, Begun
    <2>3. h \in Handlers /\ h.pc \in {"Sending", "Refused"} /\ h.nullifier = requests[r].nullifier
        BY <2>2, Pending DEF Handlers, Over
    <2>4. requests' = [requests EXCEPT ![r] = h]
        BY <1>3 DEF Populate
    <2> HIDE DEF h
    <2>5. QED
        BY <2>1, <2>3, <2>4, HandlerMoves
<1>4. ASSUME Send(r) PROVE RelayInv' /\ CountInv'
    <2>1. requests[r].pc = "Sending" /\ UNCHANGED <<now, ledgerVars, mined>>
        BY <1>4 DEF Send
    <2>2. CASE requests[r].nonce = nonce
        <3>1. Broadcast(r) /\ Goto(r, "Waiting")
            BY <1>4, <2>2 DEF Send
        <3>2. QED
            BY <2>1, <3>1, HandlerSends
    <2>3. CASE requests[r].nonce # nonce
        <3> DEFINE h == [requests[r] EXCEPT !.pc = "Refused"]
        <3>1. Goto(r, "Refused") /\ UNCHANGED <<mempool, nonce>>
            BY <1>4, <2>3 DEF Send
        <3>2. h \in Handlers /\ h.pc = "Refused" /\ h.nullifier = requests[r].nullifier
            BY <2>1, Begun DEF Over
        <3>3. requests' = [requests EXCEPT ![r] = h]
            BY <3>1 DEF Goto
        <3> HIDE DEF h
        <3>4. QED
            BY <2>1, <3>1, <3>2, <3>3, HandlerMoves
    <2>4. QED
        BY <2>2, <2>3
<1>5. ASSUME Receipt(r) PROVE RelayInv' /\ CountInv'
    <2> DEFINE pc == IF mined[r] = "Success" THEN "Created" ELSE "Failed"
               h == [requests[r] EXCEPT !.pc = pc]
    <2>1. /\ requests[r].pc = "Waiting" /\ mined[r] # "None"
          /\ UNCHANGED <<now, ledgerVars, mempool, nonce, mined>>
          /\ requests' = [requests EXCEPT ![r] = h]
        BY <1>5 DEF Receipt, Goto
    <2>2. requests[r] \in Handlers /\ pc \in Over
        BY <2>1, Begun DEF Over
    <2> HIDE DEF pc
    <2>3. h \in Handlers /\ h.pc = pc /\ h.nullifier = requests[r].nullifier
        BY <2>2 DEF Handlers
    <2>4. pc \in {"Created", "Failed"} /\ (pc = "Created" => mined[r] = "Success")
        BY DEF pc
    <2> HIDE DEF h
    <2>5. QED
        BY <2>1, <2>3, <2>4, HandlerMoves
<1>6. ASSUME RpcFails(r) PROVE RelayInv' /\ CountInv'
    <2> DEFINE h == [requests[r] EXCEPT !.pc = "Unknown"]
    <2>1. /\ requests[r].pc \in {"Populating", "Sending", "Waiting"}
          /\ Goto(r, "Unknown") /\ UNCHANGED <<now, ledgerVars, mined>>
        BY <1>6 DEF RpcFails
    <2>2. h \in Handlers /\ h.pc = "Unknown" /\ h.nullifier = requests[r].nullifier
        BY <2>1, Begun DEF Over
    <2>3. requests' = [requests EXCEPT ![r] = h]
        BY <2>1 DEF Goto
    <2> HIDE DEF h
    <2>4. CASE UNCHANGED <<mempool, nonce>>
        BY <2>1, <2>2, <2>3, <2>4, HandlerMoves
    <2>5. CASE requests[r].pc = "Sending" /\ Broadcast(r)
        BY <2>1, <2>5, HandlerSends
    <2>6. QED
        BY <1>6, <2>4, <2>5 DEF RpcFails
<1>7. QED
    BY <1>1, <1>2, <1>3, <1>4, <1>5, <1>6 DEF Handle

\* Any step of the relay, its wallet, the chain's blocks and the clock.
LEMMA RelayStep ==
    ASSUME RelayInv, CountInv, RelayNext
    PROVE  RelayInv' /\ CountInv'
<1>1. ASSUME LedgerSwitch \/ Tick
      PROVE  RelayInv' /\ CountInv'
    <2>1. /\ UNCHANGED <<spent, counted, mempool, nonce, mined, requests>>
          /\ Mined' = Mined
        BY <1>1 DEF LedgerSwitch, Tick, ledgerVars, relayVars, Mined
    <2>2. accepting' \in BOOLEAN
        BY <1>1 DEF LedgerSwitch, Tick, ledgerVars, RelayInv
    <2>3. now' \in 0..MaxTime
        <3>1. now \in 0..MaxTime
            BY DEF RelayInv
        <3>2. now' = now \/ (now < MaxTime /\ now' = now + 1)
            BY <1>1 DEF LedgerSwitch, Tick
        <3>3. QED
            BY <3>1, <3>2, ClockAssumption
    <2>4. QED
        BY <2>1, <2>2, <2>3 DEF RelayInv, CountInv
<1>2. QED
    BY <1>1, MineStep, CrashStep, HandleStep DEF RelayNext

-----------------------------------------------------------------------------
(* What the chains' steps do *)

\* What the relay counts takes nothing from the chains: counted votes stay.
LEMMA CountedStays ==
    ASSUME RelayInv, CountInv, RelayNext
    PROVE  \A n \in Nullifiers : counted[n] \subseteq counted'[n]
<1>1. ASSUME Mine PROVE \A n \in Nullifiers : counted[n] \subseteq counted'[n]
    BY <1>1 DEF Mine, CountVote, CountInv
<1>2. ASSUME LedgerSwitch \/ Tick \/ Crash PROVE counted' = counted
    BY <1>2 DEF LedgerSwitch, Tick, Crash, ledgerVars
<1>3. ASSUME NEW r \in Requests,
             Handle(r) \/ RpcFails(r)
             \/ \E n \in Nullifiers, timestamp \in 0..MaxTime : Arrive(r, n, timestamp)
      PROVE  counted' = counted
    BY <1>3 DEF Handle, RpcFails, Arrive, Proved, Populate, Send, Receipt, ledgerVars
<1>4. QED
    BY <1>1, <1>2, <1>3 DEF RelayNext

\* The relay and its wallet see of a chain's step what it counts.
LEMMA OtherChannelCounts ==
    ASSUME RelayInv, CountInv, NEW m \in messages, messages \subseteq [chain : Chains, nullifier : Nullifiers],
           LzReceive(m)
    PROVE  /\ RelayInv' /\ CountInv'
           /\ counted'[m.nullifier] = {m.chain}
           /\ \A n \in Nullifiers : n # m.nullifier => counted'[n] = counted[n]
           /\ counted[m.nullifier] = {}
<1> DEFINE n == m.nullifier
           c == m.chain
<1>1. n \in Nullifiers /\ c \in Chains /\ c \notin Requests
    BY OriginAssumption
<1>2. /\ Castable(n) /\ CountVote(n, c)
      /\ UNCHANGED <<now, accepting, mempool, nonce, mined, requests>>
      /\ Mined' = Mined
    BY DEF LzReceive, Receivable, relayVars, Mined
<1>3. /\ spent' \subseteq Nullifiers
      /\ counted' \in [Nullifiers -> SUBSET (Requests \cup Chains)]
      /\ counted'[n] = {c}
      /\ \A k \in Nullifiers : k # n => counted'[k] = counted[k]
      /\ \A k \in Nullifiers :
            counted'[k] = {} \/ (k \in spent' /\ \E x \in Requests \cup Chains : counted'[k] = {x})
    BY <1>1, <1>2, CountEffect
<1>4. counted[n] = {}
    BY <1>1, <1>2 DEF CountInv, Castable
<1> HIDE DEF n, c
<1>5. RelayInv'
    BY <1>2 DEF RelayInv
<1>6. CountInv'
    BY <1>1, <1>2, <1>3, <1>4 DEF CountInv
<1>7. QED
    BY <1>3, <1>4, <1>5, <1>6 DEF n, c

\* Steps of the chains that count nothing leave the relay and the ledger alone.
LEMMA ChainsOnly ==
    ASSUME UNCHANGED <<now, ledgerVars, relayVars>>, RelayInv, CountInv
    PROVE  RelayInv' /\ CountInv'
<1>1. /\ UNCHANGED <<now, accepting, spent, counted, mempool, nonce, mined, requests>>
      /\ Mined' = Mined
    BY DEF ledgerVars, relayVars, Mined
<1>2. QED
    BY <1>1 DEF RelayInv, CountInv

\* The messages and the nullifiers of the chains, step by step.
LEMMA ChannelStep ==
    ASSUME ChannelInv, [Next]_vars
    PROVE  ChannelInv'
<1> USE DEF ChannelInv
<1>1. ASSUME RelayNext, UNCHANGED crossVars PROVE ChannelInv'
    <2>1. \A n \in Nullifiers : counted[n] \subseteq counted'[n]
        BY <1>1, CountedStays
    <2>2. ChainInv'
        BY <1>1, <2>1 DEF ChainInv, L2SpentIsAccounted, crossVars
    <2>3. QED
        BY <1>1, <2>2, RelayStep
<1>2. ASSUME \/ SetVoteLedger
             \/ \E c \in Chains : SetZKVerifier(c) \/ SetPeers(c)
             \/ UNCHANGED vars
      PROVE  ChannelInv'
    <2>1. UNCHANGED <<now, ledgerVars, relayVars, l2Nullifiers, messages>>
        BY <1>2 DEF SetVoteLedger, SetZKVerifier, SetPeers, vars, crossVars
    <2>2. ChainInv'
        BY <2>1 DEF ChainInv, L2SpentIsAccounted, ledgerVars
    <2>3. QED
        BY <2>1, <2>2, ChainsOnly
<1>3. ASSUME NEW c \in Chains, NEW n \in Nullifiers, CastVoteL2(c, n) PROVE ChannelInv'
    <2> DEFINE m == [chain |-> c, nullifier |-> n]
    <2>1. /\ UNCHANGED <<now, ledgerVars, relayVars>>
          /\ l2Nullifiers' = [l2Nullifiers EXCEPT ![c] = @ \cup {n}]
          /\ messages' = messages \cup {m}
        BY <1>3 DEF CastVoteL2
    <2>2. /\ l2Nullifiers' \in [Chains -> SUBSET Nullifiers]
          /\ messages' \subseteq [chain : Chains, nullifier : Nullifiers]
        BY <2>1 DEF ChainInv
    <2>3. UNCHANGED counted
        BY <2>1 DEF ledgerVars
    <2>4. L2SpentIsAccounted'
        BY <2>1, <2>3 DEF ChainInv, L2SpentIsAccounted
    <2>5. QED
        BY <2>1, <2>2, <2>4, ChainsOnly DEF ChainInv
<1>4. ASSUME NEW m \in messages, LzReceive(m) PROVE ChannelInv'
    <2>1. /\ RelayInv' /\ CountInv'
          /\ counted'[m.nullifier] = {m.chain}
          /\ \A n \in Nullifiers : n # m.nullifier => counted'[n] = counted[n]
          /\ counted[m.nullifier] = {}
        BY <1>4, OtherChannelCounts DEF ChainInv
    <2>2. messages' = messages \ {m} /\ UNCHANGED l2Nullifiers
        BY <1>4 DEF LzReceive
    <2>3. ASSUME NEW c \in Chains, NEW n \in l2Nullifiers[c]
          PROVE  [chain |-> c, nullifier |-> n] \in messages' \/ c \in counted'[n]
        <3>1. n \in Nullifiers
            BY DEF ChainInv
        <3>2. CASE m = [chain |-> c, nullifier |-> n]
            BY <2>1, <3>2
        <3>3. CASE m # [chain |-> c, nullifier |-> n]
            BY <2>1, <2>2, <3>1, <3>3 DEF ChainInv, L2SpentIsAccounted
        <3>4. QED
            BY <3>2, <3>3
    <2>4. QED
        BY <2>1, <2>2, <2>3 DEF ChainInv, L2SpentIsAccounted
<1>5. QED
    BY <1>1, <1>2, <1>3, <1>4 DEF Next

-----------------------------------------------------------------------------
(* The theorems *)

LEMMA ChannelStart == Init => ChannelInv
<1> SUFFICES ASSUME Init PROVE ChannelInv
    OBVIOUS
<1>1. mempool \in Seq(Requests) /\ Len(mempool) = 0
    BY EmptySeq DEF Init, RelayInit
<1>2. Mined = {}
    BY DEF Init, RelayInit, Mined
<1>3. IsFiniteSet(Mined) /\ Cardinality(Mined) = 0
    BY <1>2, FS_EmptySet
<1>4. RelayInv
    BY <1>1, <1>2, <1>3, ClockAssumption DEF Init, RelayInit, RelayInv, Fresh
<1>5. CountInv
    BY DEF Init, RelayInit, CountInv
<1>6. ChainInv
    BY DEF Init, ChainInv, L2SpentIsAccounted
<1>7. QED
    BY <1>4, <1>5, <1>6 DEF ChannelInv

\* The inductive invariant of relay, wallet, ledger and chains: a request has at most
\* one transaction, the votes counted are those of mined transactions and executed
\* messages, and each was counted for a nullifier that was not spent. (submitVote,
\* castVote, _lzReceive)
THEOREM ChannelInvariant == Spec => []ChannelInv
<1>1. Init => ChannelInv
    BY ChannelStart
<1>2. ChannelInv /\ [Next]_vars => ChannelInv'
    BY ChannelStep
<1>3. QED
    BY <1>1, <1>2, PTL DEF Spec

\* Both sides keep their shape, and the wallet's nonce counts the transactions in the
\* mempool and on chain. (castVote)
THEOREM ChannelTypeCorrect == Spec => []TypeOK
<1>1. ChannelInv => TypeOK
    <2> SUFFICES ASSUME ChannelInv PROVE TypeOK
        OBVIOUS
    <2>1. DOMAIN mempool = 1..Len(mempool)
        BY LenProperties DEF ChannelInv, RelayInv
    <2>2. Mined = {r \in Requests : getReceipt(r) # "NotFound"}
        BY DEF ChannelInv, RelayInv, Mined, getReceipt
    <2>3. RelayTypeOK
        BY <2>1, <2>2 DEF ChannelInv, RelayInv, CountInv, RelayTypeOK
    <2>4. QED
        BY <2>3 DEF ChannelInv, ChainInv, TypeOK
<1>2. QED
    BY <1>1, ChannelInvariant, PTL

\* 201 is only answered of a vote the ledger has counted for this request, and a
\* request refused is never counted, with retries, nonces read twice, lost answers,
\* crashes and the chains' votes in between. (submitVote, castVote)
THEOREM RelayAnswersAreTrue == Spec => []AnswersAreTrue
<1>1. ChannelInv => AnswersAreTrue
    <2> SUFFICES ASSUME ChannelInv PROVE AnswersAreTrue
        OBVIOUS
    <2>1. DOMAIN mempool = 1..Len(mempool)
        BY LenProperties DEF ChannelInv, RelayInv
    <2>2. CreatedIsCounted
        BY DEF CreatedIsCounted, ChannelInv, RelayInv, CountInv, isNullifierSpent, getReceipt
    <2>3. ASSUME NEW r \in Requests, requests[r].pc = "Refused"
          PROVE  /\ \A n \in Nullifiers : r \notin counted[n]
                 /\ \A i \in DOMAIN mempool : mempool[i] # r
        <3>1. mined[r] = "None"
            BY <2>3 DEF ChannelInv, RelayInv, Mined
        <3>2. QED
            BY <2>1, <2>3, <3>1 DEF ChannelInv, RelayInv, CountInv
    <2>4. QED
        BY <2>2, <2>3 DEF AnswersAreTrue, RefusedIsNotCounted
<1>2. QED
    BY <1>1, ChannelInvariant, PTL

\* A nullifier is counted once over the API and all chains, and one spent on a chain
\* is counted for it or has its message on the way. (L2VoteCaster.castVote, _lzReceive)
THEOREM ChannelsArriveOnce == Spec => []VotesArriveOnce
<1>1. ChannelInv => VotesArriveOnce
    <2> SUFFICES ASSUME ChannelInv PROVE VotesArriveOnce
        OBVIOUS
    <2>1. \A x : Cardinality({x}) = 1
        BY FS_Singleton
    <2>2. Cardinality({}) = 0
        BY FS_EmptySet
    <2>3. ASSUME NEW n \in Nullifiers PROVE Cardinality(counted[n]) <= 1
        <3>1. counted[n] = {} \/ \E x \in Requests \cup Chains : counted[n] = {x}
            BY DEF ChannelInv, CountInv
        <3>2. QED
            BY <2>1, <2>2, <3>1
    <2>4. QED
        BY <2>3 DEF VotesArriveOnce, OneVoteOverAllChannels, ChannelInv, ChainInv
<1>2. QED
    BY <1>1, ChannelInvariant, PTL

=============================================================================
