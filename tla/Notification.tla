------------------------------ MODULE Notification ------------------------------
(***************************************************************************)
(* Push notifications (NotificationService and its routes). Redis keeps a    *)
(* record for each user, their device token and country, and for each        *)
(* country the set of its users. A handler is a sequence of Redis calls; the *)
(* commands of a Promise.all leave one after the other on the process's one  *)
(* connection, so they are one step. The routes answer before the work is    *)
(* done, and nothing catches its failure, which ends the process.            *)
(*                                                                           *)
(* Devices and the push service are external: a token is valid until the     *)
(* device renews it. Who calls the three notify functions is outside the     *)
(* repository.                                                               *)
(***************************************************************************)
EXTENDS Naturals, Sequences

CONSTANTS
    Subscribers,
    Nations,
    MaxToken,       \* bound: the tokens of a device
    Broadcasts,     \* bound: the broadcasts
    MaxCalls        \* bound: user -> their requests

\* Tokens are numbered.
ASSUME TokenAssumption == MaxToken \in Nat

VARIABLES
    TK,             \* Redis: user -> [token, country], or NoRecord
    CK,             \* Redis: country -> users
    device,         \* external: user -> the device's valid token
    calls,          \* user -> the requests being served, in the order they came
    made,           \* user -> the requests made
    broadcasts,     \* broadcast -> where it is
    settled,        \* history: user -> what was registered and ought to hold, or NoRecord
    left            \* history: users that unregistered, and have not come back

noteVars == <<TK, CK, device, calls, made, broadcasts, settled, left>>

NoRecord == [token |-> 0]
InFlight == {"Get", "Send", "Remove"}

-----------------------------------------------------------------------------
(* Requests of the apps *)

Call(u, call) ==
    /\ made[u] < MaxCalls[u]
    /\ made' = [made EXCEPT ![u] = @ + 1]
    /\ calls' = [calls EXCEPT ![u] = Append(@, call)]
    /\ settled' = [settled EXCEPT ![u] = NoRecord]
    /\ left' = left \ {u}
    /\ UNCHANGED <<TK, CK>>

\* Whoever registers again may be sent what is under way.
Return(u) == broadcasts' = [b \in Broadcasts |->
    IF broadcasts[b].pc \in {"Get", "Send"} THEN [broadcasts[b] EXCEPT !.without = @ \ {u}] ELSE broadcasts[b]]

\* POST /register: the app hands in its token, a new one perhaps.
Register(u, country) ==
    /\ \E token \in {device[u], device[u] + 1} :
          /\ token \in 1..MaxToken
          /\ device' = [device EXCEPT ![u] = token]
          /\ Call(u, [pc |-> "Get", kind |-> "Register", alone |-> calls[u] = <<>>,
                      record |-> [token |-> token, country |-> country], old |-> NoRecord])
    /\ Return(u)

\* DELETE /register/:userId
Unregister(u) ==
    /\ Call(u, [pc |-> "Get", kind |-> "Unregister", alone |-> calls[u] = <<>>, old |-> NoRecord])
    /\ UNCHANGED <<device, broadcasts>>

Advance(u, i, pc, old) ==
    calls' = [calls EXCEPT ![u][i].pc = pc, ![u][i].old = old]
\* A call that ends while another of the user is under way settles nothing.
Finished(u, i) == calls' = [calls EXCEPT ![u] =
                 [j \in 1..Len(@) - 1 |-> [@[IF j < i THEN j ELSE j + 1] EXCEPT !.alone = FALSE]]]
Alone(u, i) == calls[u][i].alone /\ Len(calls[u]) = 1

\* get
ReadRecord(u, i) ==
    LET old == TK[u]
        moved == old # NoRecord /\ (calls[u][i].kind = "Register" => old.country # calls[u][i].record.country)
    IN  /\ calls[u][i].pc = "Get"
        /\ Advance(u, i, IF moved THEN "Leave" ELSE "Write", old)
        /\ UNCHANGED <<TK, CK, device, made, broadcasts, settled, left>>

\* srem of the country that was read
LeaveCountry(u, i) ==
    /\ calls[u][i].pc = "Leave"
    /\ CK' = [CK EXCEPT ![calls[u][i].old.country] = @ \ {u}]
    /\ Advance(u, i, "Write", calls[u][i].old)
    /\ UNCHANGED <<TK, device, made, broadcasts, settled, left>>

Overtaken(u) == \E b \in Broadcasts : broadcasts[b].pc \in InFlight

\* set and sadd
registerToken(u, i) ==
    /\ calls[u][i].pc = "Write" /\ calls[u][i].kind = "Register"
    /\ TK' = [TK EXCEPT ![u] = calls[u][i].record]
    /\ CK' = [CK EXCEPT ![calls[u][i].record.country] = @ \cup {u}]
    /\ settled' = IF Alone(u, i) /\ ~Overtaken(u) THEN [settled EXCEPT ![u] = calls[u][i].record] ELSE settled
    /\ Finished(u, i)
    /\ UNCHANGED <<device, made, broadcasts, left>>

\* del
unregisterToken(u, i) ==
    /\ calls[u][i].pc = "Write" /\ calls[u][i].kind = "Unregister"
    /\ TK' = [TK EXCEPT ![u] = NoRecord]
    /\ left' = IF Alone(u, i) THEN left \cup {u} ELSE left
    /\ Finished(u, i)
    /\ UNCHANGED <<CK, device, made, broadcasts, settled>>

-----------------------------------------------------------------------------
(* broadcast *)

\* notifyPolicyOpened, notifyDeadline24h, notifyResultsPublished: smembers.
Broadcast(b, country) ==
    /\ broadcasts[b].pc = "Unsent"
    /\ broadcasts' = [broadcasts EXCEPT ![b] =
           IF CK[country] = {} THEN [pc |-> "Sent"]
           ELSE [pc |-> "Get", userIds |-> CK[country], recipients |-> {}, without |-> left]]
    /\ UNCHANGED <<TK, CK, device, calls, made, settled, left>>

\* The gets: a user without a record is filtered out.
Recipients(b) ==
    {[userId |-> u, record |-> TK[u]] : u \in {v \in broadcasts[b].userIds : TK[v] # NoRecord}}

ReadRecipients(b) ==
    /\ broadcasts[b].pc = "Get"
    /\ broadcasts' = [broadcasts EXCEPT ![b].recipients = Recipients(b),
                                        ![b].pc = IF Recipients(b) = {} THEN "Sent" ELSE "Send"]
    /\ UNCHANGED <<TK, CK, device, calls, made, settled, left>>

\* External: the push service knows the token no more.
Refused(recipient) == recipient.record.token # device[recipient.userId]

\* Mutant: whoever could not be reached is removed.
IsStale_AnyFailure(recipient) == recipient.userId \in Subscribers

\* The code of the error is registration-token-not-registered.
IsStale(recipient) == Refused(recipient)

\* sendEachForMulticast: some messages fail, because of the token or not; or all
\* do, which is caught.
Send(b) ==
    /\ broadcasts[b].pc = "Send"
    /\ \/ \E failed \in SUBSET broadcasts[b].recipients :
             /\ \A r \in broadcasts[b].recipients \ failed : ~Refused(r)
             /\ LET stale == {r \in failed : IsStale(r)}
                IN  broadcasts' = [broadcasts EXCEPT ![b] =
                        IF stale = {} THEN [pc |-> "Sent"] ELSE [pc |-> "Remove", stale |-> stale]]
       \/ broadcasts' = [broadcasts EXCEPT ![b] = [pc |-> "Sent"]]
    /\ UNCHANGED <<TK, CK, device, calls, made, settled, left>>

\* del and srem of each.
RemoveStale(b) ==
    /\ broadcasts[b].pc = "Remove"
    /\ TK' = [u \in Subscribers |->
                 IF \E r \in broadcasts[b].stale : r.userId = u THEN NoRecord ELSE TK[u]]
    /\ CK' = [c \in Nations |-> CK[c] \ {r.userId : r \in {s \in broadcasts[b].stale : s.record.country = c}}]
    /\ broadcasts' = [broadcasts EXCEPT ![b] = [pc |-> "Sent"]]
    /\ UNCHANGED <<device, calls, made, settled, left>>

\* A Redis call fails outside any catch, or the process dies: what was under way
\* is lost, Redis keeps what it has.
Dies ==
    /\ (\E u \in Subscribers : calls[u] # <<>>) \/ (\E b \in Broadcasts : broadcasts[b].pc \in InFlight)
    /\ calls' = [u \in Subscribers |-> <<>>]
    /\ broadcasts' = [b \in Broadcasts |-> IF broadcasts[b].pc \in InFlight THEN [pc |-> "Sent"] ELSE broadcasts[b]]
    /\ UNCHANGED <<TK, CK, device, made, settled, left>>

-----------------------------------------------------------------------------
(* Specification *)

NoteInit ==
    /\ TK = [u \in Subscribers |-> NoRecord] /\ CK = [c \in Nations |-> {}]
    /\ device = [u \in Subscribers |-> 0]
    /\ calls = [u \in Subscribers |-> <<>>] /\ made = [u \in Subscribers |-> 0]
    /\ broadcasts = [b \in Broadcasts |-> [pc |-> "Unsent"]]
    /\ settled = [u \in Subscribers |-> NoRecord] /\ left = {}

NoteNext ==
    \/ \E u \in Subscribers :
          \/ (\E c \in Nations : Register(u, c)) \/ Unregister(u)
          \/ \E i \in DOMAIN calls[u] :
                ReadRecord(u, i) \/ LeaveCountry(u, i) \/ registerToken(u, i) \/ unregisterToken(u, i)
    \/ \E b \in Broadcasts :
          (\E c \in Nations : Broadcast(b, c)) \/ ReadRecipients(b) \/ Send(b) \/ RemoveStale(b)
    \/ Dies

NoteSpec == NoteInit /\ [][NoteNext]_noteVars

-----------------------------------------------------------------------------
(* Properties *)

\* A device that registered its token, and asked for nothing since, is found by
\* the next broadcast to its country: neither the clean-up after a broadcast nor
\* another user's calls take it away. (Except for a registration during a
\* broadcast or another call of the user, which may be undone.) (registerToken,
\* broadcast)
RegisteredIsReached ==
    \A u \in Subscribers : (settled[u] # NoRecord /\ calls[u] = <<>>) =>
        TK[u] = settled[u] /\ u \in CK[settled[u].country]

\* A user who unregistered, all calls of theirs being over, is sent nothing by a
\* broadcast that starts later, unless they register again before it reads their
\* record. (unregisterToken, broadcast)
LeftInPeace ==
    \A b \in Broadcasts : broadcasts[b].pc = "Send" =>
        \A r \in broadcasts[b].recipients : r.userId \notin broadcasts[b].without

\* Broadcasts reach whom they should and no others. (broadcast)
BroadcastsSafe == RegisteredIsReached /\ LeftInPeace

=============================================================================
