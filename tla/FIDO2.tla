--------------------------------- MODULE FIDO2 ---------------------------------
(***************************************************************************)
(* Hardware-key login (FIDO2Service and its routes). Redis keeps one        *)
(* pending challenge for a user, which expires, and the credentials; every  *)
(* Redis call is a step. The browser and the key are external: they answer  *)
(* a challenge once, but the answer may be posted more than once, for any   *)
(* user. What the WebAuthn library checks is that the challenge is the one  *)
(* expected and, of a login, that the stored key has signed it and that its *)
(* counter, if it counts, has grown. Attestation is "none": of a            *)
(* registration nothing says that the credential id is the key's own, and a *)
(* client may name one that is registered already.                          *)
(***************************************************************************)
EXTENDS Naturals, Sequences, FiniteSets

CONSTANTS
    Users,
    Credentials,        \* credential ids
    Counting,           \* those of keys that count their signatures
    Handlers,           \* bound: the requests under way, and the posted responses
    MaxChallenges       \* bound: the challenges issued

ASSUME KeyAssumption == MaxChallenges \in Nat

VARIABLES
    challenge,          \* Redis: user -> the pending challenge, 0 for none
    record,             \* Redis: credential -> [user, key, counter], or NoKey
    listed,             \* Redis: user -> the credentials of the user
    issued,             \* the options given, in order: for whom, what for, with which credentials
    keyring,             \* key pair -> whose, its credential id and signature counter, or NoKey
    responses,          \* what browsers have answered
    handlers,           \* handler -> where it is
    verified            \* history: the responses answered with success

redisVars == <<challenge, record, listed>>
clientVars == <<issued, keyring, responses>>
keyVars == <<redisVars, clientVars, handlers, verified>>

\* A key pair has the number of the challenge it was made for; one, 0, was there before.
KeyPairs == 0..MaxChallenges

NoKey == [user |-> "None"]
Free == [pc |-> "Idle"]
Over == {"Verified", "Refused"}
Asking == {"Members", "Records", "Setex"}
Proceed(h, pc) == handlers' = [handlers EXCEPT ![h].pc = pc]

-----------------------------------------------------------------------------
(* generateRegistrationOptions and generateAuthenticationOptions *)

BeginOptions(h, u, kind) ==
    /\ handlers[h] = Free
    /\ handlers' = [handlers EXCEPT ![h] =
                       [pc |-> "Members", user |-> u, kind |-> kind, todo |-> {}, found |-> {}]]
    /\ UNCHANGED <<redisVars, clientVars, verified>>

generateRegistrationOptions(h, u) == BeginOptions(h, u, "Registration")
generateAuthenticationOptions(h, u) == BeginOptions(h, u, "Authentication")

\* getUserCredentials: smembers,
getMembers(h) ==
    /\ handlers[h].pc = "Members"
    /\ handlers' = [handlers EXCEPT ![h].pc = "Records", ![h].todo = listed[handlers[h].user]]
    /\ UNCHANGED <<redisVars, clientVars, verified>>

\* then the records, together; one that is not stored (yet) is left out.
getRecord(h, k) ==
    LET a == handlers[h] IN
    /\ a.pc = "Records" /\ k \in a.todo
    /\ handlers' = [handlers EXCEPT ![h].todo = @ \ {k},
                                    ![h].found = IF record[k] # NoKey THEN @ \cup {k} ELSE @]
    /\ UNCHANGED <<redisVars, clientVars, verified>>

GotRecords(h) ==
    /\ handlers[h].pc = "Records" /\ handlers[h].todo = {}
    /\ Proceed(h, "Setex")
    /\ UNCHANGED <<redisVars, clientVars, verified>>

\* A new challenge takes the place of the one pending, of either kind, and the options
\* are the answer.
storeChallenge(h) ==
    LET a == handlers[h] IN
    /\ a.pc = "Setex" /\ Len(issued) < MaxChallenges
    /\ issued' = Append(issued, [user |-> a.user, kind |-> a.kind, credentials |-> a.found])
    /\ challenge' = [challenge EXCEPT ![a.user] = Len(issued')]
    /\ handlers' = [handlers EXCEPT ![h] = Free]
    /\ UNCHANGED <<record, listed, keyring, responses, verified>>

\* The TTL of 5 minutes.
ChallengeExpires(u) ==
    /\ challenge[u] # 0
    /\ challenge' = [challenge EXCEPT ![u] = 0]
    /\ UNCHANGED <<record, listed, clientVars, handlers, verified>>

-----------------------------------------------------------------------------
(* The browser *)

Unanswered(c) == \A r \in responses : r.challenge # c

\* A registration: a new key pair, under whatever credential id the client gives.
Attest(c, k) ==
    /\ issued[c].kind = "Registration" /\ Unanswered(c)
    /\ keyring' = [keyring EXCEPT ![c] = [user |-> issued[c].user, credential |-> k, counter |-> 0]]
    /\ responses' = responses \cup
          {[kind |-> "Registration", challenge |-> c, credential |-> k, key |-> c, counter |-> 0]}
    /\ UNCHANGED <<redisVars, issued, handlers, verified>>

\* A login: a key of the user signs, one that the options name, any if they name none.
Sign(c, p) ==
    LET k == keyring[p].credential
        counter == IF k \in Counting THEN keyring[p].counter + 1 ELSE 0
    IN  /\ issued[c].kind = "Authentication" /\ Unanswered(c)
        /\ keyring[p] # NoKey /\ keyring[p].user = issued[c].user
        /\ issued[c].credentials = {} \/ k \in issued[c].credentials
        /\ keyring' = [keyring EXCEPT ![p].counter = counter]
        /\ responses' = responses \cup
              {[kind |-> "Authentication", challenge |-> c, credential |-> k, key |-> p, counter |-> counter]}
        /\ UNCHANGED <<redisVars, issued, handlers, verified>>

-----------------------------------------------------------------------------
(* verifyRegistration and verifyAuthentication *)

Post(h, u, r) ==
    /\ handlers[h] = Free
    /\ handlers' = [handlers EXCEPT ![h] =
                       [pc |-> "Challenge", user |-> u, response |-> r, todo |-> {"set", "sadd"},
                        read |-> NoKey, late |-> r \in verified]]
    /\ UNCHANGED <<redisVars, clientVars, verified>>

\* The challenge is read here, and compared by the library with the copy read.
getChallenge(h) ==
    LET a == handlers[h] IN
    /\ a.pc = "Challenge"
    /\ Proceed(h, IF challenge[a.user] = 0 \/ challenge[a.user] # a.response.challenge THEN "Refused"
               ELSE IF a.response.kind = "Registration" THEN "Store" ELSE "Credential")
    /\ UNCHANGED <<redisVars, clientVars, verified>>

\* storeCredential: two writes started together, over whatever is there; the answer
\* waits for both.
storeRecord(h) ==
    LET a == handlers[h] IN
    /\ a.pc = "Store" /\ "set" \in a.todo
    /\ record' = [record EXCEPT ![a.response.credential] =
                     [user |-> a.user, key |-> a.response.key, counter |-> a.response.counter]]
    /\ handlers' = [handlers EXCEPT ![h].todo = @ \ {"set"}]
    /\ UNCHANGED <<challenge, listed, clientVars, verified>>

storeListed(h) ==
    LET a == handlers[h] IN
    /\ a.pc = "Store" /\ "sadd" \in a.todo
    /\ listed' = [listed EXCEPT ![a.user] = @ \cup {a.response.credential}]
    /\ handlers' = [handlers EXCEPT ![h].todo = @ \ {"sadd"}]
    /\ UNCHANGED <<challenge, record, clientVars, verified>>

Stored(h) ==
    /\ handlers[h].pc = "Store" /\ handlers[h].todo = {}
    /\ Proceed(h, "Delete")
    /\ UNCHANGED <<redisVars, clientVars, verified>>

\* The library's rule; a key that does not count sends 0 for ever.
CounterGrows(old, new) == (old = 0 /\ new = 0) \/ new > old

\* getCredential, and the verdict of verifyAuthenticationResponse.
getCredential(h) ==
    LET a == handlers[h]
        stored == record[a.response.credential]
    IN  /\ a.pc = "Credential"
        /\ Proceed(h, IF /\ stored # NoKey /\ stored.user = a.user /\ stored.key = a.response.key
                      /\ CounterGrows(stored.counter, a.response.counter)
                   THEN "Read" ELSE "Refused")
        /\ UNCHANGED <<redisVars, clientVars, verified>>

\* updateCounter reads the record, which may be another by now,
readCounter(h) ==
    LET a == handlers[h] IN
    /\ a.pc = "Read"
    /\ handlers' = [handlers EXCEPT ![h].pc = "Update", ![h].read = record[a.response.credential]]
    /\ UNCHANGED <<redisVars, clientVars, verified>>

\* Mutant: the server counts by itself.
updateCounter_Increment(h) ==
    LET a == handlers[h] IN
    /\ a.pc = "Update"
    /\ record' = [record EXCEPT ![a.response.credential] = [a.read EXCEPT !.counter = @ + 1]]
    /\ Proceed(h, "Delete")
    /\ UNCHANGED <<challenge, listed, clientVars, verified>>

\* and writes it back with the new counter. Logins that overlap write theirs in any
\* order. (No record is ever deleted, so there is one to write.)
updateCounter(h) ==
    LET a == handlers[h] IN
    /\ a.pc = "Update"
    /\ record' = [record EXCEPT ![a.response.credential] =
                     [a.read EXCEPT !.counter = a.response.counter]]
    /\ Proceed(h, "Delete")
    /\ UNCHANGED <<challenge, listed, clientVars, verified>>

\* Whatever challenge is pending by now is deleted, and success answered.
deleteChallenge(h) ==
    /\ handlers[h].pc = "Delete"
    /\ challenge' = [challenge EXCEPT ![handlers[h].user] = 0]
    /\ verified' = verified \cup {handlers[h].response}
    /\ Proceed(h, "Verified")
    /\ UNCHANGED <<record, listed, clientVars>>

\* A Redis call fails or the process dies: an error is the answer, what was
\* written stays.
RedisFails(h) ==
    /\ handlers[h].pc \notin Over \cup {"Idle"}
    /\ IF handlers[h].pc \in Asking THEN handlers' = [handlers EXCEPT ![h] = Free]
                                    ELSE Proceed(h, "Refused")
    /\ UNCHANGED <<redisVars, clientVars, verified>>

-----------------------------------------------------------------------------
(* Specification *)

\* A first user may have a credential already.
KeyInit ==
    /\ challenge = [u \in Users |-> 0]
    /\ \/ /\ keyring = [p \in KeyPairs |-> NoKey]
          /\ record = [k \in Credentials |-> NoKey]
          /\ listed = [u \in Users |-> {}]
       \/ \E k \in Credentials, u \in Users :
             /\ keyring = [p \in KeyPairs |->
                             IF p = 0 THEN [user |-> u, credential |-> k, counter |-> 0] ELSE NoKey]
             /\ record = [l \in Credentials |->
                             IF l = k THEN [user |-> u, key |-> 0, counter |-> 0] ELSE NoKey]
             /\ listed = [v \in Users |-> IF v = u THEN {k} ELSE {}]
    /\ issued = <<>>
    /\ responses = {} /\ verified = {}
    /\ handlers = [h \in Handlers |-> Free]

GiveOptions(h) ==
    \/ \E u \in Users : generateRegistrationOptions(h, u) \/ generateAuthenticationOptions(h, u)
    \/ getMembers(h) \/ GotRecords(h) \/ storeChallenge(h)
    \/ \E k \in Credentials : getRecord(h, k)

Handle(h) ==
    \/ getChallenge(h)
    \/ storeRecord(h) \/ storeListed(h) \/ Stored(h)
    \/ getCredential(h) \/ readCounter(h) \/ updateCounter(h)
    \/ deleteChallenge(h)

KeyNext ==
    \/ \E u \in Users : ChallengeExpires(u)
    \/ \E c \in DOMAIN issued :
          \/ \E k \in Credentials : Attest(c, k)
          \/ \E p \in KeyPairs : Sign(c, p)
    \/ \E h \in Handlers :
          \/ \E u \in Users, r \in responses : Post(h, u, r)
          \/ GiveOptions(h)
          \/ Handle(h)
          \/ RedisFails(h)

KeySpec == KeyInit /\ [][KeyNext]_keyVars

-----------------------------------------------------------------------------
(* Properties *)

\* Redis keeps its shape: a pending challenge is one issued for that very user.
\* (storeChallenge, storeCredential)
KeyTypeOK ==
    /\ \A u \in Users : challenge[u] # 0 => challenge[u] \in DOMAIN issued /\ issued[challenge[u]].user = u
    /\ \A k \in Credentials : record[k] # NoKey => record[k].user \in Users /\ record[k].counter \in Nat
    /\ listed \in [Users -> SUBSET Credentials]

\* A response answered with success is not accepted from a request that starts
\* later, the challenge being gone: for keys that do not count too, and whatever
\* overlaps. (Two requests that overlap may both succeed.) (getChallenge,
\* deleteChallenge)
NoReplay == \A h \in Handlers : handlers[h].pc = "Verified" => ~handlers[h].late

\* No two keys have given this credential id for theirs.
OfOneKey(k) ==
    \A p, q \in KeyPairs :
        keyring[p] # NoKey /\ keyring[q] # NoKey /\ keyring[p].credential = k /\ keyring[q].credential = k => p = q

\* A registration answered with success is complete: the list that options are made
\* from has it, and so has the record that logins read, unless another key took
\* its credential id. (storeCredential)
RegisteredIsComplete ==
    \A r \in verified : r.kind = "Registration" =>
        /\ r.credential \in listed[issued[r.challenge].user]
        /\ record[r.credential] # NoKey
        /\ OfOneKey(r.credential) => record[r.credential].key = r.key

\* A record is of one registration: the key in it is one that its user made, under
\* this credential id, and success is only answered to that user. (Another
\* registration under the id replaces the record, whosever it was, and the counter's
\* write may bring the old one back; the two are never mixed.) (storeCredential,
\* updateCounter, verifyAuthentication)
RecordsAreWhole ==
    /\ \A k \in Credentials : record[k] # NoKey =>
          /\ keyring[record[k].key] # NoKey
          /\ keyring[record[k].key].user = record[k].user /\ keyring[record[k].key].credential = k
    /\ \A h \in Handlers : handlers[h].pc = "Verified" =>
          /\ handlers[h].user = issued[handlers[h].response.challenge].user
          /\ handlers[h].user = keyring[handlers[h].response.key].user

\* The stored counter never passes the key's, so that its next signature is
\* accepted: overlapping logins lock no one out, unless two keys share the
\* credential id. (updateCounter)
NoLockOut ==
    \A k \in Credentials : record[k] # NoKey /\ OfOneKey(k) =>
        record[k].counter <= keyring[record[k].key].counter

\* Logins and registrations by hardware key are safe: each part is about requests
\* that overlap, expire or fail half-way. (All handlers)
KeysSafe ==
    KeyTypeOK /\ NoReplay /\ RegisteredIsComplete /\ RecordsAreWhole /\ NoLockOut

\* "Challenges are one-time-use": no two requests succeed with one. Two that overlap
\* both read it before either deletes it. (FIDO2Service.ts:21)
ChallengesAreOneTime ==
    \A h, g \in Handlers :
        handlers[h].pc = "Verified" /\ handlers[g].pc = "Verified"
            /\ handlers[h].response.challenge = handlers[g].response.challenge => h = g

\* "Exclude already-registered credentials to prevent duplicates": no two
\* registrations of one credential id succeed. Options exclude the user's own
\* credentials, as they were when the options were made, and nothing else does.
\* (FIDO2Service.ts:65)
NoDuplicates ==
    \A r, q \in verified :
        r.kind = "Registration" /\ q.kind = "Registration" /\ r.credential = q.credential => r = q

=============================================================================
