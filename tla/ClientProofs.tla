----------------------------- MODULE ClientProofs -----------------------------
(***************************************************************************)
(* Proofs about the ways to vote that keep state of their own: the web page *)
(* with the hardware wallet it drives, and the telephone services.          *)
(***************************************************************************)
EXTENDS PhoneVoting, WebVote, SequenceTheorems, TLAPS

-----------------------------------------------------------------------------
(* The web page: the invariant *)

AllOptions == UNION {OptionsOf[p] : p \in PolicyIds}
Picks == [policy : PolicyIds, option : AllOptions]
PasskeySteps == {"Challenge", "Assertion", "Verdict", "Answer"}
WalletSteps == {"Connect", "Address", "Sign", "Answer", "Close", "Clear"}
Submissions == [pc : PasskeySteps \cup WalletSteps, kind : {"Passkey", "Wallet"}, chosen : Picks,
                signed : Picks \cup {NoChoice}, sent : Picks \cup {NoChoice}, app : Attempts \cup {Nothing}]
NoAttempts == {[pc |-> "Unused"], [pc |-> "Done"]}

WebTypes ==
    /\ phase \in Resting \cup Busy
    /\ options \subseteq AllOptions /\ selectedOption \in AllOptions \cup {Nothing}
    /\ choosing \in [PolicyIds -> Nat]
    /\ attempts \in [Attempts -> NoAttempts \cup Submissions]
    /\ signer \in [transport : Attempts \cup {Nothing}, ethApp : Attempts \cup {Nothing}]
    /\ signer.ethApp = signer.transport
    /\ overlapped \in BOOLEAN

\* Whatever may bring the options, or a submission, to the screen has a policy.
ScreenInv ==
    /\ phase = "policies" => countryCode \in Countries
    /\ (\/ phase \in {"options"} \cup Busy
        \/ \E p \in PolicyIds : choosing[p] > 0
        \/ \E t \in Attempts : Active(t))
       => countryCode \in Countries /\ selectedPolicy \in PolicyIds
    /\ phase \in Busy \/ (\E t \in Attempts : Active(t)) => selectedOption # Nothing

\* What is sent or about to be is what was chosen.
Faithful(a) ==
    /\ a.pc \in IF a.kind = "Wallet" THEN WalletSteps ELSE PasskeySteps
    /\ a.sent # NoChoice => a.sent = a.chosen
    /\ a.kind = "Wallet" /\ (a.pc = "Sign" \/ a.sent # NoChoice) => a.signed = a.chosen
AttemptInv == \A t \in Attempts : Active(t) => Faithful(attempts[t])

\* A signer that holds a connection does so for a submission under way, or could not
\* close it; and if no two overlapped, the connection open besides is that of the one
\* that is.
Connected(t) ==
    /\ Active(t) /\ IsWallet(t) /\ attempts[t].pc \in {"Address", "Sign", "Answer", "Close"}
    /\ open \subseteq {t} \cup unclosed /\ signer.transport = t
DeviceInv ==
    /\ signer # Released => WalletInUse \/ signer.transport \in unclosed
    /\ ~overlapped =>
          /\ \A t, u \in Attempts : Active(t) /\ IsWallet(t) /\ Active(u) /\ IsWallet(u) => t = u
          /\ open \subseteq unclosed \/ \E t \in Attempts : Connected(t)

WebInv == WebTypes /\ ScreenInv /\ AttemptInv /\ DeviceInv

-----------------------------------------------------------------------------
(* The web page: the steps *)

\* No option is nothing.
LEMMA OptionsAreSomething == Nothing \notin AllOptions
BY OptionAssumption DEF AllOptions

\* An attempt under way has its record.
LEMMA AttemptShape ==
    ASSUME WebTypes, NEW t \in Attempts, attempts[t].pc \notin {"Unused", "Done"}
    PROVE  attempts[t] \in Submissions
BY DEF WebTypes, NoAttempts

\* Where a submission goes on, the rest of it stays.
LEMMA AttemptAdvanced ==
    ASSUME NEW a \in Submissions, NEW pc \in PasskeySteps \cup WalletSteps
    PROVE  LET b == [a EXCEPT !.pc = pc]
           IN  /\ b \in Submissions /\ b.pc = pc /\ b.kind = a.kind /\ b.chosen = a.chosen
               /\ b.signed = a.signed /\ b.sent = a.sent
BY DEF Submissions

\* One submission goes on, or ends, and the page shows where it is or what was there.
LEMMA AttemptMoves ==
    ASSUME WebInv, NEW t \in Attempts, Active(t),
           NEW x \in Submissions \cup NoAttempts, x.pc # "Unused",
           attempts' = [attempts EXCEPT ![t] = x],
           x.pc # "Done" => x \in Submissions /\ x.kind = attempts[t].kind /\ Faithful(x),
           phase' = phase \/ phase' \in Busy \cup {"confirmed", "error"},
           UNCHANGED <<countryCode, selectedPolicy, selectedOption, options, choosing>>,
           signer' \in [transport : Attempts \cup {Nothing}, ethApp : Attempts \cup {Nothing}],
           signer'.ethApp = signer'.transport, overlapped' = overlapped
    PROVE  /\ WebTypes' /\ ScreenInv' /\ AttemptInv'
           /\ attempts'[t] = x /\ \A u \in Attempts \ {t} : attempts'[u] = attempts[u]
<1>1. WebTypes /\ ScreenInv /\ AttemptInv
    BY DEF WebInv
<1>2. attempts'[t] = x /\ \A u \in Attempts \ {t} : attempts'[u] = attempts[u]
    BY <1>1 DEF WebTypes
<1>3. WebTypes'
    BY <1>1 DEF WebTypes, Resting
<1>4. \A u \in Attempts : Active(u)' => u = t \/ Active(u)
    BY <1>2 DEF Active
<1>5. countryCode \in Countries /\ selectedPolicy \in PolicyIds /\ selectedOption # Nothing
    BY <1>1 DEF ScreenInv
<1>6. ScreenInv'
    BY <1>5 DEF ScreenInv
<1>7. AttemptInv'
    <2> SUFFICES ASSUME NEW u \in Attempts, Active(u)' PROVE Faithful(attempts'[u])
        BY DEF AttemptInv, Faithful
    <2>1. CASE u = t
        BY <1>2, <2>1 DEF Active
    <2>2. CASE u # t
        BY <1>1, <1>2, <2>2 DEF AttemptInv, Active
    <2>3. QED
        BY <2>1, <2>2
<1>8. QED
    BY <1>2, <1>3, <1>6, <1>7

\* If it leaves the device alone and stays one of its kind under way, so does the
\* device.
LEMMA DeviceRests ==
    ASSUME WebInv, UNCHANGED deviceVars, NEW t \in Attempts, Active(t),
           \A u \in Attempts \ {t} : attempts'[u] = attempts[u],
           IsWallet(t) => /\ Active(t)' /\ IsWallet(t)'
                          /\ attempts[t].pc \in {"Address", "Sign", "Answer", "Close"} =>
                                attempts'[t].pc \in {"Address", "Sign", "Answer", "Close"},
           Active(t)' /\ IsWallet(t)' => IsWallet(t)
    PROVE  DeviceInv'
<1>1. DeviceInv /\ UNCHANGED <<signer, open, unclosed, overlapped>>
    BY DEF WebInv, deviceVars
<1>2. \A u \in Attempts : (Active(u)' /\ IsWallet(u)') <=> (Active(u) /\ IsWallet(u))
    BY DEF Active, IsWallet
<1>3. WalletInUse' <=> WalletInUse
    BY <1>2 DEF WalletInUse
<1>4. \A u \in Attempts : Connected(u) => Connected(u)'
    BY <1>1, <1>2 DEF Connected
<1>5. ASSUME ~overlapped, NEW u \in Attempts, NEW v \in Attempts,
             Active(u)', IsWallet(u)', Active(v)', IsWallet(v)'
      PROVE  u = v
    BY <1>1, <1>2, <1>5 DEF DeviceInv
<1>6. ASSUME ~overlapped
      PROVE  open \subseteq unclosed \/ \E u \in Attempts : Connected(u)'
    BY <1>1, <1>4, <1>6 DEF DeviceInv
<1>7. signer' # Released => WalletInUse' \/ signer'.transport \in unclosed'
    BY <1>1, <1>3 DEF DeviceInv
<1>8. QED
    BY <1>1, <1>5, <1>6, <1>7 DEF DeviceInv

\* The submission sends what it was called with.
LEMMA SendStep ==
    ASSUME WebInv, NEW t \in Attempts,
           \/ attempts[t].pc = "Verdict"
           \/ attempts[t].pc = "Sign",
           Send(t), UNCHANGED deviceVars
    PROVE  WebInv'
<1> DEFINE a == attempts[t]
           x == [a EXCEPT !.pc = "Answer", !.sent = a.chosen]
<1>1. Active(t) /\ a \in Submissions /\ WebTypes
    BY AttemptShape DEF WebInv, Active
<1>2. /\ attempts' = [attempts EXCEPT ![t] = x] /\ phase' = "submitting"
      /\ UNCHANGED <<countryCode, selectedPolicy, selectedOption, options, choosing>>
    BY DEF Send, Body
<1>3. /\ x \in Submissions /\ x.pc = "Answer" /\ x.kind = a.kind /\ x.chosen = a.chosen /\ x.sent = a.chosen
      /\ x.signed = a.signed
    BY <1>1 DEF Submissions, PasskeySteps
<1>4. Faithful(a)
    BY <1>1 DEF WebInv, AttemptInv
<1>5. Faithful(x)
    BY <1>3, <1>4 DEF Faithful, PasskeySteps, WalletSteps
<1> HIDE DEF x
<1>6. /\ WebTypes' /\ ScreenInv' /\ AttemptInv'
      /\ attempts'[t] = x /\ \A u \in Attempts \ {t} : attempts'[u] = attempts[u]
    <2>1. UNCHANGED <<signer, overlapped>>
        BY DEF deviceVars
    <2>2. QED
        BY <1>1, <1>2, <1>3, <1>5, <2>1, AttemptMoves DEF Busy, WebTypes
<1>7. DeviceInv'
    BY <1>1, <1>3, <1>6, DeviceRests DEF Active, IsWallet
<1>8. QED
    BY <1>6, <1>7 DEF WebInv

\* A submission goes on, ends or fails, nothing sent.
LEMMA DisplayStep ==
    ASSUME WebInv, NEW t \in Attempts, Active(t),
           NEW pc \in PasskeySteps \cup WalletSteps \cup {"Done"}, NEW shown,
           Display(t, pc, shown), UNCHANGED deviceVars,
           shown = phase \/ shown \in {"confirmed", "error"},
           pc = "Done" => ~IsWallet(t),
           IsWallet(t) => pc = "Close" /\ attempts[t].pc \notin {"Close", "Clear"},
           ~IsWallet(t) => pc \in {"Assertion", "Verdict", "Done"}
    PROVE  WebInv'
<1> DEFINE a == attempts[t]
           x == IF pc = "Done" THEN [pc |-> "Done"] ELSE [a EXCEPT !.pc = pc]
<1>1. a \in Submissions /\ WebTypes /\ Faithful(a)
    BY AttemptShape DEF WebInv, Active, AttemptInv
<1>2. /\ attempts' = [attempts EXCEPT ![t] = x] /\ phase' = shown
      /\ UNCHANGED <<countryCode, selectedPolicy, selectedOption, options, choosing>>
    BY DEF Display, Advance
<1>3. pc # "Done" => /\ x \in Submissions /\ x.pc = pc /\ x.kind = a.kind /\ x.chosen = a.chosen
                     /\ x.signed = a.signed /\ x.sent = a.sent
    BY <1>1, AttemptAdvanced
<1>4. x \in Submissions \cup NoAttempts /\ x.pc = pc
    BY <1>3 DEF NoAttempts
<1> HIDE DEF x
<1>5. pc # "Done" => Faithful(x)
    BY <1>1, <1>3 DEF Faithful, WalletSteps, PasskeySteps, IsWallet
<1>6. pc # "Unused"
    BY DEF PasskeySteps, WalletSteps
<1>7. /\ WebTypes' /\ ScreenInv' /\ AttemptInv'
      /\ attempts'[t] = x /\ \A u \in Attempts \ {t} : attempts'[u] = attempts[u]
    <2>1. UNCHANGED <<signer, overlapped>>
        BY DEF deviceVars
    <2>2. QED
        BY <1>1, <1>2, <1>3, <1>4, <1>5, <1>6, <2>1, AttemptMoves DEF WebTypes
<1>8. DeviceInv'
    <2>1. IsWallet(t) => /\ Active(t)' /\ IsWallet(t)' /\ attempts'[t].pc = "Close"
        BY <1>3, <1>7 DEF Active, IsWallet
    <2>2. Active(t)' /\ IsWallet(t)' => IsWallet(t)
        BY <1>3, <1>4, <1>7 DEF Active, IsWallet
    <2>3. QED
        BY <1>7, <2>1, <2>2, DeviceRests
<1>9. QED
    BY <1>7, <1>8 DEF WebInv

\* connect: the signer holds the new connection, the only one if no two submissions
\* overlap.
LEMMA ConnectStep ==
    ASSUME WebInv, NEW t \in Attempts, Connect(t)
    PROVE  WebInv'
<1> DEFINE a == attempts[t]
           x == [a EXCEPT !.pc = "Address", !.app = t]
<1>1. /\ a.pc = "Connect" /\ attempts' = [attempts EXCEPT ![t] = x] /\ phase' = phase
      /\ open' = open \cup {t} /\ signer' = [transport |-> t, ethApp |-> t]
      /\ UNCHANGED <<unclosed, overlapped, countryCode, selectedPolicy, selectedOption, options, choosing>>
    BY DEF Connect, pageVars
<1>2. Active(t) /\ a \in Submissions /\ WebTypes /\ Faithful(a) /\ DeviceInv
    BY <1>1, AttemptShape DEF WebInv, Active, AttemptInv
<1>3. a.kind = "Wallet"
    BY <1>1, <1>2 DEF Faithful, PasskeySteps
<1>4. /\ x \in Submissions /\ x.pc = "Address" /\ x.kind = a.kind /\ x.chosen = a.chosen /\ x.sent = a.sent
      /\ x.signed = a.signed
    BY <1>2 DEF WalletSteps, Submissions
<1> HIDE DEF x
<1>5. Faithful(x)
    BY <1>2, <1>3, <1>4 DEF Faithful, WalletSteps
<1>6. /\ WebTypes' /\ ScreenInv' /\ AttemptInv'
      /\ attempts'[t] = x /\ \A u \in Attempts \ {t} : attempts'[u] = attempts[u]
    BY <1>1, <1>2, <1>4, <1>5, AttemptMoves
<1>7. \A u \in Attempts : (Active(u)' /\ IsWallet(u)') <=> (Active(u) /\ IsWallet(u))
    BY <1>2, <1>3, <1>4, <1>6 DEF Active, IsWallet
<1>8. Active(t)' /\ IsWallet(t)'
    BY <1>2, <1>3, <1>7 DEF IsWallet
<1>9. DeviceInv'
    <2>1. WalletInUse'
        BY <1>8 DEF WalletInUse
    <2>2. ASSUME ~overlapped, NEW u \in Attempts, NEW v \in Attempts,
                 Active(u)', IsWallet(u)', Active(v)', IsWallet(v)'
          PROVE  u = v
        BY <1>2, <1>7, <2>2 DEF DeviceInv
    <2>3. ASSUME ~overlapped PROVE Connected(t)'
        <3>1. open \subseteq unclosed
            <4> SUFFICES ASSUME NEW u \in Attempts, Connected(u) PROVE FALSE
                BY <1>2, <2>3 DEF DeviceInv
            <4>1. u = t
                BY <1>2, <1>3, <2>3 DEF DeviceInv, Connected, IsWallet
            <4>2. QED
                BY <1>1, <4>1 DEF Connected
        <3>2. QED
            BY <1>1, <1>4, <1>6, <1>8, <3>1 DEF Connected
    <2>4. QED
        BY <1>1, <2>1, <2>2, <2>3 DEF DeviceInv
<1>10. QED
    BY <1>6, <1>9 DEF WebInv

\* The device is given what the submission was called with to sign.
LEMMA AddressStep ==
    ASSUME WebInv, NEW t \in Attempts, Address(t)
    PROVE  WebInv'
<1> DEFINE a == attempts[t]
           x == [a EXCEPT !.pc = "Sign", !.app = signer.ethApp, !.signed = a.chosen]
<1>1. /\ a.pc = "Address" /\ attempts' = [attempts EXCEPT ![t] = x] /\ phase' = "hw_awaiting"
      /\ UNCHANGED deviceVars
      /\ UNCHANGED <<countryCode, selectedPolicy, selectedOption, options, choosing>>
    BY DEF Address, Body
<1>2. Active(t) /\ a \in Submissions /\ WebTypes /\ Faithful(a)
    BY <1>1, AttemptShape DEF WebInv, Active, AttemptInv
<1>3. a.kind = "Wallet"
    BY <1>1, <1>2 DEF Faithful, PasskeySteps
<1>4. /\ x \in Submissions /\ x.pc = "Sign" /\ x.kind = a.kind /\ x.chosen = a.chosen /\ x.sent = a.sent
      /\ x.signed = a.chosen
    BY <1>2 DEF WalletSteps, Submissions, WebTypes
<1> HIDE DEF x
<1>5. Faithful(x)
    BY <1>2, <1>3, <1>4 DEF Faithful, WalletSteps
<1>6. /\ WebTypes' /\ ScreenInv' /\ AttemptInv'
      /\ attempts'[t] = x /\ \A u \in Attempts \ {t} : attempts'[u] = attempts[u]
    <2>1. UNCHANGED <<signer, overlapped>>
        BY <1>1 DEF deviceVars
    <2>2. QED
        BY <1>1, <1>2, <1>4, <1>5, <2>1, AttemptMoves DEF Busy, WebTypes
<1>7. DeviceInv'
    BY <1>1, <1>2, <1>4, <1>6, DeviceRests DEF Active, IsWallet
<1>8. QED
    BY <1>6, <1>7 DEF WebInv

\* disconnect, first half: the transport the signer holds is closed, which is the
\* only one open, but for those that could not be closed, if no two submissions
\* overlap.
LEMMA CloseStep ==
    ASSUME WebInv, NEW t \in Attempts, Close(t)
    PROVE  WebInv'
<1> DEFINE a == attempts[t]
           x == [a EXCEPT !.pc = "Clear"]
<1>1. /\ a.pc = "Close" /\ attempts' = [attempts EXCEPT ![t] = x] /\ open' = open \ {signer.transport}
      /\ UNCHANGED <<signer, unclosed, overlapped>>
      /\ UNCHANGED <<phase, countryCode, selectedPolicy, selectedOption, options, choosing>>
    BY DEF Close, Advance, pageVars
<1>2. Active(t) /\ a \in Submissions /\ WebTypes /\ Faithful(a) /\ DeviceInv
    BY <1>1, AttemptShape DEF WebInv, Active, AttemptInv
<1>3. a.kind = "Wallet"
    BY <1>1, <1>2 DEF Faithful, PasskeySteps
<1>4. /\ x \in Submissions /\ x.pc = "Clear" /\ x.kind = a.kind /\ x.chosen = a.chosen /\ x.sent = a.sent
      /\ x.signed = a.signed
    BY <1>2, AttemptAdvanced DEF WalletSteps
<1> HIDE DEF x
<1>5. Faithful(x)
    BY <1>2, <1>3, <1>4 DEF Faithful, WalletSteps
<1>6. /\ WebTypes' /\ ScreenInv' /\ AttemptInv'
      /\ attempts'[t] = x /\ \A u \in Attempts \ {t} : attempts'[u] = attempts[u]
    BY <1>1, <1>2, <1>4, <1>5, AttemptMoves DEF WebTypes
<1>7. \A u \in Attempts : (Active(u)' /\ IsWallet(u)') <=> (Active(u) /\ IsWallet(u))
    BY <1>2, <1>3, <1>4, <1>6 DEF Active, IsWallet
<1>8. DeviceInv'
    <2>1. WalletInUse'
        BY <1>2, <1>3, <1>7 DEF WalletInUse, IsWallet
    <2>2. ASSUME ~overlapped, NEW u \in Attempts, NEW v \in Attempts,
                 Active(u)', IsWallet(u)', Active(v)', IsWallet(v)'
          PROVE  u = v
        BY <1>2, <1>7, <2>2 DEF DeviceInv
    <2>3. ASSUME ~overlapped PROVE open' \subseteq unclosed
        BY <1>1, <1>2, <2>3 DEF DeviceInv, Connected
    <2>4. QED
        BY <1>1, <2>1, <2>2, <2>3 DEF DeviceInv
<1>9. QED
    BY <1>6, <1>8 DEF WebInv

\* disconnect fails: the transport the signer holds is one that could not be closed.
LEMMA CloseFailsStep ==
    ASSUME WebInv, NEW t \in Attempts, CloseFails(t)
    PROVE  WebInv'
<1> DEFINE a == attempts[t]
           x == [pc |-> "Done"]
<1>1. /\ a.pc = "Close" /\ attempts' = [attempts EXCEPT ![t] = x] /\ open' \subseteq open
      /\ unclosed' = unclosed \cup {signer.transport}
      /\ UNCHANGED <<signer, overlapped>>
      /\ UNCHANGED <<phase, countryCode, selectedPolicy, selectedOption, options, choosing>>
    BY DEF CloseFails, Advance, pageVars
<1>2. Active(t) /\ a \in Submissions /\ WebTypes /\ Faithful(a) /\ DeviceInv
    BY <1>1, AttemptShape DEF WebInv, Active, AttemptInv
<1>3. a.kind = "Wallet"
    BY <1>1, <1>2 DEF Faithful, PasskeySteps
<1>4. x \in NoAttempts /\ x.pc = "Done"
    BY DEF NoAttempts
<1> HIDE DEF x
<1>5. /\ WebTypes' /\ ScreenInv' /\ AttemptInv'
      /\ attempts'[t] = x /\ \A u \in Attempts \ {t} : attempts'[u] = attempts[u]
    BY <1>1, <1>2, <1>4, AttemptMoves DEF WebTypes
<1>6. \A u \in Attempts : (Active(u)' /\ IsWallet(u)') => (Active(u) /\ IsWallet(u))
    BY <1>4, <1>5 DEF Active, IsWallet
<1>7. DeviceInv'
    <2>1. ASSUME ~overlapped, NEW u \in Attempts, NEW v \in Attempts,
                 Active(u)', IsWallet(u)', Active(v)', IsWallet(v)'
          PROVE  u = v
        BY <1>2, <1>6, <2>1 DEF DeviceInv
    <2>2. ASSUME ~overlapped PROVE open' \subseteq unclosed'
        <3>1. CASE open \subseteq unclosed
            BY <1>1, <3>1
        <3>2. ASSUME NEW u \in Attempts, Connected(u) PROVE open' \subseteq unclosed'
            <4>1. u = t
                BY <1>2, <1>3, <2>2, <3>2 DEF DeviceInv, Connected, IsWallet
            <4>2. QED
                BY <1>1, <3>2, <4>1 DEF Connected
        <3>3. QED
            BY <1>2, <2>2, <3>1, <3>2 DEF DeviceInv
    <2>3. QED
        BY <1>1, <2>1, <2>2 DEF DeviceInv
<1>8. QED
    BY <1>5, <1>7 DEF WebInv

\* disconnect, second half: the signer forgets.
LEMMA ClearStep ==
    ASSUME WebInv, NEW t \in Attempts, Clear(t)
    PROVE  WebInv'
<1> DEFINE a == attempts[t]
           x == [pc |-> "Done"]
<1>1. /\ a.pc = "Clear" /\ attempts' = [attempts EXCEPT ![t] = x] /\ signer' = Released
      /\ UNCHANGED <<open, unclosed, overlapped>>
      /\ UNCHANGED <<phase, countryCode, selectedPolicy, selectedOption, options, choosing>>
    BY DEF Clear, Advance, pageVars
<1>2. Active(t) /\ a \in Submissions /\ WebTypes /\ Faithful(a) /\ DeviceInv
    BY <1>1, AttemptShape DEF WebInv, Active, AttemptInv
<1>3. a.kind = "Wallet"
    BY <1>1, <1>2 DEF Faithful, PasskeySteps
<1>4. x \in NoAttempts /\ x.pc = "Done"
    BY DEF NoAttempts
<1> HIDE DEF x
<1>5. signer' \in [transport : Attempts \cup {Nothing}, ethApp : Attempts \cup {Nothing}]
      /\ signer'.ethApp = signer'.transport
    BY <1>1 DEF Released
<1>6. /\ WebTypes' /\ ScreenInv' /\ AttemptInv'
      /\ attempts'[t] = x /\ \A u \in Attempts \ {t} : attempts'[u] = attempts[u]
    BY <1>1, <1>2, <1>4, <1>5, AttemptMoves
<1>7. \A u \in Attempts : (Active(u)' /\ IsWallet(u)') => (Active(u) /\ IsWallet(u))
    BY <1>4, <1>6 DEF Active, IsWallet
<1>8. DeviceInv'
    <2>1. ASSUME ~overlapped, NEW u \in Attempts, NEW v \in Attempts,
                 Active(u)', IsWallet(u)', Active(v)', IsWallet(v)'
          PROVE  u = v
        BY <1>2, <1>7, <2>1 DEF DeviceInv
    <2>2. ASSUME ~overlapped PROVE open \subseteq unclosed
        <3> SUFFICES ASSUME NEW u \in Attempts, Connected(u) PROVE FALSE
            BY <1>2, <2>2 DEF DeviceInv
        <3>1. u = t
            BY <1>2, <1>3, <2>2 DEF DeviceInv, Connected, IsWallet
        <3>2. QED
            BY <1>1, <3>1 DEF Connected
    <2>3. QED
        BY <1>1, <2>1, <2>2 DEF DeviceInv
<1>9. QED
    BY <1>6, <1>8 DEF WebInv

\* A click on a submit button: a policy and an option are on screen.
LEMMA BeginStep ==
    ASSUME WebInv, NEW t \in Attempts, submitVote(t) \/ submitWithHardwareWallet(t)
    PROVE  WebInv'
<1>1. PICK kd \in {"Passkey", "Wallet"}, pc \in {"Connect", "Challenge"}, shown \in Busy :
          /\ Begin(t, kd, pc, shown) /\ UNCHANGED <<signer, open, unclosed>>
          /\ pc = IF kd = "Wallet" THEN "Connect" ELSE "Challenge"
          /\ overlapped' = (overlapped \/ (kd = "Wallet" /\ WalletInUse))
    <2>1. CASE submitVote(t)
        <3>1. Begin(t, "Passkey", "Challenge", "authenticating") /\ UNCHANGED <<signer, open, unclosed, overlapped>>
            BY <2>1 DEF submitVote, deviceVars
        <3>2. overlapped' = (overlapped \/ ("Passkey" = "Wallet" /\ WalletInUse))
            BY <3>1 DEF WebInv, WebTypes
        <3>3. QED
            BY <3>1, <3>2 DEF Busy
    <2>2. CASE submitWithHardwareWallet(t)
        <3>1. Begin(t, "Wallet", "Connect", "hw_connecting") /\ UNCHANGED <<signer, open, unclosed>>
              /\ overlapped' = (overlapped \/ WalletInUse)
            BY <2>2 DEF submitWithHardwareWallet
        <3>2. overlapped' = (overlapped \/ ("Wallet" = "Wallet" /\ WalletInUse))
            BY <3>1
        <3>3. QED
            BY <3>1, <3>2 DEF Busy
    <2>3. QED
        BY <2>1, <2>2
<1> DEFINE x == [pc |-> pc, kind |-> kd, chosen |-> Chosen, signed |-> NoChoice, sent |-> NoChoice,
                 app |-> Nothing]
<1>2. /\ phase = "options" /\ selectedOption # Nothing /\ attempts[t].pc = "Unused"
      /\ attempts' = [attempts EXCEPT ![t] = x] /\ phase' = shown
      /\ UNCHANGED <<countryCode, selectedPolicy, options, selectedOption, choosing>>
    BY <1>1 DEF Begin, SubmitButtons
<1>3. WebTypes /\ ScreenInv /\ AttemptInv /\ DeviceInv
    BY DEF WebInv
<1>4. countryCode \in Countries /\ selectedPolicy \in PolicyIds /\ selectedOption \in AllOptions
    BY <1>2, <1>3 DEF ScreenInv, WebTypes
<1>5. Chosen \in Picks
    BY <1>4 DEF Chosen, Picks
<1>6. /\ x \in Submissions /\ x.pc = pc /\ x.kind = kd /\ x.sent = NoChoice
      /\ pc \notin {"Unused", "Done", "Sign"}
    BY <1>1, <1>5 DEF Submissions, WalletSteps, PasskeySteps
<1>7. Faithful(x)
    BY <1>1, <1>6 DEF Faithful, WalletSteps, PasskeySteps
<1> HIDE DEF x
<1>8. attempts'[t] = x /\ \A u \in Attempts \ {t} : attempts'[u] = attempts[u]
    BY <1>2, <1>3 DEF WebTypes
<1>9. WebTypes'
    <2>1. overlapped' \in BOOLEAN
        BY <1>1
    <2>2. QED
        BY <1>1, <1>2, <1>3, <1>6, <2>1 DEF WebTypes
<1>10. ScreenInv'
    BY <1>2, <1>4 DEF ScreenInv
<1>11. AttemptInv'
    <2> SUFFICES ASSUME NEW u \in Attempts, Active(u)' PROVE Faithful(attempts'[u])
        BY DEF AttemptInv, Faithful
    <2>1. QED
        BY <1>3, <1>7, <1>8 DEF AttemptInv, Active
<1>12. DeviceInv'
    <2>1. \A u \in Attempts : Active(u) /\ IsWallet(u) => u # t /\ Active(u)' /\ IsWallet(u)'
        BY <1>2, <1>8 DEF Active, IsWallet
    <2>2. \A u \in Attempts : Active(u)' /\ IsWallet(u)' =>
              (Active(u) /\ IsWallet(u)) \/ (u = t /\ kd = "Wallet")
        BY <1>6, <1>8 DEF Active, IsWallet
    <2>3. signer' # Released => WalletInUse' \/ signer'.transport \in unclosed'
        BY <1>1, <1>3, <2>1 DEF DeviceInv, WalletInUse
    <2>4. ASSUME ~overlapped', NEW u \in Attempts, NEW v \in Attempts,
                 Active(u)', IsWallet(u)', Active(v)', IsWallet(v)'
          PROVE  u = v
        <3>1. ~overlapped /\ (kd = "Wallet" => ~WalletInUse)
            BY <1>1, <2>4
        <3>2. CASE kd = "Wallet"
            BY <2>2, <2>4, <3>1, <3>2 DEF WalletInUse
        <3>3. CASE kd # "Wallet"
            BY <1>3, <2>2, <2>4, <3>1, <3>3 DEF DeviceInv
        <3>4. QED
            BY <3>2, <3>3
    <2>5. ASSUME ~overlapped', ~(open' \subseteq unclosed') PROVE \E u \in Attempts : Connected(u)'
        <3>1. ~overlapped /\ ~(open \subseteq unclosed)
            BY <1>1, <2>5
        <3>2. PICK u \in Attempts : Connected(u)
            BY <1>3, <3>1 DEF DeviceInv
        <3>3. Connected(u)'
            BY <1>1, <1>8, <2>1, <3>2 DEF Connected
        <3>4. QED
            BY <3>3
    <2>6. QED
        BY <2>3, <2>4, <2>5 DEF DeviceInv
<1>13. QED
    BY <1>9, <1>10, <1>11, <1>12 DEF WebInv

\* What is no submission leaves those and the device alone.
LEMMA AttemptsRest ==
    ASSUME WebInv, UNCHANGED <<signer, open, unclosed, overlapped, attempts>>
    PROVE  AttemptInv' /\ DeviceInv'
<1>1. AttemptInv'
    BY DEF WebInv, AttemptInv, Active, Faithful
<1>2. DeviceInv'
    BY DEF WebInv, DeviceInv, WalletInUse, Connected, Active, IsWallet
<1>3. QED
    BY <1>1, <1>2

\* The voter chooses, and answers arrive, late or not.
LEMMA ChoosingStep ==
    ASSUME WebInv,
           \/ \E code \in Countries : loadPolicies(code) \/ PoliciesAnswer(code)
           \/ \E p \in PolicyIds : selectPolicy(p) \/ OptionsAnswer(p)
           \/ \E o \in options : setOption(o)
           \/ StartAgain
    PROVE  WebInv'
<1>1. WebTypes /\ ScreenInv
    BY DEF WebInv
<1>2. UNCHANGED <<signer, open, unclosed, overlapped, attempts>>
    BY DEF loadPolicies, PoliciesAnswer, selectPolicy, OptionsAnswer, setOption, StartAgain, deviceVars
<1>3. \A t \in Attempts : Active(t)' <=> Active(t)
    BY <1>2 DEF Active
<1>4. WebTypes' /\ ScreenInv'
    <2>1. ASSUME NEW code \in Countries, loadPolicies(code) PROVE WebTypes' /\ ScreenInv'
        <3>1. /\ phase' = "policies" /\ countryCode' = code
              /\ UNCHANGED <<options, selectedOption, selectedPolicy, choosing>>
            BY <2>1 DEF loadPolicies
        <3>2. WebTypes'
            BY <1>1, <1>2, <3>1 DEF WebTypes, Resting
        <3>3. ScreenInv'
            BY <1>1, <1>3, <3>1 DEF ScreenInv, Busy
        <3>4. QED
            BY <3>2, <3>3
    <2>2. ASSUME NEW code \in Countries, PoliciesAnswer(code) PROVE WebTypes' /\ ScreenInv'
        <3>1. /\ phase' = phase \/ phase' = "error"
              /\ UNCHANGED <<countryCode, options, selectedOption, selectedPolicy, choosing>>
            BY <2>2 DEF PoliciesAnswer
        <3>2. WebTypes'
            BY <1>1, <1>2, <3>1 DEF WebTypes, Resting
        <3>3. ScreenInv'
            BY <1>1, <1>3, <3>1 DEF ScreenInv, Busy
        <3>4. QED
            BY <3>2, <3>3
    <2>3. ASSUME NEW p \in PolicyIds, selectPolicy(p) PROVE WebTypes' /\ ScreenInv'
        <3>1. /\ phase = "policies" /\ phase' = phase /\ selectedPolicy' = p
              /\ choosing' = [choosing EXCEPT ![p] = @ + 1]
              /\ UNCHANGED <<countryCode, options, selectedOption>>
            BY <2>3 DEF selectPolicy, PolicyScreen
        <3>2. WebTypes'
            BY <1>1, <1>2, <3>1 DEF WebTypes
        <3>3. countryCode \in Countries
            BY <1>1, <3>1 DEF ScreenInv
        <3>4. ScreenInv'
            BY <1>1, <1>3, <3>1, <3>3 DEF ScreenInv
        <3>5. QED
            BY <3>2, <3>4
    <2>4. ASSUME NEW p \in PolicyIds, OptionsAnswer(p) PROVE WebTypes' /\ ScreenInv'
        <3>1. /\ choosing[p] > 0 /\ choosing' = [choosing EXCEPT ![p] = @ - 1]
              /\ phase' = "options" \/ phase' = "error"
              /\ options' = OptionsOf[p] \/ options' = options
              /\ UNCHANGED <<countryCode, selectedPolicy, selectedOption>>
            BY <2>4 DEF OptionsAnswer
        <3>2. choosing' \in [PolicyIds -> Nat]
            BY <1>1, <3>1 DEF WebTypes
        <3>3. OptionsOf[p] \subseteq AllOptions
            BY DEF AllOptions
        <3>4. WebTypes'
            BY <1>1, <1>2, <3>1, <3>2, <3>3 DEF WebTypes, Resting
        <3>5. countryCode \in Countries /\ selectedPolicy \in PolicyIds
            BY <1>1, <3>1 DEF ScreenInv
        <3>6. ScreenInv'
            BY <1>1, <1>3, <3>1, <3>5 DEF ScreenInv, Busy
        <3>7. QED
            BY <3>4, <3>6
    <2>5. ASSUME NEW o \in options, setOption(o) PROVE WebTypes' /\ ScreenInv'
        <3>1. selectedOption' = o /\ UNCHANGED <<phase, countryCode, options, selectedPolicy, choosing>>
            BY <2>5 DEF setOption
        <3>2. o \in AllOptions /\ o # Nothing
            BY <1>1, OptionsAreSomething DEF WebTypes
        <3>3. WebTypes'
            BY <1>1, <1>2, <3>1, <3>2 DEF WebTypes
        <3>4. ScreenInv'
            BY <1>1, <1>3, <3>1, <3>2 DEF ScreenInv
        <3>5. QED
            BY <3>3, <3>4
    <2>6. ASSUME StartAgain PROVE WebTypes' /\ ScreenInv'
        <3>1. phase' = "country" /\ UNCHANGED <<countryCode, options, selectedOption, selectedPolicy, choosing>>
            BY <2>6 DEF StartAgain
        <3>2. WebTypes'
            BY <1>1, <1>2, <3>1 DEF WebTypes, Resting
        <3>3. ScreenInv'
            BY <1>1, <1>3, <3>1 DEF ScreenInv, Busy
        <3>4. QED
            BY <3>2, <3>3
    <2>7. QED
        BY <2>1, <2>2, <2>3, <2>4, <2>5, <2>6
<1>5. AttemptInv' /\ DeviceInv'
    BY <1>2, AttemptsRest
<1>6. QED
    BY <1>4, <1>5 DEF WebInv

\* Every step of a submission keeps the invariant.
LEMMA ResumeStep ==
    ASSUME WebInv, NEW t \in Attempts, Resume(t)
    PROVE  WebInv'
<1>0. ASSUME attempts[t].pc \notin {"Unused", "Done"}
      PROVE  /\ Active(t) /\ attempts[t] \in Submissions
             /\ attempts[t].pc \in IF IsWallet(t) THEN WalletSteps ELSE PasskeySteps
    BY <1>0, AttemptShape DEF WebInv, Active, AttemptInv, Faithful, IsWallet
<1>1. CASE Authenticate(t)
    <2>1. CASE attempts[t].pc = "Verdict"
        BY <1>1, <2>1, SendStep DEF Authenticate
    <2>2. CASE attempts[t].pc # "Verdict"
        <3>1. PICK pc \in {"Assertion", "Verdict"} :
                  /\ attempts[t].pc \in {"Challenge", "Assertion"} /\ Display(t, pc, phase) /\ UNCHANGED deviceVars
            BY <1>1, <2>2 DEF Authenticate
        <3>2. Active(t) /\ ~IsWallet(t)
            BY <1>0, <3>1 DEF WalletSteps
        <3>3. pc \in PasskeySteps
            BY DEF PasskeySteps
        <3>4. QED
            BY <3>1, <3>2, <3>3, DisplayStep
    <2>3. QED
        BY <2>1, <2>2
<1>2. CASE Sign(t)
    BY <1>2, SendStep DEF Sign
<1>3. CASE Confirmed(t) \/ Fails(t)
    <2>1. PICK shown \in {"confirmed", "error"} :
              /\ attempts[t].pc \in {"Challenge", "Assertion", "Verdict", "Connect", "Address", "Sign", "Answer"}
              /\ Display(t, Finish(t), shown) /\ UNCHANGED deviceVars
        BY <1>3 DEF Confirmed, Fails
    <2>2. Active(t)
        BY <1>0, <2>1
    <2>3. CASE IsWallet(t)
        <3>1. Finish(t) = "Close" /\ "Close" \in WalletSteps
            BY <2>3 DEF Finish, WalletSteps
        <3>2. QED
            BY <2>1, <2>2, <2>3, <3>1, DisplayStep
    <2>4. CASE ~IsWallet(t)
        <3>1. Finish(t) = "Done"
            BY <2>4 DEF Finish
        <3>2. QED
            BY <2>1, <2>2, <2>4, <3>1, DisplayStep
    <2>5. QED
        BY <2>3, <2>4
<1>4. QED
    BY <1>1, <1>2, <1>3, ConnectStep, AddressStep, CloseStep, CloseFailsStep, ClearStep DEF Resume

\* The page and its wallet, of any policies and any number of submissions, keep
\* their invariant.
THEOREM WebPageInvariant == WebSpec => []WebInv
<1>1. WebInit => WebInv
    <2> SUFFICES ASSUME WebInit PROVE WebInv
        OBVIOUS
    <2>1. \A t \in Attempts : ~Active(t)
        BY DEF WebInit, Active
    <2>2. WebTypes
        BY DEF WebInit, WebTypes, Resting, NoAttempts, Released
    <2>3. ScreenInv
        BY <2>1 DEF WebInit, ScreenInv, Busy
    <2>4. AttemptInv /\ DeviceInv
        BY <2>1 DEF WebInit, AttemptInv, DeviceInv
    <2>5. QED
        BY <2>2, <2>3, <2>4 DEF WebInv
<1>2. WebInv /\ [WebNext]_webVars => WebInv'
    <2> SUFFICES ASSUME WebInv, [WebNext]_webVars PROVE WebInv'
        OBVIOUS
    <2>1. CASE UNCHANGED webVars
        <3>1. /\ UNCHANGED <<phase, countryCode, policies, selectedPolicy, options, selectedOption>>
              /\ UNCHANGED <<signer, open, unclosed, overlapped, loading, choosing, attempts>>
            BY <2>1 DEF webVars, pageVars, deviceVars
        <3>2. WebTypes' /\ ScreenInv'
            BY <3>1 DEF WebInv, WebTypes, ScreenInv, Active
        <3>3. QED
            BY <3>1, <3>2, AttemptsRest DEF WebInv
    <2>2. QED
        BY <2>1, ChoosingStep, BeginStep, ResumeStep DEF WebNext
<1>3. WebSpec => WebInit /\ [][WebNext]_webVars
    BY PTL DEF WebSpec
<1>4. QED
    BY <1>1, <1>2, <1>3, PTL

\* submitVote, submitWithHardwareWallet: whatever answers come late and whatever is
\* clicked meanwhile, the page shows no submission without a policy, what is sent and
\* signed is what was chosen, and the device is let go unless closing it fails.
THEOREM WebPageIsSafe == WebSpec => []WebSafe
<1>1. WebInv => WebSafe
    <2> SUFFICES ASSUME WebInv PROVE WebSafe
        OBVIOUS
    <2>1. WebTypeOK
        BY DEF WebInv, WebTypes, ScreenInv, WebTypeOK
    <2>2. SubmittedAsChosen
        BY DEF WebInv, AttemptInv, Faithful, SubmittedAsChosen, IsWallet
    <2>3. DeviceReleased
        BY DEF WebInv, DeviceInv, DeviceReleased, WalletInUse, Connected
    <2>4. QED
        BY <2>1, <2>2, <2>3 DEF WebSafe
<1>2. QED
    BY <1>1, WebPageInvariant, PTL

-----------------------------------------------------------------------------
(* The telephone services: the invariant *)

Outcomes == {"None", "Recorded", "AlreadyVoted", "SubmissionFailed", "Error"}
Votes == [pc : {"Check", "Submit", "Add", "Replied"}, reply : Outcomes,
          from : Allowed, policy : Texted, before : BOOLEAN]
NotVotes == {[pc |-> "Unsent"], [pc |-> "Replied", reply |-> "Information"]}

\* A vote is marked only after some vote of that number on that policy was
\* submitted; one whose sender had been told before never gets past the check.
MarkedInv ==
    /\ \A n \in smsNullifiers : \E k \in submitted : Voter(k) = n
    /\ \A t \in told : t[1] = "SMS" => t[2] \in smsNullifiers
MessageInv(m) ==
    /\ messages[m] \in Votes /\ messages[m].before =>
          m \notin submitted /\ Voter(m) \in smsNullifiers /\ messages[m].pc \in {"Check", "Replied"}
    /\ m \in submitted => messages[m] \in Votes /\ messages[m].pc \notin {"Check", "Submit"}
    /\ messages[m].pc = "Add" => m \in submitted
    /\ messages[m].pc = "Replied" =>
          /\ messages[m].reply = "Recorded" => m \in submitted /\ Voter(m) \in smsNullifiers
          /\ messages[m].reply = "AlreadyVoted" => m \notin submitted /\ Voter(m) \in smsNullifiers
          /\ messages[m].reply \in {"None", "Information", "Error"} => m \notin submitted
SmsInv ==
    /\ smsNullifiers \subseteq Allowed \X Texted /\ submitted \subseteq Messages
    /\ messages \in [Messages -> Votes \cup NotVotes]
    /\ MarkedInv /\ \A m \in Messages : MessageInv(m)

Pages == 0..(Len(POLICIES) - 1)
Sessions ==
    [step : {0}, index : Pages] \cup [step : {1}, index : Pages, policy : Policies]
        \cup [step : {2}, index : Pages, policy : Policies, option : Options]
Screens ==
    {Menu(i) : i \in Pages} \cup {ChooseOption(p) : p \in Policies}
        \cup {ConfirmVote(p, o) : p \in Policies, o \in Options}
        \cup {End(t) : t \in {"Over", "Recorded", "AlreadyVoted"}}
Phones == [screen : Screens, input : Keys \cup {Root}, key : Keys \cup {Root}, waiting : BOOLEAN]
Requests == [pc : {"Handle", "Add", "DropVoted", "DropRecorded"}, session : Sessions, before : BOOLEAN]

\* A session at the confirmation is on its caller's screen, unless the call is over.
ConfirmInv(s) ==
    sessions[s].step = 2 => \/ phone[s].screen.at = "End"
                            \/ phone[s].screen = ConfirmVote(sessions[s].policy, sessions[s].option)

\* A session past the policy screen is of a call in which a key was pressed.
KeyedInv(s) ==
    sessions[s].step \in 1..2 => phone[s].screen.at = "End" \/ phone[s].key # Root

\* A request under way holds the session as it was stored, and what it confirms is
\* on the screen; past the check, its caller had not been told before.
RequestInv(s) ==
    requests[s] # Idle =>
        /\ sessions[s] \in {None, requests[s].session}
        /\ requests[s].session.step = 2 =>
              /\ phone[s].screen = ConfirmVote(requests[s].session.policy, requests[s].session.option)
              /\ requests[s].before => UssdVoter(s) \in ussdNullifiers
        /\ phone[s].key = Root => requests[s].session.step = 0
        /\ phone[s].input \in {Root, phone[s].key}
        /\ requests[s].pc # "Handle" => requests[s].session.step = 2 /\ phone[s].key = 1
        /\ requests[s].pc \in {"Add", "DropRecorded"} => ~requests[s].before
        /\ requests[s].pc = "DropRecorded" => UssdVoter(s) \in ussdNullifiers
CallInv(s) ==
    ConfirmInv(s) /\ KeyedInv(s) /\ RequestInv(s) /\ (phone[s].waiting <=> requests[s] # Idle)
UssdInv ==
    /\ ussdNullifiers \subseteq Numbers \X Policies
    /\ sessions \in [Callers -> Sessions \cup {None}]
    /\ phone \in [Callers -> Phones]
    /\ requests \in [Callers -> Requests \cup {Idle}]
    /\ \A t \in told : t[1] = "USSD" => t[2] \in ussdNullifiers
    /\ \A s \in Callers : CallInv(s)

PhoneInv == SmsInv /\ UssdInv

-----------------------------------------------------------------------------
(* The telephone services: text messages *)

\* An SMS under way is a vote, with the fields of one.
LEMMA VoteShape ==
    ASSUME SmsInv, NEW m \in Messages, messages[m].pc \in {"Check", "Submit", "Add"}
    PROVE  messages[m] \in Votes /\ Voter(m) \in Allowed \X Texted
<1>1. messages[m] \in Votes
    BY DEF SmsInv, NotVotes
<1>2. QED
    BY <1>1 DEF Votes, Voter, deriveNullifier

\* Where a handler goes on, the vote stays what it is.
LEMMA VoteAdvanced ==
    ASSUME NEW v \in Votes, NEW pc \in {"Check", "Submit", "Add", "Replied"}
    PROVE  LET x == [v EXCEPT !.pc = pc]
           IN  x \in Votes /\ x.pc = pc /\ x.from = v.from /\ x.policy = v.policy /\ x.before = v.before
BY DEF Votes

\* Where it answers, too.
LEMMA VoteAnswered ==
    ASSUME NEW v \in Votes, NEW text \in Outcomes
    PROVE  LET x == [v EXCEPT !.pc = "Replied", !.reply = text]
           IN  /\ x \in Votes /\ x.pc = "Replied" /\ x.reply = text
               /\ x.from = v.from /\ x.policy = v.policy /\ x.before = v.before
BY DEF Votes

\* The handler of one SMS goes on: what the others say stays true, for neither the
\* set of nullifiers nor the submitted votes shrink.
LEMMA MessageMoves ==
    ASSUME SmsInv, NEW m \in Messages, NEW x \in Votes \cup NotVotes,
           messages' = [messages EXCEPT ![m] = x],
           messages[m] \in Votes => x.from = messages[m].from /\ x.policy = messages[m].policy,
           smsNullifiers \subseteq smsNullifiers',
           submitted \subseteq submitted', submitted' \subseteq submitted \cup {m}
    PROVE  /\ messages' \in [Messages -> Votes \cup NotVotes] /\ messages'[m] = x
           /\ submitted' \subseteq Messages
           /\ messages[m] \in Votes => Voter(m)' = Voter(m)
           /\ \A k \in submitted : Voter(k)' = Voter(k)
           /\ \A k \in Messages \ {m} : MessageInv(k)'
<1>1. messages' \in [Messages -> Votes \cup NotVotes] /\ messages'[m] = x /\ submitted' \subseteq Messages
    BY DEF SmsInv
<1>2. \A k \in Messages \ {m} : messages'[k] = messages[k] /\ Voter(k)' = Voter(k)
    BY DEF SmsInv, Voter
<1>3. messages[m] \in Votes => Voter(m)' = Voter(m)
    BY <1>1 DEF Voter
<1>4. \A k \in submitted : Voter(k)' = Voter(k)
    BY <1>2, <1>3 DEF SmsInv, MessageInv
<1>5. ASSUME NEW k \in Messages \ {m} PROVE MessageInv(k)'
    <2>1. MessageInv(k) /\ messages'[k] = messages[k] /\ Voter(k)' = Voter(k)
        BY <1>2 DEF SmsInv
    <2>2. k \in submitted' <=> k \in submitted
        OBVIOUS
    <2>3. QED
        BY <2>1, <2>2 DEF MessageInv
<1>6. QED
    BY <1>1, <1>3, <1>4, <1>5

\* handleInbound: the SMS arrives.
LEMMA ArrivalStep ==
    ASSUME SmsInv, NEW m \in Messages, NEW from \in Numbers, NEW command, NEW policy \in Texted, NEW option,
           handleInbound(m, from, command, policy, option)
    PROVE  SmsInv'
<1> DEFINE before == <<"SMS", deriveNullifier(from, policy)>> \in told
           vote == [pc |-> "Check", reply |-> "None", from |-> from, policy |-> policy, before |-> before]
           info == [pc |-> "Replied", reply |-> "Information"]
           x == IF IsVote(from, command, option) THEN vote ELSE info
<1>1. before \in BOOLEAN /\ (before => deriveNullifier(from, policy) \in smsNullifiers)
    BY DEF SmsInv, MarkedInv
<1>2. /\ messages[m].pc = "Unsent" /\ messages' = [messages EXCEPT ![m] = x]
      /\ UNCHANGED <<smsNullifiers, submitted, told>>
    BY DEF handleInbound
<1> HIDE DEF before
<1>3. IsVote(from, command, option) => vote \in Votes
    BY <1>1 DEF Votes, Outcomes, IsVote
<1>4. vote.pc = "Check" /\ vote.reply = "None" /\ vote.from = from /\ vote.policy = policy /\ vote.before = before
    OBVIOUS
<1>5. info \in NotVotes /\ info.pc = "Replied" /\ info.reply = "Information" /\ info \notin Votes
    BY DEF NotVotes, Votes, Outcomes
<1> HIDE DEF vote, info
<1>6. x \in Votes \cup NotVotes /\ (x = info \/ x = vote)
    BY <1>3, <1>5
<1>7. messages[m] \notin Votes /\ m \notin submitted
    BY <1>2 DEF Votes, SmsInv, MessageInv
<1> HIDE DEF x
<1>8. /\ messages' \in [Messages -> Votes \cup NotVotes] /\ messages'[m] = x
      /\ \A k \in submitted : Voter(k)' = Voter(k)
      /\ \A k \in Messages \ {m} : MessageInv(k)'
    BY <1>2, <1>6, <1>7, MessageMoves
<1>9. MessageInv(m)'
    <2>1. CASE x = vote
        BY <1>1, <1>2, <1>4, <1>7, <1>8, <2>1 DEF MessageInv, Voter
    <2>2. CASE x = info
        BY <1>2, <1>5, <1>7, <1>8, <2>2 DEF MessageInv
    <2>3. QED
        BY <1>6, <2>1, <2>2
<1>10. QED
    BY <1>2, <1>8, <1>9 DEF SmsInv, MarkedInv

\* A handler step that leaves Redis and the chain alone.
LEMMA MessageWaits ==
    ASSUME SmsInv, NEW m \in Messages, messages[m].pc \in {"Check", "Submit", "Add"},
           NEW x \in Votes, messages' = [messages EXCEPT ![m] = x],
           x.from = messages[m].from, x.policy = messages[m].policy, x.before = messages[m].before,
           UNCHANGED <<smsNullifiers, submitted, told>>,
           \/ x.pc = "Submit" /\ messages[m].pc = "Check" /\ Voter(m) \notin smsNullifiers
           \/ /\ x.pc = "Replied" /\ x.reply = "AlreadyVoted"
              /\ messages[m].pc = "Check" /\ Voter(m) \in smsNullifiers
           \/ x.pc = "Replied" /\ x.reply = "Error" /\ messages[m].pc = "Check"
           \/ x.pc = "Replied" /\ x.reply = "SubmissionFailed"
    PROVE  SmsInv'
<1>1. messages[m] \in Votes /\ MessageInv(m)
    BY VoteShape DEF SmsInv
<1>2. /\ messages' \in [Messages -> Votes \cup NotVotes] /\ messages'[m] = x /\ Voter(m)' = Voter(m)
      /\ \A k \in submitted : Voter(k)' = Voter(k)
      /\ \A k \in Messages \ {m} : MessageInv(k)'
    BY <1>1, MessageMoves
<1>3. MessageInv(m)'
    BY <1>1, <1>2 DEF MessageInv
<1>4. QED
    BY <1>2, <1>3 DEF SmsInv, MarkedInv

\* handleVote: sismember.
LEMMA CheckStep ==
    ASSUME SmsInv, NEW m \in Messages, CheckVoted(m)
    PROVE  SmsInv'
<1> DEFINE x == [messages[m] EXCEPT !.pc = "Replied", !.reply = "AlreadyVoted"]
           y == [messages[m] EXCEPT !.pc = "Submit"]
<1>1. messages[m] \in Votes /\ messages[m].pc = "Check" /\ UNCHANGED <<smsNullifiers, submitted, told>>
    BY VoteShape DEF CheckVoted
<1>2. Voter(m) \in smsNullifiers => messages' = [messages EXCEPT ![m] = x]
    BY <1>1 DEF CheckVoted, Reply, SmsInv, Votes
<1>3. Voter(m) \notin smsNullifiers => messages' = [messages EXCEPT ![m] = y]
    BY DEF CheckVoted, Step
<1>4. /\ x \in Votes /\ x.pc = "Replied" /\ x.reply = "AlreadyVoted"
      /\ x.from = messages[m].from /\ x.policy = messages[m].policy /\ x.before = messages[m].before
    BY <1>1, VoteAnswered DEF Outcomes
<1>5. /\ y \in Votes /\ y.pc = "Submit"
      /\ y.from = messages[m].from /\ y.policy = messages[m].policy /\ y.before = messages[m].before
    BY <1>1, VoteAdvanced
<1> HIDE DEF x, y
<1>6. CASE Voter(m) \in smsNullifiers
    BY <1>1, <1>2, <1>4, <1>6, MessageWaits
<1>7. CASE Voter(m) \notin smsNullifiers
    BY <1>1, <1>3, <1>5, <1>7, MessageWaits
<1>8. QED
    BY <1>6, <1>7

\* submitToChain: the vote is submitted by a sender not told before.
LEMMA SubmitStep ==
    ASSUME SmsInv, NEW m \in Messages, submitToChain(m)
    PROVE  SmsInv'
<1> DEFINE x == [messages[m] EXCEPT !.pc = "Add"]
<1>1. messages[m] \in Votes /\ MessageInv(m) /\ messages[m].pc = "Submit"
    BY VoteShape DEF submitToChain, SmsInv
<1>2. messages' = [messages EXCEPT ![m] = x] /\ submitted' = submitted \cup {m} /\ UNCHANGED <<smsNullifiers, told>>
    BY DEF submitToChain, Step
<1>3. /\ x \in Votes /\ x.pc = "Add"
      /\ x.from = messages[m].from /\ x.policy = messages[m].policy /\ x.before = messages[m].before
    BY <1>1, VoteAdvanced
<1> HIDE DEF x
<1>4. /\ messages' \in [Messages -> Votes \cup NotVotes] /\ messages'[m] = x /\ submitted' \subseteq Messages
      /\ \A k \in submitted : Voter(k)' = Voter(k)
      /\ \A k \in Messages \ {m} : MessageInv(k)'
    BY <1>2, <1>3, MessageMoves
<1>5. MessageInv(m)'
    BY <1>1, <1>2, <1>3, <1>4 DEF MessageInv
<1>6. MarkedInv'
    BY <1>2, <1>4 DEF SmsInv, MarkedInv
<1>7. QED
    BY <1>2, <1>4, <1>5, <1>6 DEF SmsInv

\* handleVote: sadd, and "Vote recorded" of a vote that was submitted.
LEMMA RecordStep ==
    ASSUME SmsInv, NEW m \in Messages, RecordVoted(m)
    PROVE  SmsInv'
<1> DEFINE x == [messages[m] EXCEPT !.pc = "Replied", !.reply = "Recorded"]
<1>1. messages[m] \in Votes /\ MessageInv(m) /\ messages[m].pc = "Add" /\ Voter(m) \in Allowed \X Texted
    BY VoteShape DEF RecordVoted, SmsInv
<1>2. /\ messages' = [messages EXCEPT ![m] = x] /\ submitted' = submitted
      /\ smsNullifiers' = smsNullifiers \cup {Voter(m)} /\ told' = told \cup {<<"SMS", Voter(m)>>}
    BY <1>1 DEF RecordVoted, Reply, SmsInv, Votes
<1>3. /\ x \in Votes /\ x.pc = "Replied" /\ x.reply = "Recorded"
      /\ x.from = messages[m].from /\ x.policy = messages[m].policy /\ x.before = messages[m].before
    BY <1>1, VoteAnswered DEF Outcomes
<1> HIDE DEF x
<1>4. /\ messages' \in [Messages -> Votes \cup NotVotes] /\ messages'[m] = x /\ Voter(m)' = Voter(m)
      /\ \A k \in submitted : Voter(k)' = Voter(k)
      /\ \A k \in Messages \ {m} : MessageInv(k)'
    BY <1>1, <1>2, <1>3, MessageMoves
<1>5. m \in submitted /\ ~messages[m].before
    BY <1>1 DEF MessageInv
<1>6. MessageInv(m)'
    BY <1>2, <1>3, <1>4, <1>5 DEF MessageInv
<1>7. MarkedInv'
    BY <1>2, <1>4, <1>5 DEF SmsInv, MarkedInv
<1>8. QED
    BY <1>1, <1>2, <1>4, <1>6, <1>7 DEF SmsInv

\* Redis or the chain fails under the handler.
LEMMA SmsFailureStep ==
    ASSUME SmsInv, NEW m \in Messages, SMSFails(m)
    PROVE  SmsInv'
<1> DEFINE text == IF messages[m].pc = "Check" THEN "Error" ELSE "SubmissionFailed"
           x == [messages[m] EXCEPT !.pc = "Replied", !.reply = text]
<1>1. /\ messages[m] \in Votes /\ messages[m].pc \in {"Check", "Submit", "Add"}
      /\ UNCHANGED <<smsNullifiers, submitted, told>>
    BY VoteShape DEF SMSFails
<1>2. messages' = [messages EXCEPT ![m] = x]
    BY <1>1 DEF SMSFails, Reply, SmsInv, Votes
<1>3. text \in Outcomes /\ ((text = "Error" /\ messages[m].pc = "Check") \/ text = "SubmissionFailed")
    BY DEF Outcomes
<1> HIDE DEF text
<1>4. /\ x \in Votes /\ x.pc = "Replied" /\ x.reply = text
      /\ x.from = messages[m].from /\ x.policy = messages[m].policy /\ x.before = messages[m].before
    BY <1>1, <1>3, VoteAnswered
<1> HIDE DEF x
<1>5. QED
    BY <1>1, <1>2, <1>3, <1>4, MessageWaits

\* The USSD service leaves the SMS service's state alone.
LEMMA SmsRests ==
    ASSUME SmsInv, UNCHANGED smsVars, \A t \in told' : t \in told \/ t[1] = "USSD"
    PROVE  SmsInv'
<1>1. UNCHANGED <<smsNullifiers, messages, submitted>>
    BY DEF smsVars
<1>2. \A m : Voter(m)' = Voter(m)
    BY <1>1 DEF Voter
<1>3. MarkedInv'
    BY <1>1, <1>2 DEF SmsInv, MarkedInv
<1>4. \A m \in Messages : MessageInv(m)'
    BY <1>1, <1>2 DEF SmsInv, MessageInv
<1>5. QED
    BY <1>1, <1>3, <1>4 DEF SmsInv

-----------------------------------------------------------------------------
(* The telephone services: the USSD menu *)

\* The three shapes of a stored session, and what tells them apart.
LEMMA SessionShapes ==
    ASSUME NEW x \in Sessions \cup {None}
    PROVE  /\ x = None <=> x.step = 3
           /\ x # None => x.step \in 0..2 /\ x.index \in Pages
           /\ x.step \in 1..2 => x.policy \in Policies
           /\ x.step = 2 => x.option \in Options
BY DEF Sessions, None

\* NextPage: the first policy of a page is one of the list.
LEMMA PagesAreInTheList ==
    /\ Len(POLICIES) \in Nat \ {0} /\ DOMAIN POLICIES = 1..Len(POLICIES)
    /\ 0 \in Pages /\ \A i \in Pages : i + 1 \in DOMAIN POLICIES
    /\ \A i \in Pages : NextPage(i) \in Pages
<1>1. Len(POLICIES) \in Nat /\ DOMAIN POLICIES = 1..Len(POLICIES) /\ Page \in Nat
    BY MenuAssumption
<1>2. Len(POLICIES) # 0
    BY MenuAssumption, EmptySeq
<1> DEFINE n == Len(POLICIES)
<1>3. n \in Nat \ {0}
    BY <1>1, <1>2
<1>4. ASSUME NEW i \in Pages PROVE NextPage(i) \in Pages
    <2>1. n \in Nat \ {0} /\ i \in 0..(n - 1)
        BY <1>3, <1>4 DEF Pages
    <2> HIDE DEF n
    <2>2. (i + Page) % n \in 0..(n - 1)
        BY <1>1, <2>1
    <2>3. QED
        BY <2>2 DEF NextPage, Pages, n
<1>5. 0 \in Pages /\ \A i \in Pages : i + 1 \in DOMAIN POLICIES
    BY <1>1, <1>3 DEF Pages
<1>6. QED
    BY <1>1, <1>3, <1>4, <1>5

\* A step of one call says nothing of the others'.
LEMMA OtherCallsRest ==
    ASSUME UssdInv, NEW s \in Callers, ussdNullifiers \subseteq ussdNullifiers',
           \A r \in Callers \ {s} : /\ sessions'[r] = sessions[r]
                                    /\ phone'[r] = phone[r] /\ requests'[r] = requests[r]
    PROVE  \A r \in Callers \ {s} : CallInv(r)'
<1> SUFFICES ASSUME NEW r \in Callers \ {s} PROVE CallInv(r)'
    OBVIOUS
<1>1. sessions'[r] = sessions[r] /\ phone'[r] = phone[r] /\ requests'[r] = requests[r]
    OBVIOUS
<1>2. ConfirmInv(r) /\ KeyedInv(r) /\ RequestInv(r) /\ (phone[r].waiting <=> requests[r] # Idle)
    BY DEF UssdInv, CallInv
<1>3. UssdVoter(r)' = UssdVoter(r)
    BY <1>1 DEF UssdVoter
<1>4. ConfirmInv(r)' /\ KeyedInv(r)'
    BY <1>1, <1>2 DEF ConfirmInv, KeyedInv
<1>5. RequestInv(r)'
    BY <1>1, <1>2, <1>3 DEF RequestInv
<1>6. QED
    BY <1>1, <1>2, <1>4, <1>5 DEF CallInv

\* A request is answered: the caller sees a screen, the confirmation only if that is
\* what the stored session awaits.
LEMMA ScreenShown ==
    ASSUME UssdInv, NEW s \in Callers, NEW screen \in Screens, Show(s, screen),
           NEW x \in Sessions \cup {None}, sessions' = [sessions EXCEPT ![s] = x],
           x.step = 2 => screen.at = "End" \/ screen = ConfirmVote(x.policy, x.option),
           x.step \in 1..2 => screen.at = "End" \/ phone[s].key # Root,
           ussdNullifiers' = ussdNullifiers,
           \A t \in told' : t \in told \/ (t[1] = "USSD" => t[2] \in ussdNullifiers)
    PROVE  UssdInv'
<1> DEFINE p == [phone[s] EXCEPT !.screen = screen, !.input = Root, !.waiting = FALSE]
<1>1. requests' = [requests EXCEPT ![s] = Idle] /\ phone' = [phone EXCEPT ![s] = p]
    BY DEF Show, UssdInv, Phones
<1>2. p \in Phones /\ p.screen = screen /\ p.waiting = FALSE /\ p.key = phone[s].key
    BY DEF Phones, UssdInv
<1> HIDE DEF p
<1>3. sessions' \in [Callers -> Sessions \cup {None}] /\ phone' \in [Callers -> Phones] /\ requests' \in [Callers -> Requests \cup {Idle}]
    BY <1>1, <1>2 DEF UssdInv
<1>4. sessions'[s] = x /\ phone'[s] = p /\ requests'[s] = Idle
    BY <1>1 DEF UssdInv
<1>5. \A r \in Callers \ {s} : CallInv(r)'
    <2>1. \A r \in Callers \ {s} : sessions'[r] = sessions[r] /\ phone'[r] = phone[r] /\ requests'[r] = requests[r]
        BY <1>1 DEF UssdInv
    <2>2. QED
        BY <2>1, OtherCallsRest
<1>6. CallInv(s)'
    BY <1>2, <1>4 DEF CallInv, ConfirmInv, KeyedInv, RequestInv
<1>7. \A t \in told' : t[1] = "USSD" => t[2] \in ussdNullifiers'
    BY DEF UssdInv
<1>8. QED
    BY <1>3, <1>5, <1>6, <1>7 DEF UssdInv

\* The session a request holds, as a step leaves it.
LEMMA RequestShape ==
    ASSUME UssdInv, NEW s \in Callers, requests[s].pc # "Idle"
    PROVE  /\ requests[s] \in Requests /\ requests[s] # Idle
           /\ requests[s].session \in Sessions /\ requests[s].session # None
           /\ sessions[s] \in {None, requests[s].session}
           /\ RequestInv(s)
<1>1. requests[s] # Idle /\ requests[s] \in Requests
    BY DEF UssdInv, Idle
<1>2. requests[s].session \in Sessions
    BY <1>1 DEF Requests
<1>3. requests[s].session # None
    BY <1>2 DEF Sessions, None
<1>4. RequestInv(s)
    BY DEF UssdInv, CallInv
<1>5. QED
    BY <1>1, <1>2, <1>3, <1>4 DEF RequestInv

\* An answer arrives with the session that its last part is read against.
LEMMA ReceiveStep ==
    ASSUME UssdInv, NEW s \in Callers, NEW input \in Keys \cup {Root},
           NEW key \in Keys \cup {Root}, NEW x \in Sessions,
           Receive(s, input, key, x), input \in {Root, key}, key = Root => x.step = 0,
           x.step = 2 => phone[s].screen = ConfirmVote(x.policy, x.option)
    PROVE  UssdInv'
<1> DEFINE before == phone[s].screen.at = "Confirm" /\ <<"USSD", deriveNullifier(s, phone[s].screen.policy)>> \in told
           p == [phone[s] EXCEPT !.input = input, !.key = key, !.waiting = TRUE]
           r == [pc |-> "Handle", session |-> x, before |-> before]
<1>1. phone[s] \in Phones
    BY DEF UssdInv
<1>2. /\ phone' = [phone EXCEPT ![s] = p] /\ sessions' = [sessions EXCEPT ![s] = x]
      /\ requests' = [requests EXCEPT ![s] = r] /\ UNCHANGED <<ussdNullifiers, told>>
    BY <1>1 DEF Receive, Phones, UssdInv
<1>3. p \in Phones /\ p.screen = phone[s].screen /\ p.key = key /\ p.waiting = TRUE
      /\ p.input = input
    BY <1>1 DEF Phones
<1>4. before \in BOOLEAN /\ (before => deriveNullifier(s, phone[s].screen.policy) \in ussdNullifiers)
    BY DEF UssdInv
<1> HIDE DEF before, p
<1>5. r \in Requests /\ r # Idle /\ r.pc = "Handle" /\ r.session = x
    BY <1>4 DEF Requests, Idle
<1>6. r.before = before
    OBVIOUS
<1> HIDE DEF r
<1>7. /\ sessions' \in [Callers -> Sessions \cup {None}] /\ phone' \in [Callers -> Phones]
      /\ requests' \in [Callers -> Requests \cup {Idle}]
    BY <1>2, <1>3, <1>5 DEF UssdInv
<1>8. sessions'[s] = x /\ phone'[s] = p /\ requests'[s] = r
    BY <1>2 DEF UssdInv
<1>9. \A q \in Callers \ {s} : CallInv(q)'
    <2>1. \A q \in Callers \ {s} : sessions'[q] = sessions[q] /\ phone'[q] = phone[q] /\ requests'[q] = requests[q]
        BY <1>2 DEF UssdInv
    <2>2. QED
        BY <1>2, <2>1, OtherCallsRest
<1>10. x.step = 2 /\ before => UssdVoter(s)' \in ussdNullifiers'
    <2> SUFFICES ASSUME x.step = 2, before PROVE UssdVoter(s)' \in ussdNullifiers'
        OBVIOUS
    <2>1. phone[s].screen.policy = x.policy
        BY DEF ConfirmVote
    <2>2. UssdVoter(s)' = deriveNullifier(s, x.policy)
        BY <1>5, <1>8 DEF UssdVoter, deriveNullifier
    <2>3. QED
        BY <1>2, <1>4, <2>1, <2>2
<1>11. RequestInv(s)'
    BY <1>3, <1>5, <1>6, <1>8, <1>10 DEF RequestInv
<1>12. CallInv(s)'
    BY <1>3, <1>5, <1>8, <1>11, SessionShapes DEF CallInv, ConfirmInv, KeyedInv
<1>13. QED
    BY <1>2, <1>7, <1>9, <1>12 DEF UssdInv

\* handle: a call is begun, with a session of its own.
LEMMA DialStep ==
    ASSUME UssdInv, NEW s \in Callers, Dial(s)
    PROVE  UssdInv'
<1>1. Fresh \in Sessions /\ Fresh.step = 0
    BY PagesAreInTheList DEF Fresh, Sessions
<1>2. QED
    BY <1>1, ReceiveStep DEF Dial

\* handle: a screen is answered; an expired session is begun anew.
LEMMA PressStep ==
    ASSUME UssdInv, NEW s \in Callers, NEW input \in Keys \cup {Root}, Press(s, input)
    PROVE  UssdInv'
<1> DEFINE x == IF sessions[s] = None THEN Fresh ELSE sessions[s]
           key == LastPart(s, input)
<1>1. Fresh \in Sessions /\ Fresh.step = 0
    BY PagesAreInTheList DEF Fresh, Sessions
<1>2. phone[s].screen.at # "End" /\ Receive(s, input, key, x)
    BY DEF Press
<1>3. sessions[s] \in Sessions \cup {None} /\ ConfirmInv(s) /\ KeyedInv(s) /\ phone[s] \in Phones
    BY DEF UssdInv, CallInv
<1>4. x \in Sessions /\ (x.step = 2 => phone[s].screen = ConfirmVote(x.policy, x.option))
    BY <1>1, <1>2, <1>3 DEF ConfirmInv
<1>5. key \in Keys \cup {Root} /\ input \in {Root, key}
    BY <1>3, MenuAssumption DEF LastPart, Phones
<1>6. key = Root => x.step = 0
    <2>1. x \in Sessions => x.step \in 0..2
        BY SessionShapes DEF Sessions, None
    <2>2. key = Root => phone[s].key = Root
        BY MenuAssumption DEF LastPart
    <2>3. QED
        BY <1>1, <1>2, <1>3, <1>4, <2>1, <2>2 DEF KeyedInv
<1> HIDE DEF x, key
<1>7. QED
    BY <1>2, <1>4, <1>5, <1>6, ReceiveStep

\* Redis drops a session that is not used.
LEMMA ExpiryStep ==
    ASSUME UssdInv, NEW s \in Callers, SessionExpires(s)
    PROVE  UssdInv'
<1>1. sessions' = [sessions EXCEPT ![s] = None] /\ UNCHANGED <<ussdNullifiers, phone, requests, told>>
    BY DEF SessionExpires
<1>2. \A q \in Callers \ {s} : CallInv(q)'
    <2>1. \A q \in Callers \ {s} : sessions'[q] = sessions[q] /\ phone'[q] = phone[q] /\ requests'[q] = requests[q]
        BY <1>1 DEF UssdInv
    <2>2. QED
        BY <1>1, <2>1, OtherCallsRest
<1>3. sessions'[s] = None /\ sessions' \in [Callers -> Sessions \cup {None}] /\ None.step = 3
    BY <1>1 DEF UssdInv, None
<1>4. UssdVoter(s)' = UssdVoter(s) /\ CallInv(s)
    BY <1>1 DEF UssdVoter, UssdInv
<1>5. RequestInv(s)'
    BY <1>1, <1>3, <1>4 DEF CallInv, RequestInv
<1>6. CallInv(s)'
    BY <1>1, <1>3, <1>4, <1>5 DEF CallInv, ConfirmInv, KeyedInv
<1>7. QED
    BY <1>1, <1>2, <1>3, <1>6 DEF UssdInv

\* handle: a key the screen does not have is answered with the screen again.
LEMMA AnswerStep ==
    ASSUME UssdInv, NEW s \in Callers, AnswerScreen(s)
    PROVE  UssdInv'
<1> DEFINE x == requests[s].session
<1>1. /\ requests[s].pc = "Handle" /\ UNCHANGED <<ussdNullifiers, sessions, told>>
      /\ \/ phone[s].key = Root /\ Show(s, Menu(0))
         \/ x.step = 0 /\ Show(s, Menu(x.index))
         \/ x.step = 1 /\ Show(s, ChooseOption(x.policy))
    BY DEF AnswerScreen
<1>2. x \in Sessions /\ x # None /\ sessions[s] \in {None, x} /\ RequestInv(s) /\ requests[s] # Idle
    BY <1>1, RequestShape
<1>3. phone[s].key = Root => x.step = 0
    BY <1>2 DEF RequestInv
<1> HIDE DEF x
<1>4. x.step \in 0..2 /\ x.index \in Pages /\ (x.step \in 1..2 => x.policy \in Policies)
    BY <1>2, SessionShapes
<1>5. PICK screen \in Screens : Show(s, screen) /\ x.step # 2
    <2>1. Menu(0) \in Screens /\ Menu(x.index) \in Screens
        BY <1>4, PagesAreInTheList DEF Screens
    <2>2. x.step = 1 => ChooseOption(x.policy) \in Screens
        BY <1>4 DEF Screens
    <2>3. QED
        BY <1>1, <1>3, <2>1, <2>2
<1>6. /\ sessions[s].step # 2 /\ (sessions[s].step \in 1..2 => phone[s].key # Root)
      /\ sessions[s] \in Sessions \cup {None} /\ sessions' = [sessions EXCEPT ![s] = sessions[s]]
    BY <1>1, <1>2, <1>3, <1>5 DEF None, UssdInv
<1>7. QED
    BY <1>1, <1>5, <1>6, ScreenShown

\* handle: a policy or an option is chosen, or the next page. What is stored is what
\* the caller is shown next.
LEMMA ChooseStep ==
    ASSUME UssdInv, NEW s \in Callers, Choose(s)
    PROVE  UssdInv'
<1> DEFINE x == requests[s].session
           key == phone[s].key
           next == IF x.step = 0 THEN OnPolicyScreen(x, key) ELSE OnOptionScreen(x, key)
<1>1. /\ requests[s].pc = "Handle" /\ UNCHANGED <<ussdNullifiers, told>>
      /\ \/ x.step = 0 /\ (key = 0 \/ Policy(x, key) \in DOMAIN POLICIES)
         \/ x.step = 1 /\ key \in DOMAIN OptionMap
      /\ sessions' = [sessions EXCEPT ![s] = next[1]] /\ Show(s, next[2]) /\ key # Root
    BY DEF Choose
<1>2. x \in Sessions
    BY <1>1, RequestShape
<1>3. /\ next[1] \in Sessions /\ next[2] \in Screens
      /\ next[1].step = 2 => next[2] = ConfirmVote(next[1].policy, next[1].option)
    <2> HIDE DEF x, key
    <2>1. CASE x.step = 0 /\ key = 0
        <3>1. x \in [step : {0}, index : Pages]
            BY <1>2, <2>1 DEF Sessions
        <3>2. next = <<[x EXCEPT !.index = NextPage(x.index)], Menu(NextPage(x.index))>>
            BY <2>1, <3>1 DEF OnPolicyScreen
        <3>3. NextPage(x.index) \in Pages
            BY <3>1, PagesAreInTheList
        <3>4. [x EXCEPT !.index = NextPage(x.index)] \in [step : {0}, index : Pages]
            BY <3>1, <3>3
        <3>5. Menu(NextPage(x.index)) \in Screens
            BY <3>3 DEF Screens
        <3>6. next[1] \in [step : {0}, index : Pages] /\ next[2] \in Screens
            BY <3>2, <3>4, <3>5
        <3> HIDE DEF next
        <3>7. QED
            BY <3>6 DEF Sessions
    <2>2. CASE x.step = 0 /\ key # 0
        <3> DEFINE p == POLICIES[Policy(x, key)]
                   y == [step |-> 1, index |-> x.index, policy |-> p]
        <3>1. p \in Policies
            BY <1>1, <2>2 DEF Policies
        <3>2. next = <<y, ChooseOption(p)>>
            BY <2>2 DEF OnPolicyScreen
        <3>3. x.index \in Pages
            BY <1>2, <2>2, SessionShapes
        <3> HIDE DEF p
        <3>4. y \in Sessions /\ y.step = 1 /\ ChooseOption(p) \in Screens
            BY <3>1, <3>3 DEF Sessions, Screens
        <3> HIDE DEF y
        <3>5. QED
            BY <3>2, <3>4
    <2>3. CASE x.step = 1
        <3> DEFINE o == OptionMap[key]
                   y == [step |-> 2, index |-> x.index, policy |-> x.policy, option |-> o]
        <3>1. o \in Options
            BY <1>1, <2>3 DEF Options
        <3>2. next = <<y, ConfirmVote(x.policy, o)>>
            BY <2>3 DEF OnOptionScreen
        <3>3. x.index \in Pages /\ x.policy \in Policies
            BY <1>2, <2>3, SessionShapes
        <3> HIDE DEF o
        <3>4. y \in Sessions /\ y.policy = x.policy /\ y.option = o /\ ConfirmVote(x.policy, o) \in Screens
            BY <3>1, <3>3 DEF Sessions, Screens
        <3> HIDE DEF y
        <3>5. QED
            BY <3>2, <3>4
    <2>4. QED
        BY <1>1, <2>1, <2>2, <2>3
<1> HIDE DEF next
<1>4. QED
    BY <1>1, <1>3, ScreenShown

\* The screens that end a call.
LEMMA EndScreens ==
    \A text \in {"Over", "Recorded", "AlreadyVoted"} : End(text) \in Screens /\ End(text).at = "End"
BY DEF Screens, End

\* handle: the session is dropped.
LEMMA LeaveStep ==
    ASSUME UssdInv, NEW s \in Callers, Leave(s)
    PROVE  UssdInv'
BY EndScreens, ScreenShown DEF Leave

\* Redis fails under the handler: the call ends, whatever the session.
LEMMA UssdFailureStep ==
    ASSUME UssdInv, NEW s \in Callers, USSDFails(s)
    PROVE  UssdInv'
<1>1. sessions[s] \in Sessions \cup {None} /\ sessions' = [sessions EXCEPT ![s] = sessions[s]]
    BY DEF UssdInv, USSDFails
<1>2. QED
    BY <1>1, EndScreens, ScreenShown DEF USSDFails

\* handle: the last step, "Vote recorded" only of a nullifier that is in the set.
LEMMA DropStep ==
    ASSUME UssdInv, NEW s \in Callers, DropSession(s)
    PROVE  UssdInv'
<1> DEFINE text == IF requests[s].pc = "DropRecorded" THEN "Recorded" ELSE "AlreadyVoted"
<1>1. /\ requests[s].pc \in {"DropRecorded", "DropVoted"} /\ sessions' = [sessions EXCEPT ![s] = None]
      /\ Show(s, End(text)) /\ ussdNullifiers' = ussdNullifiers
    BY DEF DropSession
<1>2. RequestInv(s) /\ requests[s] # Idle
    BY <1>1, RequestShape
<1>3. \A t \in told' : t \in told \/ (t[1] = "USSD" => t[2] \in ussdNullifiers)
    BY <1>2 DEF DropSession, RequestInv
<1>4. End(text) \in Screens /\ End(text).at = "End"
    BY EndScreens
<1> HIDE DEF text
<1>5. QED
    BY <1>1, <1>3, <1>4, ScreenShown

\* handle: a confirmed vote goes on to its next step, nothing shown yet. What the
\* request holds stays.
LEMMA RequestMoves ==
    ASSUME UssdInv, NEW s \in Callers, requests[s].pc # "Idle",
           NEW pc \in {"Add", "DropVoted", "DropRecorded"}, Goto(s, pc),
           UNCHANGED <<sessions, phone, told>>, ussdNullifiers \subseteq ussdNullifiers',
           ussdNullifiers' \subseteq ussdNullifiers \cup {UssdVoter(s)},
           requests[s].session.step = 2, phone[s].key = 1,
           pc \in {"Add", "DropRecorded"} => ~requests[s].before,
           pc = "DropRecorded" => UssdVoter(s) \in ussdNullifiers'
    PROVE  UssdInv'
<1> DEFINE r == [requests[s] EXCEPT !.pc = pc]
<1>1. requests[s] \in Requests /\ requests[s] # Idle /\ RequestInv(s)
    BY RequestShape
<1>2. requests' = [requests EXCEPT ![s] = r]
    BY DEF Goto
<1>3. /\ r \in Requests /\ r.pc = pc /\ r.session = requests[s].session
      /\ r.before = requests[s].before
    BY <1>1 DEF Requests
<1>4. r # Idle
    BY <1>3 DEF Idle
<1> HIDE DEF r
<1>5. requests' \in [Callers -> Requests \cup {Idle}] /\ requests'[s] = r
    BY <1>2, <1>3 DEF UssdInv
<1>6. \A q \in Callers \ {s} : CallInv(q)'
    <2>1. \A q \in Callers \ {s} : sessions'[q] = sessions[q] /\ phone'[q] = phone[q] /\ requests'[q] = requests[q]
        BY <1>2 DEF UssdInv
    <2>2. QED
        BY <2>1, OtherCallsRest
<1>7. UssdVoter(s)' = UssdVoter(s)
    BY <1>3, <1>5 DEF UssdVoter
<1>8. RequestInv(s)'
    BY <1>1, <1>3, <1>5, <1>7 DEF RequestInv
<1>9. CallInv(s)'
    BY <1>1, <1>4, <1>5, <1>8 DEF CallInv, ConfirmInv, KeyedInv, UssdInv
<1>10. UssdVoter(s) \in Numbers \X Policies
    <2>1. requests[s].session \in Sessions
        BY <1>1 DEF Requests
    <2>2. requests[s].session.policy \in Policies
        BY <2>1, SessionShapes
    <2>3. QED
        BY <2>2, MenuAssumption DEF UssdVoter, deriveNullifier
<1>11. QED
    BY <1>5, <1>6, <1>9, <1>10 DEF UssdInv

\* handle: "1" at the confirmation, sismember.
LEMMA ConfirmStep ==
    ASSUME UssdInv, NEW s \in Callers, Confirm(s)
    PROVE  UssdInv'
<1>1. /\ requests[s].pc = "Handle" /\ phone[s].key = 1 /\ requests[s].session.step = 2
      /\ UNCHANGED <<sessions, phone, told, ussdNullifiers>>
    BY DEF Confirm
<1>2. requests[s].before => UssdVoter(s) \in ussdNullifiers
    BY <1>1, RequestShape DEF RequestInv
<1>3. CASE UssdVoter(s) \in ussdNullifiers
    <2>1. Goto(s, "DropVoted")
        BY <1>3 DEF Confirm
    <2>2. QED
        BY <1>1, <2>1, RequestMoves
<1>4. CASE UssdVoter(s) \notin ussdNullifiers
    <2>1. Goto(s, "Add")
        BY <1>4 DEF Confirm
    <2>2. QED
        BY <1>1, <1>2, <1>4, <2>1, RequestMoves
<1>5. QED
    BY <1>3, <1>4

\* handle: sadd.
LEMMA AddStep ==
    ASSUME UssdInv, NEW s \in Callers, AddNullifier(s)
    PROVE  UssdInv'
<1>1. /\ requests[s].pc = "Add" /\ ussdNullifiers' = ussdNullifiers \cup {UssdVoter(s)}
      /\ Goto(s, "DropRecorded") /\ UNCHANGED <<sessions, phone, told>>
    BY DEF AddNullifier
<1>2. requests[s].session.step = 2 /\ phone[s].key = 1 /\ ~requests[s].before
    BY <1>1, RequestShape DEF RequestInv
<1>3. QED
    BY <1>1, <1>2, RequestMoves

\* The SMS service leaves the USSD service's state alone.
LEMMA UssdRests ==
    ASSUME UssdInv, UNCHANGED ussdVars, \A t \in told' : t \in told \/ t[1] = "SMS"
    PROVE  UssdInv'
<1>1. UNCHANGED <<ussdNullifiers, sessions, phone, requests>>
    BY DEF ussdVars
<1>2. ASSUME NEW s \in Callers PROVE CallInv(s)'
    <2>1. UssdVoter(s)' = UssdVoter(s) /\ CallInv(s)
        BY <1>1 DEF UssdVoter, UssdInv
    <2>2. ConfirmInv(s)' /\ KeyedInv(s)' /\ RequestInv(s)'
        BY <1>1, <2>1 DEF CallInv, ConfirmInv, KeyedInv, RequestInv
    <2>3. QED
        BY <1>1, <2>1, <2>2 DEF CallInv
<1>3. QED
    BY <1>1, <1>2 DEF UssdInv

-----------------------------------------------------------------------------
(* The telephone services: the theorems *)

\* SMSVoteService, USSDVoteService: the invariant behind both, an SMS's or a call's
\* handler at any await and a session expiring at any moment.
THEOREM PhoneInvariant == PhoneSpec => []PhoneInv
<1>1. PhoneInit => PhoneInv
    <2> SUFFICES ASSUME PhoneInit PROVE PhoneInv
        OBVIOUS
    <2>1. SmsInv
        BY DEF PhoneInit, SmsInv, MarkedInv, MessageInv, NotVotes, Votes
    <2>2. /\ sessions \in [Callers -> Sessions \cup {None}] /\ requests = [s \in Callers |-> Idle]
          /\ None.step = 3 /\ ussdNullifiers = {} /\ told = {}
        BY DEF PhoneInit, None
    <2>3. phone \in [Callers -> Phones] /\ \A s \in Callers : ~phone[s].waiting
        BY EndScreens DEF PhoneInit, Phones
    <2>4. \A s \in Callers : sessions[s] = None
        BY DEF PhoneInit
    <2>5. \A s \in Callers : CallInv(s)
        BY <2>2, <2>3, <2>4 DEF CallInv, ConfirmInv, KeyedInv, RequestInv
    <2>6. QED
        BY <2>1, <2>2, <2>3, <2>5 DEF UssdInv, PhoneInv
<1>2. PhoneInv /\ [PhoneNext]_phoneVars => PhoneInv'
    <2> SUFFICES ASSUME SmsInv, UssdInv, [PhoneNext]_phoneVars PROVE PhoneInv'
        BY DEF PhoneInv
    <2>1. CASE UNCHANGED phoneVars
        BY <2>1, SmsRests, UssdRests DEF phoneVars, PhoneInv
    <2>2. ASSUME NEW m \in Messages, NEW from \in Numbers, NEW policy \in Texted,
                 NEW command, NEW option, handleInbound(m, from, command, policy, option)
          PROVE  PhoneInv'
        BY <2>2, ArrivalStep, UssdRests DEF handleInbound, PhoneInv
    <2>3. ASSUME NEW m \in Messages, HandleMessage(m) PROVE PhoneInv'
        <3>1. UNCHANGED ussdVars /\ \A t \in told' : t \in told \/ t[1] = "SMS"
            BY <2>3 DEF HandleMessage, CheckVoted, submitToChain, RecordVoted
        <3>2. QED
            BY <2>3, <3>1, CheckStep, SubmitStep, RecordStep, UssdRests DEF HandleMessage, PhoneInv
    <2>4. ASSUME NEW m \in Messages, SMSFails(m) PROVE PhoneInv'
        BY <2>4, SmsFailureStep, UssdRests DEF SMSFails, PhoneInv
    <2>5. ASSUME NEW s \in Callers, Dial(s) \/ (\E input \in Keys \cup {Root} : Press(s, input)) PROVE PhoneInv'
        <3>1. UNCHANGED smsVars /\ told' = told
            BY <2>5 DEF Dial, Press, Receive
        <3>2. QED
            BY <2>5, <3>1, DialStep, PressStep, SmsRests DEF PhoneInv
    <2>6. ASSUME NEW s \in Callers, Handle(s) PROVE PhoneInv'
        <3>1. UNCHANGED smsVars
            BY <2>6 DEF Handle, AnswerScreen, Choose, Leave, Confirm, AddNullifier, DropSession
        <3>2. \A t \in told' : t \in told \/ t[1] = "USSD"
            BY <2>6 DEF Handle, AnswerScreen, Choose, Leave, Confirm, AddNullifier, DropSession
        <3>3. QED
            BY <2>6, <3>1, <3>2, AnswerStep, ChooseStep, LeaveStep, ConfirmStep, AddStep, DropStep, SmsRests
               DEF Handle, PhoneInv
    <2>7. ASSUME NEW s \in Callers, SessionExpires(s) \/ USSDFails(s) PROVE PhoneInv'
        BY <2>7, ExpiryStep, UssdFailureStep, SmsRests DEF SessionExpires, USSDFails, PhoneInv
    <2>8. QED
        BY <2>1, <2>2, <2>3, <2>4, <2>5, <2>6, <2>7 DEF PhoneNext, SMSNext, USSDNext
<1>3. PhoneSpec => PhoneInit /\ [][PhoneNext]_phoneVars
    BY PTL DEF PhoneSpec
<1>4. QED
    BY <1>1, <1>2, <1>3, PTL

\* handleVote, handle: whatever fails, expires or overlaps, a text's answer is true of
\* what was submitted, a number told "Vote recorded" is not recorded again for a later
\* request, and a USSD vote is the one on the screen that was answered, not with another
\* key than 1.
THEOREM PhoneServicesAreSafe == PhoneSpec => []PhoneSafe
<1>1. PhoneInv => PhoneSafe
    <2> SUFFICES ASSUME SmsInv, UssdInv PROVE PhoneSafe
        BY DEF PhoneInv
    <2>1. TypeOK
        <3>1. ASSUME NEW s \in Callers, sessions[s] # None
              PROVE  /\ sessions[s].step \in 0..2
                     /\ sessions[s].index + 1 \in DOMAIN POLICIES
                     /\ sessions[s].step > 0 => sessions[s].policy \in Policies
                     /\ sessions[s].step = 2 => sessions[s].option \in Options
            <4>1. sessions[s] \in Sessions \cup {None}
                BY DEF UssdInv
            <4>2. QED
                BY <3>1, <4>1, SessionShapes, PagesAreInTheList
        <3>2. QED
            BY <3>1 DEF TypeOK, SmsInv, UssdInv
    <2>2. RepliesAreTrue
        <3> SUFFICES ASSUME NEW m \in Messages, messages[m].pc = "Replied"
                     PROVE  CASE messages[m].reply = "Recorded" -> m \in submitted /\ Voter(m) \in smsNullifiers
                              [] messages[m].reply = "AlreadyVoted" ->
                                    m \notin submitted /\ \E n \in submitted : Voter(n) = Voter(m)
                              [] messages[m].reply = "SubmissionFailed" -> TRUE
                              [] OTHER -> m \notin submitted
            BY DEF RepliesAreTrue
        <3>1. MessageInv(m) /\ messages[m].reply \in Outcomes \cup {"Information"}
            BY DEF SmsInv, Votes, NotVotes
        <3>2. QED
            BY <3>1 DEF MessageInv, SmsInv, MarkedInv, Outcomes
    <2>3. RecordedOnce
        <3>1. ASSUME NEW m \in submitted PROVE ~messages[m].before
            BY <3>1 DEF SmsInv, MessageInv
        <3>2. ASSUME NEW s \in Callers, requests[s].pc = "DropRecorded" PROVE ~requests[s].before
            BY <3>2, RequestShape DEF RequestInv
        <3>3. QED
            BY <3>1, <3>2 DEF RecordedOnce
    <2>4. RecordedAsShown
        <3>1. ASSUME NEW s \in Callers, requests[s].pc = "DropRecorded"
              PROVE  /\ phone[s].screen = ConfirmVote(requests[s].session.policy, requests[s].session.option)
                     /\ phone[s].input \in {1, Root}
            BY <3>1, RequestShape DEF RequestInv
        <3>2. QED
            BY <3>1 DEF RecordedAsShown
    <2>5. QED
        BY <2>1, <2>2, <2>3, <2>4 DEF PhoneSafe
<1>2. QED
    BY <1>1, PhoneInvariant, PTL

=============================================================================
