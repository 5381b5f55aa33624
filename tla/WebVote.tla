-------------------------------- MODULE WebVote --------------------------------
(***************************************************************************)
(* The voting page of the web client (VoteClientPage) and the hardware     *)
(* wallet it drives (HardwareWalletSigner). JavaScript runs one handler at a *)
(* time up to its next await; an answer of the API, of the browser's         *)
(* authenticator or of the wallet resumes the handler that awaits it, in     *)
(* any order, on whatever screen the page shows by then. A handler reads the *)
(* choices it was called with (React closures) and writes the live state.    *)
(*                                                                           *)
(* The API is external here: the route for the options of a policy is not    *)
(* one this repository's backend serves. submitVote and its wallet twin take *)
(* any JSON for a receipt, a refusal too.                                    *)
(***************************************************************************)
EXTENDS Naturals, FiniteSets

CONSTANTS
    Countries, PolicyIds,
    PoliciesOf,     \* country -> its policies
    OptionsOf,      \* policy -> its options
    Attempts,       \* bound: the clicks on a submit button
    MaxClicks       \* bound: the option requests in flight for one policy

VARIABLES
    phase, countryCode, policies, selectedPolicy, options, selectedOption, \* useState
    signer,         \* hwSigner: the transport and the app it holds
    loading,        \* countries whose policies are being fetched
    choosing,       \* policy -> requests for its options in flight
    attempts,       \* submissions: how far each is, and what it was called with
    open,           \* external: the transports open on the device
    unclosed,       \* history: the transports whose close has failed
    overlapped      \* history: two wallet submissions were under way at once

pageVars == <<phase, countryCode, policies, selectedPolicy, options, selectedOption>>
deviceVars == <<signer, open, unclosed, overlapped>>
webVars == <<pageVars, deviceVars, loading, choosing, attempts>>

Nothing == "None"
NoChoice == [policy |-> Nothing, option |-> Nothing]
Released == [transport |-> Nothing, ethApp |-> Nothing]

\* An option has an identifier, which is not the one of no option.
ASSUME OptionAssumption == \A p \in PolicyIds : Nothing \notin OptionsOf[p]

Resting == {"country", "policies", "options", "confirmed", "error"}
Busy == {"authenticating", "hw_connecting", "hw_awaiting", "submitting"}

-----------------------------------------------------------------------------
(* The screens, by what can be clicked on them *)

CountryScreen == phase = "country"
PolicyScreen(p) == phase = "policies" /\ p \in policies
OptionScreen(o) == phase = "options" /\ o \in options
SubmitButtons == phase = "options" /\ selectedOption # Nothing
ErrorScreen == phase = "error"

-----------------------------------------------------------------------------
(* Choosing *)

loadPolicies(code) ==
    /\ CountryScreen
    /\ countryCode' = code /\ phase' = "policies"
    /\ loading' = loading \cup {code}
    /\ UNCHANGED <<policies, selectedPolicy, options, selectedOption, deviceVars, choosing, attempts>>

\* The list replaces the one on screen, whichever country is chosen by now.
PoliciesAnswer(code) ==
    /\ code \in loading
    /\ loading' = loading \ {code}
    /\ \/ policies' = PoliciesOf[code] /\ UNCHANGED phase
       \/ phase' = "error" /\ UNCHANGED policies
    /\ UNCHANGED <<countryCode, selectedPolicy, options, selectedOption, deviceVars, choosing, attempts>>

\* The list stays on screen while the options are fetched.
selectPolicy(p) ==
    /\ PolicyScreen(p)
    /\ choosing[p] < MaxClicks
    /\ selectedPolicy' = p
    /\ choosing' = [choosing EXCEPT ![p] = @ + 1]
    /\ UNCHANGED <<phase, countryCode, policies, options, selectedOption, deviceVars, loading, attempts>>

OptionsAnswer(p) ==
    /\ choosing[p] > 0
    /\ choosing' = [choosing EXCEPT ![p] = @ - 1]
    /\ \/ options' = OptionsOf[p] /\ phase' = "options"
       \/ phase' = "error" /\ UNCHANGED options
    /\ UNCHANGED <<countryCode, policies, selectedPolicy, selectedOption, deviceVars, loading, attempts>>

setOption(o) ==
    /\ OptionScreen(o)
    /\ selectedOption' = o
    /\ UNCHANGED <<phase, countryCode, policies, selectedPolicy, options, deviceVars, loading, choosing, attempts>>

\* "Start again": the choices made stay.
StartAgain ==
    /\ ErrorScreen
    /\ phase' = "country"
    /\ UNCHANGED <<countryCode, policies, selectedPolicy, options, selectedOption, deviceVars, loading, choosing, attempts>>

-----------------------------------------------------------------------------
(* Submitting *)

Chosen == [policy |-> selectedPolicy, option |-> selectedOption]
IsWallet(t) == attempts[t].kind = "Wallet"
Active(t) == attempts[t].pc \notin {"Unused", "Done"}
WalletInUse == \E t \in Attempts : Active(t) /\ IsWallet(t)

Begin(t, kind, pc, shown) ==
    /\ SubmitButtons
    /\ attempts[t].pc = "Unused" /\ t = CHOOSE u \in Attempts : attempts[u].pc = "Unused"
    /\ attempts' = [attempts EXCEPT ![t] =
           [pc |-> pc, kind |-> kind, chosen |-> Chosen,
            signed |-> NoChoice, sent |-> NoChoice, app |-> Nothing]]
    /\ phase' = shown
    /\ UNCHANGED <<countryCode, policies, selectedPolicy, options, selectedOption, loading, choosing>>

submitVote(t) == Begin(t, "Passkey", "Challenge", "authenticating") /\ UNCHANGED deviceVars

submitWithHardwareWallet(t) ==
    /\ Begin(t, "Wallet", "Connect", "hw_connecting")
    /\ overlapped' = (overlapped \/ WalletInUse)
    /\ UNCHANGED <<signer, open, unclosed>>

Advance(t, pc) ==
    attempts' = [attempts EXCEPT ![t] = IF pc = "Done" THEN [pc |-> pc] ELSE [@ EXCEPT !.pc = pc]]
Display(t, pc, shown) ==
    /\ Advance(t, pc) /\ phase' = shown
    /\ UNCHANGED <<countryCode, policies, selectedPolicy, options, selectedOption, loading, choosing>>

\* finally, on the wallet's path only.
Finish(t) == IF IsWallet(t) THEN "Close" ELSE "Done"

\* Mutant: the request is built from the choices on screen when it leaves.
Body_Live(t) == Chosen

\* policyId and optionId of the request: those of the call, or of the payload.
Body(t) == attempts[t].chosen

Send(t) ==
    /\ attempts' = [attempts EXCEPT ![t].pc = "Answer", ![t].sent = Body(t)]
    /\ phase' = "submitting"
    /\ UNCHANGED <<countryCode, policies, selectedPolicy, options, selectedOption, loading, choosing>>

\* The challenge, the browser's assertion, then the backend's verdict.
Authenticate(t) ==
    /\ \/ attempts[t].pc = "Challenge" /\ Display(t, "Assertion", phase)
       \/ attempts[t].pc = "Assertion" /\ Display(t, "Verdict", phase)
       \/ attempts[t].pc = "Verdict" /\ Send(t)
    /\ UNCHANGED deviceVars

\* connect: the transport, the app on it, and its address is asked for.
Connect(t) ==
    /\ attempts[t].pc = "Connect"
    /\ open' = open \cup {t}
    /\ signer' = [transport |-> t, ethApp |-> t]
    /\ attempts' = [attempts EXCEPT ![t].pc = "Address", ![t].app = t]
    /\ UNCHANGED <<pageVars, unclosed, overlapped, loading, choosing>>

\* The app asked answers, if its transport is open still; then signVote checks that
\* the signer holds an app, and has the one it holds by now sign the payload.
Address(t) ==
    /\ attempts[t].pc = "Address"
    /\ attempts[t].app \in open /\ signer.ethApp # Nothing
    /\ attempts' = [attempts EXCEPT ![t].pc = "Sign", ![t].app = signer.ethApp, ![t].signed = Body(t)]
    /\ phase' = "hw_awaiting"
    /\ UNCHANGED <<countryCode, policies, selectedPolicy, options, selectedOption, loading, choosing, deviceVars>>

\* The voter confirms on the device, over the transport of the app that asked.
Sign(t) ==
    /\ attempts[t].pc = "Sign"
    /\ attempts[t].app \in open
    /\ Send(t)
    /\ UNCHANGED deviceVars

\* Any JSON is the receipt of a confirmed vote.
Confirmed(t) ==
    /\ attempts[t].pc = "Answer"
    /\ Display(t, Finish(t), "confirmed")
    /\ UNCHANGED deviceVars

\* A call fails, is refused or cancelled.
Fails(t) ==
    /\ attempts[t].pc \in {"Challenge", "Assertion", "Verdict", "Connect", "Address", "Sign", "Answer"}
    /\ Display(t, Finish(t), "error")
    /\ UNCHANGED deviceVars

\* disconnect: close, awaited, ...
Close(t) ==
    /\ attempts[t].pc = "Close"
    /\ open' = open \ {signer.transport}
    /\ Advance(t, "Clear")
    /\ UNCHANGED <<pageVars, signer, unclosed, overlapped, loading, choosing>>

\* which may fail (the device was unplugged, or the transport closed before): then
\* disconnect ends here, its transport open or not, and the signer keeps it; ...
CloseFails(t) ==
    /\ attempts[t].pc = "Close" /\ signer.transport # Nothing
    /\ open' \in {open, open \ {signer.transport}}
    /\ unclosed' = unclosed \cup {signer.transport}
    /\ Advance(t, "Done")
    /\ UNCHANGED <<pageVars, signer, overlapped, loading, choosing>>

\* ... and forget.
Clear(t) ==
    /\ attempts[t].pc = "Clear"
    /\ signer' = Released
    /\ Advance(t, "Done")
    /\ UNCHANGED <<pageVars, open, unclosed, overlapped, loading, choosing>>

-----------------------------------------------------------------------------
(* Specification *)

WebInit ==
    /\ phase = "country" /\ countryCode = Nothing /\ policies = {}
    /\ selectedPolicy = Nothing /\ options = {} /\ selectedOption = Nothing
    /\ signer = Released /\ open = {} /\ unclosed = {} /\ overlapped = FALSE
    /\ loading = {} /\ choosing = [p \in PolicyIds |-> 0]
    /\ attempts = [t \in Attempts |-> [pc |-> "Unused"]]

\* Mutant: a failure is logged and the page left as it is.
Resume_Swallowed(t) ==
    \/ Authenticate(t) \/ Connect(t) \/ Address(t) \/ Sign(t) \/ Confirmed(t)
    \/ Close(t) \/ CloseFails(t) \/ Clear(t)
    \/ attempts[t].pc = "Answer" /\ Display(t, Finish(t), phase) /\ UNCHANGED deviceVars

Resume(t) ==
    \/ Authenticate(t) \/ Connect(t) \/ Address(t) \/ Sign(t) \/ Confirmed(t)
    \/ Fails(t) \/ Close(t) \/ CloseFails(t) \/ Clear(t)

WebNext ==
    \/ \E code \in Countries : loadPolicies(code) \/ PoliciesAnswer(code)
    \/ \E p \in PolicyIds : selectPolicy(p) \/ OptionsAnswer(p)
    \/ \E o \in options : setOption(o)
    \/ StartAgain
    \/ \E t \in Attempts : submitVote(t) \/ submitWithHardwareWallet(t) \/ Resume(t)

\* What a submission awaits ends: calls answer or fail, the voter answers the
\* authenticator or the device.
WebFairness == \A t \in Attempts : WF_webVars(Resume(t))

WebSpec == WebInit /\ [][WebNext]_webVars /\ WebFairness

-----------------------------------------------------------------------------
(* Properties *)

\* The page never shows the options, or a submission, without a policy chosen:
\* answers that arrive late find one, "Start again" or not. (VoteClientPage)
WebTypeOK ==
    /\ phase \in Resting \cup Busy
    /\ phase \in {"policies", "options"} \cup Busy => countryCode \in Countries
    /\ phase \in {"options"} \cup Busy => selectedPolicy \in PolicyIds
    /\ phase \in Busy => selectedOption # Nothing
    /\ signer.transport \in Attempts \cup {Nothing} /\ signer.ethApp = signer.transport

\* What is sent is the policy and the option that were on screen when the voter
\* pressed the button, and what the device signed, though a late answer may have
\* brought the options back and the voter changed them since. (submitVote,
\* submitWithHardwareWallet: payload)
SubmittedAsChosen ==
    \A t \in Attempts : Active(t) /\ attempts[t].sent # NoChoice =>
        /\ attempts[t].sent = attempts[t].chosen
        /\ IsWallet(t) => attempts[t].signed = attempts[t].sent

\* Between submissions the signer holds no connection but one whose close has
\* failed; and unless two wallet submissions overlapped, the device has no other
\* open. (finally, disconnect)
DeviceReleased ==
    ~WalletInUse =>
        /\ signer = Released \/ signer.transport \in unclosed
        /\ open \subseteq unclosed \/ overlapped

\* "Disconnect and release the USB transport.": after it the signer is as before
\* connect. Where close fails, nothing after it is done.
\* (HardwareWalletSigner.ts:116)
Disconnected == ~WalletInUse => signer = Released

\* A page that shows a submission under way goes on to show an outcome.
\* (submitVote, submitWithHardwareWallet: catch)
PageSettles == (phase \in Busy) ~> (phase \in Resting)

\* The page's screens, the submission under way and the device agree. (All handlers)
WebSafe == WebTypeOK /\ SubmittedAsChosen /\ DeviceReleased

=============================================================================
