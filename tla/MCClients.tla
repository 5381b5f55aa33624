------------------------------- MODULE MCClients -------------------------------
(***************************************************************************)
(* Text messages, USSD calls and the web page meet nowhere but at the ledger: *)
(* a behaviour exercises one of the three.                                    *)
(***************************************************************************)
EXTENDS PhoneVoting, WebVote, TLC

CONSTANTS pa, pb, gb
PolicyList == <<pa, pb>>
TwoOptions == <<"Support", "Oppose">>
PoliciesByCountry == gb :> {pa}
OptionsByPolicy == pa :> Options

VARIABLE part

vars == <<part, phoneVars, webVars>>

Init == PhoneInit /\ WebInit /\ part \in {"SMS", "USSD", "Web"}

Next ==
    \/ part = "SMS" /\ SMSNext /\ UNCHANGED <<part, webVars>>
    \/ part = "USSD" /\ USSDNext /\ UNCHANGED <<part, webVars>>
    \/ part = "Web" /\ WebNext /\ UNCHANGED <<part, phoneVars>>

\* While one part runs the others are still, and no handler of theirs is under way.
Spec == Init /\ [][Next]_vars /\ PhoneFairness /\ WebFairness

\* Every text and every keypress is answered, and a page that shows a submission
\* under way goes on to show an outcome. (handleInbound, handle, submitVote,
\* submitWithHardwareWallet)
ClientsSettle == Answered /\ PageSettles

=============================================================================
