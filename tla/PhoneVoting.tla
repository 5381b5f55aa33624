------------------------------ MODULE PhoneVoting ------------------------------
(***************************************************************************)
(* Voting by text message (SMSVoteService, a Twilio webhook) and by USSD    *)
(* menu (USSDVoteService, an Africa's Talking webhook). All state is in     *)
(* Redis: a set of nullifiers for each of the two, and the USSD sessions,   *)
(* which expire. Every await is a step, so requests interleave.             *)
(*                                                                          *)
(* A nullifier is the hash of number, policy and a salt: it is modelled by  *)
(* the pair. The salts differ, as do the sets, so the two ways to vote know *)
(* nothing of each other. submitToChain is a stub for a ledger call that    *)
(* may fail; the USSD service submits nothing. The gateway sends the text   *)
(* of the whole call so far, of which the service keeps the last part that  *)
(* is not empty.                                                            *)
(***************************************************************************)
EXTENDS Naturals, Sequences, FiniteSets

CONSTANTS
    Numbers,        \* telephone numbers
    Allowed,        \* those of the permitted countries
    Texted,         \* the policy names texted; the service takes any
    POLICIES,       \* the USSD policy list
    Page,           \* policies on a screen
    OptionMap,      \* the options, a sequence by key
    Exit, Root,     \* the key "#", and the empty text: no key at all
    Messages,       \* bound: the inbound SMS
    Callers         \* the numbers that dial; one call at a time

VARIABLES
    smsNullifiers, ussdNullifiers, \* Redis: the two sets
    sessions,       \* Redis: number -> the state of its last session, or None
    messages,       \* SMS -> where its handler is
    phone,          \* number -> the screen shown, what was entered on it, the last key of the call
    requests,       \* number -> where its handler is
    submitted,      \* history: the SMS that reached submitToChain's end
    told            \* history: who was told "Vote recorded", by which service

smsVars == <<smsNullifiers, messages, submitted>>
ussdVars == <<ussdNullifiers, sessions, phone, requests>>
phoneVars == <<smsVars, ussdVars, told>>

None == [step |-> 3]
Policies == {POLICIES[i] : i \in DOMAIN POLICIES}
Options == {OptionMap[i] : i \in DOMAIN OptionMap}
Keys == 0..Len(POLICIES) \cup {Exit}
deriveNullifier(number, policy) == <<number, policy>>

\* The policy list has entries, the empty text is no key, callers have numbers.
ASSUME MenuAssumption ==
    /\ POLICIES \in Seq(Policies) \ {<<>>} /\ Page \in Nat
    /\ Root \notin Keys /\ Callers \subseteq Numbers

-----------------------------------------------------------------------------
(* SMS *)

Reply(m, text) == messages' = [messages EXCEPT ![m].pc = "Replied", ![m].reply = text]
Step(m, pc) == messages' = [messages EXCEPT ![m].pc = pc]
Voter(m) == deriveNullifier(messages[m].from, messages[m].policy)

\* handleInbound and handleVote up to the first await: whatever is not a vote
\* from a permitted country for an option is answered with a text.
IsVote(from, command, option) == from \in Allowed /\ command = "VOTE" /\ option \in Options

handleInbound(m, from, command, policy, option) ==
    /\ messages[m].pc = "Unsent"
    /\ messages' = [messages EXCEPT ![m] =
           IF IsVote(from, command, option)
           THEN [pc |-> "Check", reply |-> "None", from |-> from, policy |-> policy,
                 before |-> <<"SMS", deriveNullifier(from, policy)>> \in told]
           ELSE [pc |-> "Replied", reply |-> "Information"]]
    /\ UNCHANGED <<smsNullifiers, submitted, ussdVars, told>>

\* Mutant: the number is marked before its vote is submitted.
CheckVoted_Marks(m) ==
    /\ messages[m].pc = "Check"
    /\ IF Voter(m) \in smsNullifiers THEN Reply(m, "AlreadyVoted") ELSE Step(m, "Submit")
    /\ smsNullifiers' = smsNullifiers \cup {Voter(m)}
    /\ UNCHANGED <<submitted, ussdVars, told>>

\* sismember
CheckVoted(m) ==
    /\ messages[m].pc = "Check"
    /\ IF Voter(m) \in smsNullifiers THEN Reply(m, "AlreadyVoted") ELSE Step(m, "Submit")
    /\ UNCHANGED <<smsNullifiers, submitted, ussdVars, told>>

submitToChain(m) ==
    /\ messages[m].pc = "Submit"
    /\ submitted' = submitted \cup {m}
    /\ Step(m, "Add")
    /\ UNCHANGED <<smsNullifiers, ussdVars, told>>

\* sadd, and the reply.
RecordVoted(m) ==
    /\ messages[m].pc = "Add"
    /\ smsNullifiers' = smsNullifiers \cup {Voter(m)}
    /\ Reply(m, "Recorded")
    /\ told' = told \cup {<<"SMS", Voter(m)>>}
    /\ UNCHANGED <<submitted, ussdVars>>

\* Redis or the chain fails under the handler. The catch of handleVote covers
\* the submission and sadd, the route's the rest.
SMSFails(m) ==
    /\ messages[m].pc \in {"Check", "Submit", "Add"}
    /\ Reply(m, IF messages[m].pc = "Check" THEN "Error" ELSE "SubmissionFailed")
    /\ UNCHANGED <<smsNullifiers, submitted, ussdVars, told>>

-----------------------------------------------------------------------------
(* USSD *)

Menu(i) == [at |-> "Menu", index |-> i]
ChooseOption(p) == [at |-> "Options", policy |-> p]
ConfirmVote(p, o) == [at |-> "Confirm", policy |-> p, option |-> o]
End(text) == [at |-> "End", text |-> text]
Idle == [pc |-> "Idle"]
Fresh == [step |-> 0, index |-> 0]

Goto(s, pc) == requests' = [requests EXCEPT ![s].pc = pc]
Show(s, screen) ==
    /\ requests' = [requests EXCEPT ![s] = Idle]
    /\ phone' = [phone EXCEPT ![s].screen = screen, ![s].input = Root, ![s].waiting = FALSE]

\* getSession, and the saveSession that refreshes the TTL. (One step with the
\* arrival: a number has one request at a time, and the write restores what
\* expired in between.)
Receive(s, input, key, session) ==
    /\ ~phone[s].waiting
    /\ phone' = [phone EXCEPT ![s].input = input, ![s].key = key, ![s].waiting = TRUE]
    /\ sessions' = [sessions EXCEPT ![s] = session]
    /\ requests' = [requests EXCEPT ![s] = [pc |-> "Handle", session |-> session, before |->
            phone[s].screen.at = "Confirm" /\ <<"USSD", deriveNullifier(s, phone[s].screen.policy)>> \in told]]
    /\ UNCHANGED <<smsVars, ussdNullifiers, told>>

\* A new session; what is left of the last one is under another identifier.
Dial(s) == phone[s].screen.at = "End" /\ Receive(s, Root, Root, Fresh)

\* The last part of the text that is not empty: of an empty answer, or one of "*"
\* alone, that is the key pressed before it.
LastPart(s, input) == IF input = Root THEN phone[s].key ELSE input

\* The caller answers the screen; the gateway waits for the reply before it takes
\* the next answer. An expired session is begun anew.
Press(s, input) ==
    /\ phone[s].screen.at # "End"
    /\ Receive(s, input, LastPart(s, input), IF sessions[s] = None THEN Fresh ELSE sessions[s])

\* 90 seconds without a request.
SessionExpires(s) ==
    /\ sessions[s] # None
    /\ sessions' = [sessions EXCEPT ![s] = None]
    /\ UNCHANGED <<smsVars, ussdNullifiers, phone, requests, told>>

NextPage(i) == (i + Page) % Len(POLICIES)

\* The keys of the policy screen and of the option screen: what the session
\* becomes and what the caller sees. A choice need not be on the screen.
Policy(session, key) == key + session.index
OnPolicyScreen(session, key) ==
    IF key = 0 THEN <<[session EXCEPT !.index = NextPage(@)], Menu(NextPage(session.index))>>
    ELSE LET p == POLICIES[Policy(session, key)]
         IN  <<[step |-> 1, index |-> session.index, policy |-> p], ChooseOption(p)>>
OnOptionScreen(session, key) ==
    <<[step |-> 2, index |-> session.index, policy |-> session.policy, option |-> OptionMap[key]],
      ConfirmVote(session.policy, OptionMap[key])>>

\* A key the screen does not have is answered with the screen again.
AnswerScreen(s) ==
    LET r == requests[s] IN
    /\ r.pc = "Handle"
    /\ \/ phone[s].key = Root /\ Show(s, Menu(0))
       \/ /\ phone[s].key \notin {Root, Exit} /\ r.session.step = 0
          /\ phone[s].key # 0 /\ Policy(r.session, phone[s].key) \notin DOMAIN POLICIES
          /\ Show(s, Menu(r.session.index))
       \/ /\ phone[s].key \notin {Root, Exit} /\ r.session.step = 1
          /\ phone[s].key \notin DOMAIN OptionMap
          /\ Show(s, ChooseOption(r.session.policy))
    /\ UNCHANGED <<smsVars, ussdNullifiers, sessions, told>>

\* The choice of a policy, the next page, or the choice of an option.
Choose(s) ==
    LET r == requests[s]
        next == IF r.session.step = 0 THEN OnPolicyScreen(r.session, phone[s].key) ELSE OnOptionScreen(r.session, phone[s].key)
    IN  /\ r.pc = "Handle" /\ phone[s].key \notin {Root, Exit}
        /\ \/ r.session.step = 0 /\ (phone[s].key = 0 \/ Policy(r.session, phone[s].key) \in DOMAIN POLICIES)
           \/ r.session.step = 1 /\ phone[s].key \in DOMAIN OptionMap
        /\ sessions' = [sessions EXCEPT ![s] = next[1]]
        /\ Show(s, next[2])
        /\ UNCHANGED <<smsVars, ussdNullifiers, told>>

\* "#" anywhere, or anything but "1" at the confirmation, drops the session.
Leave(s) ==
    LET r == requests[s] IN
    /\ r.pc = "Handle"
    /\ (phone[s].key = Exit) \/ (phone[s].key # Root /\ r.session.step = 2 /\ phone[s].key # 1)
    /\ sessions' = [sessions EXCEPT ![s] = None]
    /\ Show(s, End("Over"))
    /\ UNCHANGED <<smsVars, ussdNullifiers, told>>

UssdVoter(s) == deriveNullifier(s, requests[s].session.policy)

\* "1" at the confirmation: sismember.
Confirm(s) ==
    LET r == requests[s] IN
    /\ r.pc = "Handle" /\ phone[s].key = 1 /\ r.session.step = 2
    /\ IF UssdVoter(s) \in ussdNullifiers THEN Goto(s, "DropVoted") ELSE Goto(s, "Add")
    /\ UNCHANGED <<smsVars, ussdNullifiers, sessions, phone, told>>

\* sadd; the receipt is cut from the nullifier.
AddNullifier(s) ==
    /\ requests[s].pc = "Add"
    /\ ussdNullifiers' = ussdNullifiers \cup {UssdVoter(s)}
    /\ Goto(s, "DropRecorded")
    /\ UNCHANGED <<smsVars, sessions, phone, told>>

DropSession(s) ==
    LET recorded == requests[s].pc = "DropRecorded" IN
    /\ requests[s].pc \in {"DropRecorded", "DropVoted"}
    /\ sessions' = [sessions EXCEPT ![s] = None]
    /\ Show(s, End(IF recorded THEN "Recorded" ELSE "AlreadyVoted"))
    /\ told' = IF recorded THEN told \cup {<<"USSD", UssdVoter(s)>>} ELSE told
    /\ UNCHANGED <<smsVars, ussdNullifiers>>

\* Redis fails, or the process dies: the call ends, Redis keeps what it has.
USSDFails(s) ==
    /\ phone[s].waiting
    /\ Show(s, End("Over"))
    /\ UNCHANGED <<smsVars, ussdNullifiers, sessions, told>>

-----------------------------------------------------------------------------
(* Specification *)

PhoneInit ==
    /\ smsNullifiers = {} /\ ussdNullifiers = {}
    /\ sessions = [s \in Callers |-> None]
    /\ messages = [m \in Messages |-> [pc |-> "Unsent"]]
    /\ phone = [s \in Callers |-> [screen |-> End("Over"), input |-> Root, key |-> Root, waiting |-> FALSE]]
    /\ requests = [s \in Callers |-> Idle]
    /\ submitted = {} /\ told = {}

HandleMessage(m) == CheckVoted(m) \/ submitToChain(m) \/ RecordVoted(m)
Handle(s) ==
    \/ AnswerScreen(s) \/ Choose(s) \/ Leave(s) \/ Confirm(s) \/ AddNullifier(s) \/ DropSession(s)

SMSNext ==
    \E m \in Messages :
       \/ \E from \in Numbers, policy \in Texted, command \in {"HELP", "VOTE"},
             option \in {OptionMap[1], "Other"} : handleInbound(m, from, command, policy, option)
       \/ HandleMessage(m)
       \/ SMSFails(m)

USSDNext ==
    \E s \in Callers :
       \/ Dial(s) \/ (\E input \in Keys \cup {Root} : Press(s, input))
       \/ Handle(s)
       \/ SessionExpires(s) \/ USSDFails(s)

PhoneNext == SMSNext \/ USSDNext

\* The process runs its handlers.
PhoneFairness ==
    /\ \A m \in Messages : WF_phoneVars(HandleMessage(m))
    /\ \A s \in Callers : WF_phoneVars(Handle(s))

PhoneSpec == PhoneInit /\ [][PhoneNext]_phoneVars /\ PhoneFairness

-----------------------------------------------------------------------------
(* Properties *)

\* Redis and handlers keep their shape; a session's page starts within the
\* policy list. (handle, handleInbound)
TypeOK ==
    /\ smsNullifiers \subseteq Allowed \X Texted
    /\ ussdNullifiers \subseteq Numbers \X Policies
    /\ \A s \in Callers : sessions[s] # None =>
          /\ sessions[s].step \in 0..2
          /\ sessions[s].index + 1 \in DOMAIN POLICIES
          /\ sessions[s].step > 0 => sessions[s].policy \in Policies
          /\ sessions[s].step = 2 => sessions[s].option \in Options
    /\ submitted \subseteq Messages

\* What a text message is answered is so: "recorded" only for its own submitted
\* vote, "already voted" only if a vote of that number on that policy was
\* submitted, and any other answer but a reported failure only if it was not.
\* (handleVote: sismember, submission, sadd, catch)
RepliesAreTrue ==
    \A m \in Messages : messages[m].pc = "Replied" =>
        CASE messages[m].reply = "Recorded" -> m \in submitted /\ Voter(m) \in smsNullifiers
          [] messages[m].reply = "AlreadyVoted" ->
                m \notin submitted /\ \E n \in submitted : Voter(n) = Voter(m)
          [] messages[m].reply = "SubmissionFailed" -> TRUE
          [] OTHER -> m \notin submitted

\* A number told "Vote recorded" on a policy is never recorded again on it by the
\* same service for a request that starts later. (Requests that overlap, and a
\* number using both services, are recorded twice.) (handleVote, handle)
RecordedOnce ==
    /\ \A m \in submitted : ~messages[m].before
    /\ \A s \in Callers : requests[s].pc = "DropRecorded" => ~requests[s].before

\* A USSD vote is the one on the confirmation screen that its caller answered, and
\* not with another key than 1, though the session may expire between any two screens
\* and the key is read against whatever session there is. (An empty answer repeats
\* the key before, and confirms if that was 1.) (handle)
RecordedAsShown ==
    \A s \in Callers : requests[s].pc = "DropRecorded" =>
        /\ phone[s].screen = ConfirmVote(requests[s].session.policy, requests[s].session.option)
        /\ phone[s].input \in {1, Root}

\* "Step 4: Confirmation prompt": a USSD vote is recorded only for a 1 pressed at the
\* prompt. (USSDVoteService.ts:15)
ConfirmedByKey == \A s \in Callers : requests[s].pc = "DropRecorded" => phone[s].input = 1

\* "Phone hash used as nullifier — one vote per number per policy": no two texts of
\* one number on one policy are both submitted. Overlapping ones both pass the check;
\* and after a submission whose sadd failed the next one does. (SMSVoteService.ts:15)
OneVotePerNumber == \A m, n \in submitted : Voter(m) = Voter(n) => m = n

\* Every text and every keypress is answered. (handleInbound, handle)
Answered ==
    /\ \A m \in Messages : (messages[m].pc # "Unsent") ~> (messages[m].pc = "Replied")
    /\ \A s \in Callers : phone[s].waiting ~> ~phone[s].waiting

\* What the telephone services record and what they answer agree, and both with
\* what the caller did. (All handlers)
PhoneSafe == TypeOK /\ RepliesAreTrue /\ RecordedOnce /\ RecordedAsShown

=============================================================================
