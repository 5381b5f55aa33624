----------------------------- MODULE AccessProofs -----------------------------
(***************************************************************************)
(* Proofs about what stands at the doors of the backend: the governance     *)
(* routes, hardware keys, identity providers and the limiter, each for any  *)
(* users, requests and bounds.                                              *)
(***************************************************************************)
EXTENDS FIDO2, Identity, RateLimit, Governance, FiniteSetTheorems, SequenceTheorems, TLAPS

-----------------------------------------------------------------------------
(* Governance: the invariant *)

Ballots == [by : Calls, support : Supports \cup {"None"}] \cup {NoBallot}

WriteCalls == [pc : {"Estimating", "Submitting", "Waiting", "Failed", "Cast", "Proposed"},
               kind : {"Vote", "Propose"}, proposal : Proposals, support : Supports \cup {"None"},
               nonceFree : BOOLEAN, before : SUBSET Calls]
ReadCalls == [pc : {"Reading", "Failed", "NotFound"},
              kind : {"List", "Show"}, proposal : Proposals, support : Supports \cup {"None"},
              nonceFree : BOOLEAN, before : SUBSET Calls]
ListAnswers == [pc : {"Listed", "Failed"}, kind : {"List"}, before : SUBSET Calls,
                shown : SUBSET Proposals]
ShowAnswers == [pc : {"Shown", "NotFound"}, kind : {"Show"}, proposal : Proposals,
                before : SUBSET Calls, shown : Ballots]
AllCalls == {[pc |-> "Unasked"]} \cup WriteCalls \cup ReadCalls \cup ListAnswers \cup ShowAnswers

GovernorTypes ==
    /\ stage \in [Proposals -> {"None", "Pending", "Active", "Over"}]
    /\ ballot \in [Proposals -> Ballots]
    /\ pending \in Seq(Calls)
    /\ outcome \in [Calls -> {"None", "Success", "Reverted"}]
    /\ calls \in [Calls -> AllCalls]

\* A transaction is pending or has an outcome, never both, and its call waits for
\* it or has given up.
SentInv ==
    /\ IsInjective(pending)
    /\ \A i \in DOMAIN pending :
          /\ outcome[pending[i]] = "None"
          /\ calls[pending[i]].pc \in {"Waiting", "Failed"}
          /\ calls[pending[i]] \in WriteCalls
    /\ \A c \in Calls : outcome[c] # "None" =>
          calls[c] \in WriteCalls /\ calls[c].pc \in {"Waiting", "Failed", "Cast", "Proposed"}

\* What a transaction that succeeded did is still there.
SuccessInv ==
    /\ \A c \in Calls : outcome[c] = "Success" =>
          /\ calls[c].kind = "Vote" =>
                ballot[calls[c].proposal] = [by |-> c, support |-> calls[c].support]
          /\ calls[c].kind = "Propose" => stage[calls[c].proposal] # "None"
    /\ \A c, d \in Calls : outcome[c] = "Success" /\ outcome[d] = "Success"
          /\ calls[c].kind = "Propose" /\ calls[d].kind = "Propose"
          /\ calls[c].proposal = calls[d].proposal => c = d

\* A ballot was cast, once the proposal was open, by a transaction that succeeded.
BallotInv ==
    \A p \in Proposals : ballot[p] # NoBallot =>
        /\ ballot[p].by \in Calls /\ outcome[ballot[p].by] = "Success"
        /\ stage[p] \in {"Active", "Over"}

\* Success is answered for a transaction that succeeded.
AnswerInv ==
    \A c \in Calls :
        /\ calls[c].pc = "Cast" => outcome[c] = "Success" /\ calls[c].kind = "Vote"
        /\ calls[c].pc = "Proposed" => outcome[c] = "Success" /\ calls[c].kind = "Propose"

\* The calls answered before a read began, and what the read shows of them.
Answers(c) == calls[c].before \subseteq {d \in Calls : calls[d].pc \in {"Cast", "Proposed"}}
ReadInv ==
    /\ \A c \in Calls : calls[c].pc \in {"Reading", "Shown", "Listed"} => Answers(c)
    /\ ReadersSeeWhatWasAnswered

GovInv == GovernorTypes /\ SentInv /\ SuccessInv /\ BallotInv /\ AnswerInv /\ ReadInv

-----------------------------------------------------------------------------
(* Governance: the steps *)

\* The call's record, by where its handler is.
LEMMA CallShape ==
    ASSUME GovernorTypes, NEW c \in Calls
    PROVE  /\ calls[c].pc \in {"Estimating", "Submitting", "Waiting", "Cast", "Proposed"} => calls[c] \in WriteCalls
           /\ calls[c].pc = "Reading" => calls[c] \in ReadCalls
           /\ calls[c].pc = "Listed" => calls[c] \in ListAnswers
           /\ calls[c].pc = "Shown" => calls[c] \in ShowAnswers
           /\ calls[c].pc = "Failed" => calls[c] \in WriteCalls \cup ReadCalls \cup ListAnswers
<1>1. calls[c] \in AllCalls
    BY DEF GovernorTypes
<1>2. \A r \in WriteCalls : r.pc \in {"Estimating", "Submitting", "Waiting", "Failed", "Cast", "Proposed"}
    BY DEF WriteCalls
<1>3. \A r \in ReadCalls : r.pc \in {"Reading", "Failed", "NotFound"}
    BY DEF ReadCalls
<1>4. \A r \in ListAnswers : r.pc \in {"Listed", "Failed"}
    BY DEF ListAnswers
<1>5. \A r \in ShowAnswers : r.pc \in {"Shown", "NotFound"}
    BY DEF ShowAnswers
<1>6. QED
    BY <1>1, <1>2, <1>3, <1>4, <1>5 DEF AllCalls

\* Where the handler of a call goes on, the rest of its record stays.
LEMMA CallMoved ==
    ASSUME NEW r \in WriteCalls, NEW pc \in {"Estimating", "Submitting", "Waiting", "Failed", "Cast", "Proposed"}
    PROVE  /\ [r EXCEPT !.pc = pc] \in WriteCalls
           /\ [r EXCEPT !.pc = pc].pc = pc
           /\ [r EXCEPT !.pc = pc].kind = r.kind
           /\ [r EXCEPT !.pc = pc].proposal = r.proposal
           /\ [r EXCEPT !.pc = pc].support = r.support
           /\ [r EXCEPT !.pc = pc].before = r.before
BY DEF WriteCalls

\* The same of a call whose nonce is taken.
LEMMA NonceTaken ==
    ASSUME NEW r \in WriteCalls
    PROVE  /\ [r EXCEPT !.nonceFree = FALSE] \in WriteCalls
           /\ [r EXCEPT !.nonceFree = FALSE].pc = r.pc
           /\ [r EXCEPT !.nonceFree = FALSE].kind = r.kind
           /\ [r EXCEPT !.nonceFree = FALSE].proposal = r.proposal
           /\ [r EXCEPT !.nonceFree = FALSE].support = r.support
BY DEF WriteCalls

\* A step of one call's handler, by which others may lose their nonce.
LEMMA HandlerMoves ==
    ASSUME GovInv, UNCHANGED <<stage, ballot, outcome>>, NEW c \in Calls,
           DOMAIN calls' = Calls, calls' = [d \in Calls |-> calls'[d]],
           \A d \in Calls \ {c} :
               calls'[d] = calls[d] \/ (calls[d].pc = "Submitting" /\ calls'[d] = [calls[d] EXCEPT !.nonceFree = FALSE]),
           calls'[c] \in AllCalls,
           calls[c].pc \notin {"Cast", "Proposed"},
           outcome[c] # "None" =>
               /\ calls'[c] \in WriteCalls /\ calls'[c].pc \in {"Waiting", "Failed", "Cast", "Proposed"}
               /\ calls'[c].kind = calls[c].kind /\ calls'[c].proposal = calls[c].proposal
               /\ calls'[c].support = calls[c].support,
           calls'[c].pc = "Cast" => outcome[c] = "Success" /\ calls'[c].kind = "Vote",
           calls'[c].pc = "Proposed" => outcome[c] = "Success" /\ calls'[c].kind = "Propose",
           calls'[c].pc \in {"Reading", "Shown", "Listed"} =>
               calls'[c].before \subseteq {d \in Calls : calls[d].pc \in {"Cast", "Proposed"}},
           calls'[c].pc = "Shown" => \A d \in calls'[c].before :
               calls[d].kind = "Vote" /\ calls[d].proposal = calls'[c].proposal
                   => calls'[c].shown = [by |-> d, support |-> calls[d].support],
           calls'[c].pc = "Listed" => \A d \in calls'[c].before : calls[d].proposal \in calls'[c].shown
    PROVE  /\ calls' \in [Calls -> AllCalls]
           /\ SuccessInv' /\ BallotInv' /\ AnswerInv' /\ ReadInv'
           /\ \A d \in Calls : outcome[d] # "None" =>
                  calls'[d] \in WriteCalls /\ calls'[d].pc \in {"Waiting", "Failed", "Cast", "Proposed"}
           /\ \A i \in DOMAIN pending : pending[i] # c => calls'[pending[i]] = calls[pending[i]]
<1>1. GovernorTypes /\ SentInv /\ SuccessInv /\ BallotInv /\ AnswerInv /\ ReadInv
    BY DEF GovInv
<1>2. \A d \in Calls \ {c} :
          calls'[d] = calls[d]
          \/ /\ calls[d].pc = "Submitting" /\ calls'[d].pc = "Submitting" /\ calls'[d] \in WriteCalls
    <2> SUFFICES ASSUME NEW d \in Calls \ {c}, calls'[d] # calls[d]
                 PROVE  calls[d].pc = "Submitting" /\ calls'[d].pc = "Submitting" /\ calls'[d] \in WriteCalls
        OBVIOUS
    <2>1. calls[d].pc = "Submitting" /\ calls'[d] = [calls[d] EXCEPT !.nonceFree = FALSE]
        OBVIOUS
    <2>2. calls[d] \in WriteCalls
        BY <1>1, <2>1, CallShape
    <2>3. QED
        BY <2>1, <2>2, NonceTaken
<1>3. calls' \in [Calls -> AllCalls]
    <2>1. \A d \in Calls : calls'[d] \in AllCalls
        BY <1>1, <1>2 DEF GovernorTypes, AllCalls
    <2>2. QED
        BY <2>1
<1>4. \A d \in Calls : outcome[d] # "None" =>
          /\ calls'[d] \in WriteCalls /\ calls'[d].pc \in {"Waiting", "Failed", "Cast", "Proposed"}
          /\ calls'[d].kind = calls[d].kind /\ calls'[d].proposal = calls[d].proposal
          /\ calls'[d].support = calls[d].support
    BY <1>1, <1>2 DEF SentInv
<1>5. SuccessInv'
    <2>1. \A d \in Calls : outcome[d] = "Success" =>
              /\ calls'[d].kind = calls[d].kind /\ calls'[d].proposal = calls[d].proposal
              /\ calls'[d].support = calls[d].support
        BY <1>4
    <2>2. QED
        BY <1>1, <2>1 DEF SuccessInv
<1>6. BallotInv'
    BY <1>1 DEF BallotInv
<1>7. AnswerInv'
    BY <1>1, <1>2 DEF AnswerInv
<1>8. \A d \in Calls : calls[d].pc \in {"Cast", "Proposed"} => calls'[d] = calls[d]
    BY <1>2
<1>9. ASSUME NEW d \in Calls, calls'[d].pc \in {"Reading", "Shown", "Listed"}
      PROVE  /\ calls'[d].before \subseteq {e \in Calls : calls[e].pc \in {"Cast", "Proposed"}}
             /\ calls'[d].pc = "Shown" => \A e \in calls'[d].before :
                   calls[e].kind = "Vote" /\ calls[e].proposal = calls'[d].proposal
                       => calls'[d].shown = [by |-> e, support |-> calls[e].support]
             /\ calls'[d].pc = "Listed" => \A e \in calls'[d].before : calls[e].proposal \in calls'[d].shown
    <2>1. CASE d = c
        BY <1>9, <2>1
    <2>2. CASE d # c
        <3>1. calls'[d] = calls[d]
            BY <1>2, <1>9, <2>2
        <3>2. QED
            BY <1>1, <1>9, <3>1 DEF ReadInv, Answers, ReadersSeeWhatWasAnswered
    <2>3. QED
        BY <2>1, <2>2
<1>10. ReadInv'
    <2>1. \A d \in Calls : calls'[d].pc \in {"Reading", "Shown", "Listed"} => Answers(d)'
        BY <1>8, <1>9 DEF Answers
    <2>2. ReadersSeeWhatWasAnswered'
        BY <1>8, <1>9 DEF ReadersSeeWhatWasAnswered
    <2>3. QED
        BY <2>1, <2>2 DEF ReadInv
<1>11. \A i \in DOMAIN pending : pending[i] # c => calls'[pending[i]] = calls[pending[i]]
    <2>1. \A i \in DOMAIN pending : pending[i] \in Calls
        BY <1>1, ElementOfSeq, LenProperties DEF GovernorTypes
    <2>2. QED
        BY <1>1, <1>2, <2>1 DEF SentInv
<1>12. QED
    BY <1>3, <1>4, <1>5, <1>6, <1>7, <1>10, <1>11

\* The queue of transactions is left alone.
LEMMA QueueRests ==
    ASSUME GovInv, UNCHANGED <<stage, ballot, outcome, pending>>,
           calls' \in [Calls -> AllCalls],
           SuccessInv' /\ BallotInv' /\ AnswerInv' /\ ReadInv',
           \A d \in Calls : outcome[d] # "None" =>
               calls'[d] \in WriteCalls /\ calls'[d].pc \in {"Waiting", "Failed", "Cast", "Proposed"},
           \A i \in DOMAIN pending :
               calls'[pending[i]] \in WriteCalls /\ calls'[pending[i]].pc \in {"Waiting", "Failed"}
    PROVE  GovInv'
<1>1. GovernorTypes'
    BY DEF GovInv, GovernorTypes
<1>2. SentInv'
    BY DEF GovInv, SentInv
<1>3. QED
    BY <1>1, <1>2 DEF GovInv

\* A user asks: the answers given before are noted, nothing else happens.
LEMMA AskStep ==
    ASSUME GovInv, NEW c \in Calls, NEW kind \in {"Vote", "Propose", "List", "Show"},
           NEW p \in Proposals, NEW support \in Supports \cup {"None"},
           NEW pc \in {"Estimating", "Reading"},
           pc = "Reading" <=> kind \in {"List", "Show"},
           Ask(c, kind, p, support, pc)
    PROVE  GovInv'
<1> DEFINE before == {d \in Calls : pc = "Reading" /\ calls[d].pc \in {"Cast", "Proposed"}}
           r == [pc |-> pc, kind |-> kind, proposal |-> p, support |-> support, nonceFree |-> TRUE,
                 before |-> before]
<1>1. /\ calls[c].pc = "Unasked" /\ calls' = [calls EXCEPT ![c] = r]
      /\ UNCHANGED <<stage, ballot, outcome, pending>>
    BY DEF Ask, chainVars
<1>2. GovernorTypes /\ SentInv
    BY DEF GovInv
<1>3. /\ r \in WriteCalls \cup ReadCalls /\ r.pc = pc
      /\ r.before \subseteq {d \in Calls : calls[d].pc \in {"Cast", "Proposed"}}
    BY DEF WriteCalls, ReadCalls
<1> HIDE DEF r, before
<1>4. /\ calls'[c] = r /\ \A d \in Calls \ {c} : calls'[d] = calls[d]
      /\ DOMAIN calls' = Calls /\ calls' = [d \in Calls |-> calls'[d]]
    BY <1>1, <1>2 DEF GovernorTypes
<1>5. outcome[c] = "None"
    BY <1>1, <1>2 DEF SentInv
<1>6. \A i \in DOMAIN pending : pending[i] # c
    BY <1>1, <1>2 DEF SentInv
<1>7. calls'[c] \in AllCalls
    BY <1>3, <1>4 DEF AllCalls
<1>8. /\ calls' \in [Calls -> AllCalls]
      /\ SuccessInv' /\ BallotInv' /\ AnswerInv' /\ ReadInv'
      /\ \A d \in Calls : outcome[d] # "None" =>
             calls'[d] \in WriteCalls /\ calls'[d].pc \in {"Waiting", "Failed", "Cast", "Proposed"}
      /\ \A i \in DOMAIN pending : pending[i] # c => calls'[pending[i]] = calls[pending[i]]
    BY <1>1, <1>3, <1>4, <1>5, <1>7, HandlerMoves
<1>9. QED
    BY <1>1, <1>2, <1>6, <1>8, QueueRests DEF SentInv

\* A call moves on to pc, its transaction as it was; not to success.
LEMMA CallStops ==
    ASSUME GovInv, NEW c \in Calls, NEW pc \in {"Submitting", "Failed", "NotFound"},
           calls[c].pc \in {"Estimating", "Submitting", "Waiting", "Reading"},
           calls[c].pc \in {"Submitting", "Waiting"} => pc = "Failed",
           calls[c].pc = "Estimating" => pc # "NotFound",
           calls[c].pc = "Reading" => pc # "Submitting",
           Step(c, pc), UNCHANGED <<stage, ballot, outcome, pending>>
    PROVE  GovInv'
<1>1. GovernorTypes /\ SentInv
    BY DEF GovInv
<1>2. /\ calls'[c] = [calls[c] EXCEPT !.pc = pc] /\ \A d \in Calls \ {c} : calls'[d] = calls[d]
      /\ DOMAIN calls' = Calls /\ calls' = [d \in Calls |-> calls'[d]]
    BY <1>1 DEF Step, GovernorTypes
<1>3. CASE calls[c].pc = "Reading"
    <2>1. calls[c] \in ReadCalls
        BY <1>1, <1>3, CallShape
    <2>2. calls'[c] \in ReadCalls /\ calls'[c].pc = pc
        BY <1>2, <1>3, <2>1 DEF ReadCalls
    <2>3. outcome[c] = "None" /\ \A i \in DOMAIN pending : pending[i] # c
        BY <1>1, <1>3 DEF SentInv
    <2>4. calls'[c] \in AllCalls
        BY <2>2 DEF AllCalls
    <2>5. /\ calls' \in [Calls -> AllCalls]
          /\ SuccessInv' /\ BallotInv' /\ AnswerInv' /\ ReadInv'
          /\ \A d \in Calls : outcome[d] # "None" =>
                 calls'[d] \in WriteCalls /\ calls'[d].pc \in {"Waiting", "Failed", "Cast", "Proposed"}
          /\ \A i \in DOMAIN pending : pending[i] # c => calls'[pending[i]] = calls[pending[i]]
        BY <1>2, <1>3, <2>2, <2>3, <2>4, HandlerMoves
    <2>6. QED
        BY <1>1, <2>3, <2>5, QueueRests DEF SentInv
<1>4. CASE calls[c].pc # "Reading"
    <2>1. calls[c] \in WriteCalls
        BY <1>1, <1>4, CallShape
    <2>2. pc \in {"Estimating", "Submitting", "Waiting", "Failed", "Cast", "Proposed"}
        BY <1>4
    <2>3. /\ calls'[c] \in WriteCalls /\ calls'[c].pc = pc
          /\ calls'[c].kind = calls[c].kind /\ calls'[c].proposal = calls[c].proposal
          /\ calls'[c].support = calls[c].support
        <3>1. calls'[c] = [calls[c] EXCEPT !.pc = pc]
            BY <1>2
        <3>2. /\ [calls[c] EXCEPT !.pc = pc] \in WriteCalls
              /\ [calls[c] EXCEPT !.pc = pc].pc = pc
              /\ [calls[c] EXCEPT !.pc = pc].kind = calls[c].kind
              /\ [calls[c] EXCEPT !.pc = pc].proposal = calls[c].proposal
              /\ [calls[c] EXCEPT !.pc = pc].support = calls[c].support
            BY <2>1, <2>2, CallMoved, ZenonT(30)
        <3>3. QED
            BY <3>1, <3>2
    <2>4. outcome[c] # "None" => calls[c].pc = "Waiting"
        BY <1>1, <1>4 DEF SentInv
    <2>5. calls'[c] \in AllCalls
        BY <2>3 DEF AllCalls
    <2>6. /\ calls' \in [Calls -> AllCalls]
          /\ SuccessInv' /\ BallotInv' /\ AnswerInv' /\ ReadInv'
          /\ \A d \in Calls : outcome[d] # "None" =>
                 calls'[d] \in WriteCalls /\ calls'[d].pc \in {"Waiting", "Failed", "Cast", "Proposed"}
          /\ \A i \in DOMAIN pending : pending[i] # c => calls'[pending[i]] = calls[pending[i]]
        BY <1>2, <2>3, <2>4, <2>5, HandlerMoves
    <2>7. \A i \in DOMAIN pending :
              calls'[pending[i]] \in WriteCalls /\ calls'[pending[i]].pc \in {"Waiting", "Failed"}
        <3> SUFFICES ASSUME NEW i \in DOMAIN pending
                     PROVE  calls'[pending[i]] \in WriteCalls /\ calls'[pending[i]].pc \in {"Waiting", "Failed"}
            OBVIOUS
        <3>1. CASE pending[i] = c
            BY <1>1, <2>3, <3>1 DEF SentInv
        <3>2. CASE pending[i] # c
            BY <1>1, <2>6, <3>2 DEF SentInv
        <3>3. QED
            BY <3>1, <3>2
    <2>8. QED
        BY <2>6, <2>7, QueueRests
<1>5. QED
    BY <1>3, <1>4

\* The gas estimate: on to the submission, or an error.
LEMMA EstimateStep ==
    ASSUME GovInv, NEW c \in Calls, Estimate(c)
    PROVE  GovInv'
<1>1. PICK pc \in {"Submitting", "Failed"} : Step(c, pc)
    BY DEF Estimate
<1>2. calls[c].pc = "Estimating" /\ UNCHANGED <<stage, ballot, outcome, pending>>
    BY DEF Estimate, chainVars
<1>3. QED
    BY <1>1, <1>2, CallStops

\* tx.wait(): success is answered for a transaction that succeeded.
LEMMA WaitStep ==
    ASSUME GovInv, NEW c \in Calls, Wait(c)
    PROVE  GovInv'
<1> DEFINE pc == IF outcome[c] # "Success" THEN "Failed"
                 ELSE IF calls[c].kind = "Vote" THEN "Cast" ELSE "Proposed"
<1>1. /\ calls[c].pc = "Waiting" /\ outcome[c] # "None" /\ Step(c, pc)
      /\ UNCHANGED <<stage, ballot, outcome, pending>>
    BY DEF Wait, chainVars
<1>2. GovernorTypes /\ SentInv
    BY DEF GovInv
<1>3. calls[c] \in WriteCalls /\ calls[c].kind \in {"Vote", "Propose"}
    BY <1>1, <1>2 DEF SentInv, WriteCalls
<1>4. /\ pc \in {"Failed", "Cast", "Proposed"}
      /\ pc = "Cast" => outcome[c] = "Success" /\ calls[c].kind = "Vote"
      /\ pc = "Proposed" => outcome[c] = "Success" /\ calls[c].kind = "Propose"
    BY <1>3
<1> HIDE DEF pc
<1>5. /\ calls'[c] = [calls[c] EXCEPT !.pc = pc] /\ \A d \in Calls \ {c} : calls'[d] = calls[d]
      /\ DOMAIN calls' = Calls /\ calls' = [d \in Calls |-> calls'[d]]
    BY <1>1, <1>2 DEF Step, GovernorTypes
<1>6. /\ calls'[c] \in WriteCalls /\ calls'[c].pc = pc
      /\ calls'[c].kind = calls[c].kind /\ calls'[c].proposal = calls[c].proposal
      /\ calls'[c].support = calls[c].support
    <2>1. pc \in {"Estimating", "Submitting", "Waiting", "Failed", "Cast", "Proposed"}
        BY <1>4
    <2>2. /\ [calls[c] EXCEPT !.pc = pc] \in WriteCalls
          /\ [calls[c] EXCEPT !.pc = pc].pc = pc
          /\ [calls[c] EXCEPT !.pc = pc].kind = calls[c].kind
          /\ [calls[c] EXCEPT !.pc = pc].proposal = calls[c].proposal
          /\ [calls[c] EXCEPT !.pc = pc].support = calls[c].support
        BY <1>3, <2>1, CallMoved, ZenonT(30)
    <2>3. QED
        BY <1>5, <2>2
<1>7. calls'[c] \in AllCalls
    BY <1>6 DEF AllCalls
<1>8. /\ calls' \in [Calls -> AllCalls]
      /\ SuccessInv' /\ BallotInv' /\ AnswerInv' /\ ReadInv'
      /\ \A d \in Calls : outcome[d] # "None" =>
             calls'[d] \in WriteCalls /\ calls'[d].pc \in {"Waiting", "Failed", "Cast", "Proposed"}
      /\ \A i \in DOMAIN pending : pending[i] # c => calls'[pending[i]] = calls[pending[i]]
    BY <1>1, <1>4, <1>5, <1>6, <1>7, HandlerMoves, ZenonT(30)
<1>9. \A i \in DOMAIN pending : pending[i] # c
    BY <1>1, <1>2 DEF SentInv
<1>10. QED
    BY <1>1, <1>2, <1>8, <1>9, QueueRests DEF SentInv

\* The wallet's other transactions take the nonce: nobody's record changes but for it.
LEMMA RelayStep ==
    ASSUME GovInv, RelayUsesWallet
    PROVE  GovInv'
<1>1. PICK c \in Calls : calls[c].pc = "Submitting" /\ calls[c].nonceFree
    BY DEF RelayUsesWallet
<1>2. /\ calls' = [d \in Calls |-> IF calls[d].pc = "Submitting" THEN [calls[d] EXCEPT !.nonceFree = FALSE]
                                   ELSE calls[d]]
      /\ UNCHANGED <<stage, ballot, outcome, pending>>
    BY DEF RelayUsesWallet, chainVars
<1>3. GovernorTypes /\ SentInv
    BY DEF GovInv
<1>4. calls[c] \in WriteCalls /\ calls'[c] = [calls[c] EXCEPT !.nonceFree = FALSE]
    BY <1>1, <1>2, <1>3, CallShape
<1>5. /\ calls'[c] \in WriteCalls /\ calls'[c].pc = "Submitting"
    BY <1>1, <1>4, NonceTaken
<1>6. outcome[c] = "None" /\ \A i \in DOMAIN pending : pending[i] # c
    BY <1>1, <1>3 DEF SentInv
<1>7. /\ DOMAIN calls' = Calls /\ calls' = [d \in Calls |-> calls'[d]]
      /\ \A d \in Calls \ {c} :
            calls'[d] = calls[d] \/ (calls[d].pc = "Submitting" /\ calls'[d] = [calls[d] EXCEPT !.nonceFree = FALSE])
    BY <1>2
<1>8. calls'[c] \in AllCalls
    BY <1>5 DEF AllCalls
<1>9. /\ calls' \in [Calls -> AllCalls]
      /\ SuccessInv' /\ BallotInv' /\ AnswerInv' /\ ReadInv'
      /\ \A d \in Calls : outcome[d] # "None" =>
             calls'[d] \in WriteCalls /\ calls'[d].pc \in {"Waiting", "Failed", "Cast", "Proposed"}
      /\ \A i \in DOMAIN pending : pending[i] # c => calls'[pending[i]] = calls[pending[i]]
    BY <1>1, <1>2, <1>5, <1>6, <1>7, <1>8, HandlerMoves
<1>10. QED
    BY <1>2, <1>3, <1>6, <1>9, QueueRests DEF SentInv

\* A transaction is sent with the wallet's next nonce, known to its call or not.
LEMMA TransactionSent ==
    ASSUME GovInv, NEW c \in Calls, NEW pc \in {"Waiting", "Failed"},
           calls[c].pc = "Submitting",
           pending' = Append(pending, c), TakeNonce(c, pc), UNCHANGED <<stage, ballot, outcome>>
    PROVE  GovInv'
<1>1. GovernorTypes /\ SentInv
    BY DEF GovInv
<1>2. calls[c] \in WriteCalls
    BY <1>1, CallShape
<1>3. /\ calls'[c] = [calls[c] EXCEPT !.pc = pc]
      /\ DOMAIN calls' = Calls /\ calls' = [d \in Calls |-> calls'[d]]
      /\ \A d \in Calls \ {c} :
            calls'[d] = calls[d] \/ (calls[d].pc = "Submitting" /\ calls'[d] = [calls[d] EXCEPT !.nonceFree = FALSE])
    BY DEF TakeNonce
<1>4. calls'[c] \in WriteCalls /\ calls'[c].pc = pc
    <2>1. pc \in {"Estimating", "Submitting", "Waiting", "Failed", "Cast", "Proposed"}
        OBVIOUS
    <2>2. [calls[c] EXCEPT !.pc = pc] \in WriteCalls /\ [calls[c] EXCEPT !.pc = pc].pc = pc
        BY <1>2, <2>1, CallMoved
    <2>3. QED
        BY <1>3, <2>2
<1>5. outcome[c] = "None" /\ \A i \in DOMAIN pending : pending[i] # c
    BY <1>1 DEF SentInv
<1>6. calls'[c] \in AllCalls
    BY <1>4 DEF AllCalls
<1>7. /\ calls' \in [Calls -> AllCalls]
      /\ SuccessInv' /\ BallotInv' /\ AnswerInv' /\ ReadInv'
      /\ \A d \in Calls : outcome[d] # "None" =>
             calls'[d] \in WriteCalls /\ calls'[d].pc \in {"Waiting", "Failed", "Cast", "Proposed"}
      /\ \A i \in DOMAIN pending : pending[i] # c => calls'[pending[i]] = calls[pending[i]]
    BY <1>3, <1>4, <1>5, <1>6, HandlerMoves
<1>8. /\ pending' \in Seq(Calls) /\ Len(pending) \in Nat
      /\ DOMAIN pending = 1 .. Len(pending) /\ DOMAIN pending' = 1 .. Len(pending) + 1
      /\ \A i \in 1 .. Len(pending) : pending'[i] = pending[i]
      /\ pending'[Len(pending) + 1] = c
    BY <1>1, AppendProperties, LenProperties DEF GovernorTypes
<1>9. \A i \in 1 .. Len(pending) + 1 : i \in 1 .. Len(pending) \/ i = Len(pending) + 1
    BY <1>8
<1>10. SentInv'
    <2>1. IsInjective(pending')
        BY <1>1, <1>5, <1>8, <1>9 DEF SentInv, IsInjective
    <2>2. \A i \in DOMAIN pending' :
              /\ outcome[pending'[i]] = "None"
              /\ calls'[pending'[i]].pc \in {"Waiting", "Failed"}
              /\ calls'[pending'[i]] \in WriteCalls
        BY <1>1, <1>4, <1>5, <1>7, <1>8, <1>9 DEF SentInv
    <2>3. QED
        BY <1>7, <2>1, <2>2 DEF SentInv
<1>11. GovernorTypes'
    BY <1>1, <1>7, <1>8 DEF GovernorTypes
<1>12. QED
    BY <1>7, <1>10, <1>11 DEF GovInv

\* The transaction is broadcast, or its nonce was taken meanwhile.
LEMMA SubmitStep ==
    ASSUME GovInv, NEW c \in Calls, Submit(c)
    PROVE  GovInv'
<1>1. calls[c].pc = "Submitting" /\ UNCHANGED <<stage, ballot, outcome>>
    BY DEF Submit, chainVars
<1>2. CASE calls[c].nonceFree
    BY <1>1, <1>2, TransactionSent DEF Submit
<1>3. CASE ~calls[c].nonceFree
    BY <1>1, <1>3, CallStops DEF Submit
<1>4. QED
    BY <1>2, <1>3

\* The endpoint fails; what was being sent may be pending all the same.
LEMMA EndpointFailsStep ==
    ASSUME GovInv, NEW c \in Calls, EndpointFails(c)
    PROVE  GovInv'
<1>1. calls[c].pc \in {"Estimating", "Submitting", "Waiting", "Reading"} /\ UNCHANGED <<stage, ballot, outcome>>
    BY DEF EndpointFails, chainVars
<1>2. CASE Step(c, IF calls[c].kind = "Show" THEN "NotFound" ELSE "Failed") /\ UNCHANGED pending
    <2> DEFINE pc == IF calls[c].kind = "Show" THEN "NotFound" ELSE "Failed"
    <2>1. calls[c].pc # "Reading" => calls[c].kind # "Show"
        <3>1. calls[c].pc # "Reading" => calls[c] \in WriteCalls
            BY <1>1, CallShape DEF GovInv
        <3>2. QED
            BY <3>1 DEF WriteCalls
    <2>2. pc \in {"Submitting", "Failed", "NotFound"} /\ pc # "Submitting" /\ (calls[c].pc # "Reading" => pc = "Failed")
        BY <2>1
    <2>3. Step(c, pc)
        BY <1>2
    <2> HIDE DEF pc
    <2>4. QED
        BY <1>1, <1>2, <2>2, <2>3, CallStops
<1>3. CASE calls[c].pc = "Submitting" /\ pending' = Append(pending, c) /\ TakeNonce(c, "Failed")
    BY <1>1, <1>3, TransactionSent
<1>4. QED
    BY <1>2, <1>3 DEF EndpointFails

\* A ballot is none but its own.
LEMMA BallotIsSome ==
    ASSUME NEW c, NEW s
    PROVE  [by |-> c, support |-> s] # NoBallot
<1>1. "support" \in DOMAIN [by |-> c, support |-> s] /\ "support" \notin DOMAIN NoBallot
    BY DEF NoBallot
<1>2. QED
    BY <1>1

\* What was answered with success is true of the governor.
LEMMA AnsweredIsTrue ==
    ASSUME GovInv, NEW d \in Calls, calls[d].pc \in {"Cast", "Proposed"}
    PROVE  /\ calls[d] \in WriteCalls /\ calls[d].proposal \in Proposals
           /\ stage[calls[d].proposal] # "None"
           /\ calls[d].kind = "Vote" => ballot[calls[d].proposal] = [by |-> d, support |-> calls[d].support]
<1>1. calls[d] \in WriteCalls
    BY CallShape DEF GovInv
<1>2. calls[d].proposal \in Proposals
    BY <1>1 DEF WriteCalls
<1>3. outcome[d] = "Success"
    BY DEF GovInv, AnswerInv
<1>4. calls[d].kind = "Vote" => ballot[calls[d].proposal] = [by |-> d, support |-> calls[d].support]
    BY <1>3 DEF GovInv, SuccessInv
<1>5. calls[d].kind = "Vote" => stage[calls[d].proposal] # "None"
    <2>1. calls[d].kind = "Vote" => ballot[calls[d].proposal] # NoBallot
        BY <1>4, BallotIsSome
    <2>2. QED
        BY <1>2, <2>1 DEF GovInv, BallotInv
<1>6. calls[d].pc = "Proposed" => stage[calls[d].proposal] # "None"
    BY <1>3 DEF GovInv, SuccessInv, AnswerInv
<1>7. calls[d].pc = "Cast" => calls[d].kind = "Vote"
    BY DEF GovInv, AnswerInv
<1>8. QED
    BY <1>1, <1>2, <1>4, <1>5, <1>6, <1>7

\* GET /proposals: a list shown is of all the proposals there are.
LEMMA ListStep ==
    ASSUME GovInv, NEW c \in Calls, List(c)
    PROVE  GovInv'
<1> DEFINE found == \A p \in Created : Decodable(p)
           r == [pc |-> IF found THEN "Listed" ELSE "Failed", kind |-> "List",
                 before |-> calls[c].before, shown |-> {p \in Created : Decodable(p)}]
<1>1. /\ calls[c].pc = "Reading" /\ calls[c].kind = "List" /\ calls' = [calls EXCEPT ![c] = r]
      /\ UNCHANGED <<stage, ballot, outcome, pending>>
    BY DEF List, chainVars
<1>2. GovernorTypes /\ SentInv /\ ReadInv
    BY DEF GovInv
<1>3. calls[c].before \subseteq {d \in Calls : calls[d].pc \in {"Cast", "Proposed"}}
    BY <1>1, <1>2 DEF ReadInv, Answers
<1>4. /\ r \in ListAnswers /\ r.pc \in {"Listed", "Failed"} /\ r.before = calls[c].before
      /\ r.pc = "Listed" => \A d \in r.before : calls[d].proposal \in r.shown
    <2>1. Created \subseteq Proposals
        BY DEF Created
    <2>2. r \in ListAnswers /\ r.pc \in {"Listed", "Failed"} /\ r.before = calls[c].before
        BY <1>3, <2>1 DEF ListAnswers
    <2>3. \A d \in calls[c].before : calls[d].proposal \in Created
        BY <1>3, AnsweredIsTrue DEF Created
    <2>4. r.pc = "Listed" => r.shown = Created
        BY <2>1
    <2>5. QED
        BY <2>2, <2>3, <2>4
<1> HIDE DEF r
<1>5. /\ calls'[c] = r /\ \A d \in Calls \ {c} : calls'[d] = calls[d]
      /\ DOMAIN calls' = Calls /\ calls' = [d \in Calls |-> calls'[d]]
    BY <1>1, <1>2 DEF GovernorTypes
<1>6. outcome[c] = "None" /\ \A i \in DOMAIN pending : pending[i] # c
    BY <1>1, <1>2 DEF SentInv
<1>7. calls'[c] \in AllCalls
    BY <1>4, <1>5 DEF AllCalls
<1>8. /\ calls' \in [Calls -> AllCalls]
      /\ SuccessInv' /\ BallotInv' /\ AnswerInv' /\ ReadInv'
      /\ \A d \in Calls : outcome[d] # "None" =>
             calls'[d] \in WriteCalls /\ calls'[d].pc \in {"Waiting", "Failed", "Cast", "Proposed"}
      /\ \A i \in DOMAIN pending : pending[i] # c => calls'[pending[i]] = calls[pending[i]]
    BY <1>1, <1>3, <1>4, <1>5, <1>6, <1>7, HandlerMoves
<1>9. QED
    BY <1>1, <1>2, <1>6, <1>8, QueueRests DEF SentInv

\* GET /proposals/:proposalId: the wallet's ballot as it stands.
LEMMA ShowStep ==
    ASSUME GovInv, NEW c \in Calls, Show(c)
    PROVE  GovInv'
<1> DEFINE p == calls[c].proposal
           r == [pc |-> IF stage[p] = "None" THEN "NotFound" ELSE "Shown",
                 kind |-> "Show", proposal |-> p, before |-> calls[c].before, shown |-> ballot[p]]
<1>1. /\ calls[c].pc = "Reading" /\ calls' = [calls EXCEPT ![c] = r]
      /\ UNCHANGED <<stage, ballot, outcome, pending>>
    BY DEF Show, chainVars
<1>2. GovernorTypes /\ SentInv /\ ReadInv
    BY DEF GovInv
<1>3. calls[c].before \subseteq {d \in Calls : calls[d].pc \in {"Cast", "Proposed"}}
    BY <1>1, <1>2 DEF ReadInv, Answers
<1>4. /\ r \in ShowAnswers /\ r.pc \in {"Shown", "NotFound"} /\ r.before = calls[c].before
      /\ \A d \in r.before : calls[d].kind = "Vote" /\ calls[d].proposal = r.proposal
             => r.shown = [by |-> d, support |-> calls[d].support]
    <2>1. calls[c] \in ReadCalls
        BY <1>1, <1>2, CallShape
    <2>2. p \in Proposals
        BY <2>1 DEF ReadCalls
    <2>3. ballot[p] \in Ballots
        BY <1>2, <2>2 DEF GovernorTypes
    <2>4. r \in ShowAnswers /\ r.pc \in {"Shown", "NotFound"}
        BY <1>3, <2>2, <2>3 DEF ShowAnswers
    <2>5. r.shown = ballot[r.proposal] /\ r.before = calls[c].before
        OBVIOUS
    <2>6. QED
        BY <1>3, <2>4, <2>5, AnsweredIsTrue
<1> HIDE DEF r
<1>5. /\ calls'[c] = r /\ \A d \in Calls \ {c} : calls'[d] = calls[d]
      /\ DOMAIN calls' = Calls /\ calls' = [d \in Calls |-> calls'[d]]
    BY <1>1, <1>2 DEF GovernorTypes
<1>6. outcome[c] = "None" /\ \A i \in DOMAIN pending : pending[i] # c
    BY <1>1, <1>2 DEF SentInv
<1>7. calls'[c] \in AllCalls
    BY <1>4, <1>5 DEF AllCalls
<1>8. /\ calls'[c].pc \in {"Shown", "NotFound"}
      /\ calls'[c].before \subseteq {d \in Calls : calls[d].pc \in {"Cast", "Proposed"}}
      /\ \A d \in calls'[c].before : calls[d].kind = "Vote" /\ calls[d].proposal = calls'[c].proposal
             => calls'[c].shown = [by |-> d, support |-> calls[d].support]
    BY <1>3, <1>4, <1>5
<1>9. /\ calls' \in [Calls -> AllCalls]
      /\ SuccessInv' /\ BallotInv' /\ AnswerInv' /\ ReadInv'
      /\ \A d \in Calls : outcome[d] # "None" =>
             calls'[d] \in WriteCalls /\ calls'[d].pc \in {"Waiting", "Failed", "Cast", "Proposed"}
      /\ \A i \in DOMAIN pending : pending[i] # c => calls'[pending[i]] = calls[pending[i]]
    BY <1>1, <1>5, <1>6, <1>7, <1>8, HandlerMoves
<1>10. QED
    BY <1>1, <1>2, <1>6, <1>9, QueueRests DEF SentInv

\* A proposal goes on to its next stage.
LEMMA ElsewhereStep ==
    ASSUME GovInv, Elsewhere
    PROVE  GovInv'
<1>1. PICK p \in Proposals, s \in {"Pending", "Active", "Over"} :
          /\ <<stage[p], s>> \in {<<"None", "Pending">>, <<"Pending", "Active">>,
                                  <<"Pending", "Over">>, <<"Active", "Over">>}
          /\ stage' = [stage EXCEPT ![p] = s]
    BY DEF Elsewhere
<1>2. UNCHANGED <<ballot, pending, outcome, calls>>
    BY DEF Elsewhere
<1>3. GovernorTypes /\ SentInv /\ SuccessInv /\ BallotInv /\ AnswerInv /\ ReadInv
    BY DEF GovInv
<1>4. /\ stage' \in [Proposals -> {"None", "Pending", "Active", "Over"}]
      /\ \A q \in Proposals : stage[q] # "None" => stage'[q] # "None"
      /\ \A q \in Proposals : stage[q] \in {"Active", "Over"} => stage'[q] \in {"Active", "Over"}
    BY <1>1, <1>3 DEF GovernorTypes
<1>5. GovernorTypes'
    BY <1>2, <1>3, <1>4 DEF GovernorTypes
<1>6. SentInv' /\ AnswerInv' /\ ReadInv'
    BY <1>2, <1>3 DEF SentInv, AnswerInv, ReadInv, Answers, ReadersSeeWhatWasAnswered
<1>7. SuccessInv'
    <2>1. \A c \in Calls : outcome[c] = "Success" => calls[c].proposal \in Proposals
        BY <1>3 DEF SentInv, WriteCalls
    <2>2. QED
        BY <1>2, <1>3, <1>4, <2>1 DEF SuccessInv
<1>8. BallotInv'
    BY <1>2, <1>3, <1>4 DEF BallotInv
<1>9. QED
    BY <1>5, <1>6, <1>7, <1>8 DEF GovInv

\* A block takes the wallet's next transaction: a vote only on an open proposal the
\* wallet has not voted on, a proposal only if it is not made yet.
LEMMA MineNextStep ==
    ASSUME GovInv, MineNext
    PROVE  GovInv'
<1> DEFINE c == Head(pending)
           p == calls[c].proposal
<1>1. /\ pending # <<>> /\ pending' = Tail(pending) /\ calls' = calls
    BY DEF MineNext
<1>2. GovernorTypes /\ SentInv /\ SuccessInv /\ BallotInv /\ AnswerInv /\ ReadInv
    BY DEF GovInv
<1>3. /\ Len(pending) \in Nat /\ DOMAIN pending = 1 .. Len(pending) /\ 1 \in DOMAIN pending
      /\ c = pending[1] /\ c \in Calls
      /\ pending' \in Seq(Calls) /\ Len(pending') = Len(pending) - 1
      /\ DOMAIN pending' = 1 .. Len(pending) - 1
      /\ \A i \in 1 .. Len(pending) - 1 : pending'[i] = pending[i + 1]
    <2>1. pending \in Seq(Calls)
        BY <1>2 DEF GovernorTypes
    <2>2. /\ Len(pending) \in Nat /\ DOMAIN pending = 1 .. Len(pending) /\ Len(pending) # 0
        BY <1>1, <2>1, LenProperties, EmptySeq
    <2>3. /\ pending' \in Seq(Calls) /\ Len(pending') = Len(pending) - 1
          /\ \A i \in 1 .. Len(pending') : pending'[i] = pending[i + 1] /\ c \in Calls
        BY <1>1, <2>1, HeadTailProperties
    <2>4. DOMAIN pending' = 1 .. Len(pending')
        BY <2>3, LenProperties
    <2>5. c = pending[1] /\ c \in Calls
        BY <1>1, <2>1, HeadTailProperties
    <2>6. QED
        BY <2>2, <2>3, <2>4, <2>5
<1>4. /\ outcome[c] = "None" /\ calls[c] \in WriteCalls /\ calls[c].pc \in {"Waiting", "Failed"}
      /\ p \in Proposals
      /\ calls[c].kind \in {"Vote", "Propose"} /\ calls[c].support \in Supports \cup {"None"}
    <2>1. outcome[c] = "None" /\ calls[c] \in WriteCalls /\ calls[c].pc \in {"Waiting", "Failed"}
        BY <1>2, <1>3 DEF SentInv
    <2>2. QED
        BY <2>1 DEF WriteCalls
<1>5. PICK result \in {"Success", "Reverted"} : outcome' = [outcome EXCEPT ![c] = result]
    BY DEF MineNext
<1> HIDE DEF c
<1>6. /\ \A d \in Calls : outcome'[d] = IF d = c THEN result ELSE outcome[d]
      /\ outcome' \in [Calls -> {"None", "Success", "Reverted"}]
    BY <1>2, <1>3, <1>5 DEF GovernorTypes
<1>7. SentInv'
    <2>1. IsInjective(pending')
        <3> SUFFICES ASSUME NEW i \in 1 .. Len(pending) - 1, NEW j \in 1 .. Len(pending) - 1,
                            pending'[i] = pending'[j]
                     PROVE  i = j
            BY <1>3 DEF IsInjective
        <3>1. i + 1 \in DOMAIN pending /\ j + 1 \in DOMAIN pending
            BY <1>3
        <3>2. pending[i + 1] = pending[j + 1]
            BY <1>3
        <3>3. i + 1 = j + 1
            BY <1>2, <3>1, <3>2 DEF SentInv, IsInjective
        <3>4. QED
            BY <1>3, <3>3
    <2>2. \A i \in DOMAIN pending' : pending'[i] # c /\ pending'[i] \in Calls
          /\ i + 1 \in DOMAIN pending /\ pending'[i] = pending[i + 1]
        <3> SUFFICES ASSUME NEW i \in 1 .. Len(pending) - 1
                     PROVE  pending[i + 1] # pending[1] /\ pending[i + 1] \in Calls /\ i + 1 \in DOMAIN pending
            BY <1>3
        <3>1. i + 1 \in DOMAIN pending /\ i + 1 # 1
            BY <1>3
        <3>2. pending[i + 1] \in Calls
            BY <1>2, <1>3, <3>1, ElementOfSeq DEF GovernorTypes
        <3>3. QED
            BY <1>2, <1>3, <3>1, <3>2 DEF SentInv, IsInjective
    <2>3. \A i \in DOMAIN pending' :
              /\ outcome'[pending'[i]] = "None"
              /\ calls'[pending'[i]].pc \in {"Waiting", "Failed"}
              /\ calls'[pending'[i]] \in WriteCalls
        BY <1>1, <1>2, <1>6, <2>2 DEF SentInv
    <2>4. \A d \in Calls : outcome'[d] # "None" =>
              calls'[d] \in WriteCalls /\ calls'[d].pc \in {"Waiting", "Failed", "Cast", "Proposed"}
        BY <1>1, <1>2, <1>4, <1>6 DEF SentInv
    <2>5. QED
        BY <2>1, <2>3, <2>4 DEF SentInv
<1>8. AnswerInv' /\ ReadInv'
    BY <1>1, <1>2, <1>4, <1>6 DEF AnswerInv, ReadInv, Answers, ReadersSeeWhatWasAnswered
<1>9. CASE result = "Reverted"
    <2>1. UNCHANGED <<stage, ballot>>
        BY <1>3, <1>4, <1>5, <1>6, <1>9 DEF MineNext, c
    <2>2. GovernorTypes' /\ SuccessInv' /\ BallotInv'
        BY <1>1, <1>2, <1>3, <1>4, <1>6, <1>9, <2>1 DEF GovernorTypes, SuccessInv, BallotInv
    <2>3. QED
        BY <1>7, <1>8, <2>2 DEF GovInv
<1>10. CASE result = "Success" /\ calls[c].kind = "Vote"
    <2>1. /\ stage[p] = "Active" /\ ballot[p] = NoBallot /\ stage' = stage
          /\ ballot' = [ballot EXCEPT ![p] = [by |-> c, support |-> calls[c].support]]
        BY <1>3, <1>4, <1>5, <1>6, <1>10 DEF MineNext, Executable, c
    <2>2. [by |-> c, support |-> calls[c].support] \in Ballots
        BY <1>3, <1>4 DEF Ballots
    <2>3. /\ ballot' \in [Proposals -> Ballots]
          /\ \A q \in Proposals : ballot'[q] =
                IF q = p THEN [by |-> c, support |-> calls[c].support] ELSE ballot[q]
        BY <1>2, <1>4, <2>1, <2>2 DEF GovernorTypes
    <2>4. \A d \in Calls : outcome[d] = "Success" /\ calls[d].kind = "Vote" => calls[d].proposal # p
        BY <1>2, <2>1, BallotIsSome, ZenonT(30) DEF SuccessInv
    <2>5. \A d \in Calls : outcome[d] = "Success" => calls[d].proposal \in Proposals
        BY <1>2 DEF SentInv, WriteCalls
    <2> HIDE DEF p
    <2>6. p = calls[c].proposal
        BY DEF p
    <2>7. SuccessInv'
        <3>1. \A d \in Calls : outcome'[d] = "Success" =>
                  /\ calls'[d].kind = "Vote" =>
                        ballot'[calls'[d].proposal] = [by |-> d, support |-> calls'[d].support]
                  /\ calls'[d].kind = "Propose" => stage'[calls'[d].proposal] # "None"
            BY <1>1, <1>2, <1>4, <1>6, <1>10, <2>1, <2>3, <2>4, <2>5, <2>6 DEF SuccessInv
        <3>2. \A d \in Calls : outcome'[d] = "Success" /\ calls'[d].kind = "Propose" => outcome[d] = "Success"
            BY <1>1, <1>6, <1>10
        <3>3. QED
            BY <1>1, <1>2, <3>1, <3>2 DEF SuccessInv
    <2>8. BallotInv'
        BY <1>2, <1>3, <1>4, <1>6, <1>10, <2>1, <2>3 DEF BallotInv
    <2>9. GovernorTypes'
        BY <1>1, <1>2, <1>3, <1>6, <2>1, <2>3 DEF GovernorTypes
    <2>10. QED
        BY <1>7, <1>8, <2>7, <2>8, <2>9 DEF GovInv
<1>11. CASE result = "Success" /\ calls[c].kind = "Propose"
    <2>1. /\ stage[p] = "None" /\ stage' = [stage EXCEPT ![p] = "Pending"] /\ ballot' = ballot
        BY <1>3, <1>4, <1>5, <1>6, <1>11 DEF MineNext, Executable, c
    <2>2. /\ stage' \in [Proposals -> {"None", "Pending", "Active", "Over"}]
          /\ \A q \in Proposals : stage'[q] = IF q = p THEN "Pending" ELSE stage[q]
        BY <1>2, <1>4, <2>1 DEF GovernorTypes
    <2>3. \A d \in Calls : outcome[d] = "Success" => calls[d].proposal \in Proposals
        BY <1>2 DEF SentInv, WriteCalls
    <2>4. \A d \in Calls : outcome[d] = "Success" /\ calls[d].kind = "Propose" => calls[d].proposal # p
        BY <1>2, <2>1 DEF SuccessInv
    <2> HIDE DEF p
    <2>5. p = calls[c].proposal
        BY DEF p
    <2>6. SuccessInv'
        BY <1>1, <1>2, <1>4, <1>6, <1>11, <2>1, <2>2, <2>3, <2>4, <2>5 DEF SuccessInv
    <2>7. BallotInv'
        BY <1>2, <1>4, <1>6, <2>1, <2>2 DEF BallotInv
    <2>8. GovernorTypes'
        BY <1>1, <1>2, <1>3, <1>6, <2>1, <2>2 DEF GovernorTypes
    <2>9. QED
        BY <1>7, <1>8, <2>6, <2>7, <2>8 DEF GovInv
<1>12. QED
    BY <1>4, <1>9, <1>10, <1>11

\* Every step of the routes and of the governor preserves the invariant.
LEMMA GovernanceStep ==
    ASSUME GovInv, [GovNext]_govVars
    PROVE  GovInv'
<1>1. CASE UNCHANGED govVars
    BY <1>1 DEF govVars, GovInv, GovernorTypes, SentInv, SuccessInv, BallotInv, AnswerInv, ReadInv,
                Answers, ReadersSeeWhatWasAnswered
<1>2. CASE MineNext
    BY <1>2, MineNextStep
<1>3. CASE Elsewhere
    BY <1>3, ElsewhereStep
<1>4. CASE RelayUsesWallet
    BY <1>4, RelayStep
<1>5. CASE \E c \in Calls, p \in Proposals : PostVote(c, p) \/ PostProposal(c, p)
    <2>1. PICK c \in Calls, p \in Proposals : PostVote(c, p) \/ PostProposal(c, p)
        BY <1>5
    <2>2. CASE PostVote(c, p)
        <3>1. PICK support \in Supports : Ask(c, "Vote", p, support, "Estimating")
            BY <2>2 DEF PostVote
        <3>2. QED
            BY <3>1, AskStep
    <2>3. CASE PostProposal(c, p)
        BY <2>3, AskStep DEF PostProposal
    <2>4. QED
        BY <2>1, <2>2, <2>3
<1>6. CASE \E c \in Calls, p \in Proposals, kind \in {"List", "Show"} : Ask(c, kind, p, "None", "Reading")
    <2>1. PICK c \in Calls, p \in Proposals, kind \in {"List", "Show"} : Ask(c, kind, p, "None", "Reading")
        BY <1>6
    <2>2. kind \in {"Vote", "Propose", "List", "Show"} /\ "None" \in Supports \cup {"None"}
        OBVIOUS
    <2>3. QED
        BY <2>1, <2>2, AskStep
<1>7. CASE \E c \in Calls : Serve(c)
    <2>1. PICK c \in Calls : Serve(c)
        BY <1>7
    <2>2. QED
        BY <2>1, EstimateStep, SubmitStep, WaitStep, ListStep, ShowStep DEF Serve
<1>8. CASE \E c \in Calls : EndpointFails(c)
    BY <1>8, EndpointFailsStep
<1>9. QED
    BY <1>1, <1>2, <1>3, <1>4, <1>5, <1>6, <1>7, <1>8 DEF GovNext

\* The governance routes keep their invariant.
THEOREM GovernanceInvariant == GovSpec => []GovInv
<1>1. GovInit => GovInv
    <2> SUFFICES ASSUME GovInit PROVE GovInv
        OBVIOUS
    <2>1. /\ pending = <<>> /\ \A c \in Calls : outcome[c] = "None" /\ calls[c] = [pc |-> "Unasked"]
          /\ \A p \in Proposals : ballot[p] = NoBallot
        BY DEF GovInit
    <2>2. GovernorTypes
        BY DEF GovInit, GovernorTypes, Ballots, AllCalls
    <2>3. SentInv
        <3>1. DOMAIN pending = {}
            BY <2>1
        <3>2. QED
            BY <2>1, <3>1 DEF SentInv, IsInjective
    <2>4. SuccessInv /\ BallotInv /\ AnswerInv /\ ReadInv
        BY <2>1 DEF SuccessInv, BallotInv, AnswerInv, ReadInv, ReadersSeeWhatWasAnswered
    <2>5. QED
        BY <2>2, <2>3, <2>4 DEF GovInv
<1>2. GovInv /\ [GovNext]_govVars => GovInv'
    BY GovernanceStep
<1>3. QED
    BY <1>1, <1>2, PTL DEF GovSpec

\* POST vote, POST proposals, GET proposals: of any number of users whose requests
\* overlap on the one wallet, those told of success are told the truth, no two of
\* them of one ballot or proposal; and who reads sees what was answered before.
THEOREM GovernanceAnswersAreTrue == GovSpec => []GovernanceSafe
<1>1. GovInv => GovernanceSafe
    <2> SUFFICES ASSUME GovInv PROVE GovernanceSafe
        OBVIOUS
    <2>1. GovTypeOK
        BY DEF GovInv, SentInv, BallotInv, GovTypeOK, ToSet
    <2>2. AnsweredIsOnChain
        <3> SUFFICES ASSUME NEW c \in Calls
                     PROVE  /\ calls[c].pc = "Cast" =>
                                  ballot[calls[c].proposal] = [by |-> c, support |-> calls[c].support]
                            /\ calls[c].pc = "Proposed" => stage[calls[c].proposal] # "None"
                            /\ \A d \in Calls \ {c} : calls[c].pc = "Proposed" /\ calls[d].pc = "Proposed"
                                  => calls[c].proposal # calls[d].proposal
            BY DEF AnsweredIsOnChain
        <3>1. calls[c].pc = "Cast" => calls[c].kind = "Vote"
            BY DEF GovInv, AnswerInv
        <3>2. \A d \in Calls : calls[d].pc = "Proposed" => outcome[d] = "Success" /\ calls[d].kind = "Propose"
            BY DEF GovInv, AnswerInv
        <3>3. QED
            BY <3>1, <3>2, AnsweredIsTrue DEF GovInv, SuccessInv
    <2>3. QED
        BY <2>1, <2>2 DEF GovernanceSafe, GovInv, ReadInv
<1>2. QED
    BY <1>1, GovernanceInvariant, PTL

-----------------------------------------------------------------------------
(* Hardware keys: the invariant *)

Keys == [user : Users, credential : Credentials, counter : Nat] \cup {NoKey}
Records == [user : Users, key : KeyPairs, counter : Nat] \cup {NoKey}
Kinds == {"Registration", "Authentication"}
Options == [user : Users, kind : Kinds, credentials : SUBSET Credentials]
KeyResponses == [kind : Kinds, challenge : Nat, credential : Credentials, key : KeyPairs, counter : Nat]
Passing == {"Store", "Credential", "Read", "Update", "Delete", "Verified"}
KeyHandlers == [pc : {"Challenge", "Refused"} \cup Passing, user : Users, response : KeyResponses,
                todo : SUBSET {"set", "sadd"}, read : Records, late : BOOLEAN]
Askers == [pc : Asking, user : Users, kind : Kinds, todo : SUBSET Credentials, found : SUBSET Credentials]

KeyTypes ==
    /\ challenge \in [Users -> Nat]
    /\ record \in [Credentials -> Records]
    /\ listed \in [Users -> SUBSET Credentials]
    /\ issued \in Seq(Options) /\ Len(issued) <= MaxChallenges
    /\ keyring \in [KeyPairs -> Keys]
    /\ responses \subseteq KeyResponses
    /\ handlers \in [Handlers -> KeyHandlers \cup Askers \cup {Free}]
    /\ verified \subseteq responses

\* A record is of one registration, and not ahead of its key if no other has its id.
Whole(k, rec) ==
    keyring[rec.key] # NoKey /\ keyring[rec.key].user = rec.user /\ keyring[rec.key].credential = k
NotAhead(k, rec) == OfOneKey(k) => rec.counter <= keyring[rec.key].counter

\* A pending challenge is its user's; a key was made in an answer.
KeyRecordInv ==
    /\ \A u \in Users : challenge[u] # 0 => challenge[u] \in DOMAIN issued /\ issued[challenge[u]].user = u
    /\ \A k \in Credentials : record[k] # NoKey => Whole(k, record[k]) /\ NotAhead(k, record[k])
    /\ \A p \in KeyPairs : keyring[p] # NoKey /\ keyring[p].credential \notin Counting => keyring[p].counter = 0
    /\ \A p \in KeyPairs \ {0} : keyring[p] # NoKey => \E r \in responses : r.challenge = p

\* A response was made by a key of the user its challenge is for, and the key has
\* counted it.
ResponseInv ==
    \A r \in responses :
        /\ r.challenge \in DOMAIN issued
        /\ keyring[r.key] # NoKey
        /\ keyring[r.key].user = issued[r.challenge].user /\ keyring[r.key].credential = r.credential
        /\ r.counter <= keyring[r.key].counter

\* A handler past the challenge has that of its user, and has stored what it is
\* past storing; one that came late is not past it.
Posted(h) == handlers[h] # Free /\ handlers[h].pc \notin Asking
HandlerInv(h) ==
    LET a == handlers[h] IN
    Posted(h) =>
        /\ a.response \in responses
        /\ a.late => a.response \in verified /\ a.pc \in {"Challenge", "Refused"}
        /\ a.pc \in Passing => a.user = issued[a.response.challenge].user
        /\ a.pc = "Challenge" => a.todo = {"set", "sadd"}
        /\ a.pc = "Store" => a.response.kind = "Registration"
        /\ a.pc \in {"Credential", "Read", "Update"} => a.response.kind = "Authentication"
        /\ a.pc = "Read" => record[a.response.credential] # NoKey
        /\ a.pc = "Update" => a.read # NoKey /\ Whole(a.response.credential, a.read)
        /\ a.pc \in {"Store", "Delete"} /\ a.response.kind = "Registration" =>
              /\ "set" \notin a.todo \/ a.pc = "Delete" => record[a.response.credential] # NoKey
              /\ "sadd" \notin a.todo \/ a.pc = "Delete" => a.response.credential \in listed[a.user]

\* The challenge of a response answered with success is gone.
VerifiedInv ==
    \A r \in verified :
        /\ challenge[issued[r.challenge].user] # r.challenge
        /\ r.kind = "Registration" =>
              record[r.credential] # NoKey /\ r.credential \in listed[issued[r.challenge].user]

KeyInv == KeyTypes /\ KeyRecordInv /\ ResponseInv /\ (\A h \in Handlers : HandlerInv(h)) /\ VerifiedInv

-----------------------------------------------------------------------------
(* Hardware keys: the steps *)

\* A key that exists has a user, an id and a counter.
LEMMA KeyShape ==
    ASSUME NEW x \in Keys, x # NoKey
    PROVE  /\ x.user \in Users /\ x.credential \in Credentials /\ x.counter \in Nat
           /\ x = [user |-> x.user, credential |-> x.credential, counter |-> x.counter]
BY DEF Keys

\* A record has a user, a key and a counter.
LEMMA RecordShape ==
    ASSUME NEW x \in Records, x # NoKey
    PROVE  /\ x.user \in Users /\ x.key \in KeyPairs /\ x.counter \in Nat
           /\ x = [user |-> x.user, key |-> x.key, counter |-> x.counter]
BY DEF Records

\* Such a key is not none.
LEMMA KeyExists ==
    ASSUME NEW u \in Users, NEW k \in Credentials, NEW n \in Nat
    PROVE  LET x == [user |-> u, credential |-> k, counter |-> n]
           IN  x \in Keys /\ x # NoKey /\ x.user = u /\ x.credential = k /\ x.counter = n
<1>1. "counter" \in DOMAIN [user |-> u, credential |-> k, counter |-> n] /\ "counter" \notin DOMAIN NoKey
    BY DEF NoKey
<1>2. QED
    BY <1>1 DEF Keys

\* Nor is such a record.
LEMMA RecordExists ==
    ASSUME NEW u \in Users, NEW p \in KeyPairs, NEW n \in Nat
    PROVE  LET x == [user |-> u, key |-> p, counter |-> n]
           IN  x \in Records /\ x # NoKey /\ x.user = u /\ x.key = p /\ x.counter = n
<1>1. "counter" \in DOMAIN [user |-> u, key |-> p, counter |-> n] /\ "counter" \notin DOMAIN NoKey
    BY DEF NoKey
<1>2. QED
    BY <1>1 DEF Records

\* The numbers of challenges.
LEMMA ChallengeNumbers ==
    ASSUME KeyInv
    PROVE  /\ Len(issued) \in Nat /\ DOMAIN issued = 1 .. Len(issued)
           /\ \A c \in DOMAIN issued : issued[c] \in Options /\ issued[c].user \in Users
           /\ \A r \in responses : /\ r \in KeyResponses /\ r.challenge \in 1 .. Len(issued)
                                   /\ r.credential \in Credentials /\ r.counter \in Nat
                                   /\ r.key \in KeyPairs /\ r.kind \in Kinds
                                   /\ issued[r.challenge].user \in Users
<1>1. Len(issued) \in Nat /\ DOMAIN issued = 1 .. Len(issued) /\ \A c \in DOMAIN issued : issued[c] \in Options
    BY LenProperties, ElementOfSeq DEF KeyInv, KeyTypes
<1>2. \A c \in DOMAIN issued : issued[c].user \in Users
    BY <1>1 DEF Options
<1>3. \A r \in responses : /\ r \in KeyResponses /\ r.credential \in Credentials /\ r.counter \in Nat
                           /\ r.key \in KeyPairs /\ r.kind \in Kinds
    BY DEF KeyInv, KeyTypes, KeyResponses
<1>4. QED
    BY <1>1, <1>2, <1>3 DEF KeyInv, ResponseInv

\* A key that exists stays its user's, under its id, and counts on.
KeysStay ==
    \A p \in KeyPairs : keyring[p] # NoKey =>
        /\ keyring'[p] # NoKey /\ keyring'[p].user = keyring[p].user
        /\ keyring'[p].credential = keyring[p].credential /\ keyring[p].counter <= keyring'[p].counter

\* What is stored stays stored, and what was issued and answered stays so: what is
\* known of a handler that rests is kept.
LEMMA HandlerKept ==
    ASSUME KeyInv, NEW h \in Handlers, handlers'[h] = handlers[h],
           responses \subseteq responses', verified \subseteq verified', KeysStay,
           \A c \in DOMAIN issued : issued'[c] = issued[c],
           \A k \in Credentials : record[k] # NoKey => record'[k] # NoKey,
           \A u \in Users : listed[u] \subseteq listed'[u]
    PROVE  HandlerInv(h)'
<1>1. CASE ~Posted(h)
    BY <1>1 DEF HandlerInv, Posted
<1>2. CASE Posted(h)
    <2> DEFINE a == handlers[h]
    <2>1. /\ a.response \in responses /\ a.response.challenge \in DOMAIN issued
          /\ a.response.credential \in Credentials /\ a.user \in Users /\ a.read \in Records
        <3>1. a \in KeyHandlers /\ a.response \in responses
            BY <1>2 DEF KeyInv, KeyTypes, HandlerInv, Posted, Askers
        <3>2. QED
            BY <3>1, ChallengeNumbers DEF KeyHandlers
    <2>2. HandlerInv(h)
        BY DEF KeyInv
    <2>3. a.pc = "Update" => Whole(a.response.credential, a.read)'
        <3>1. a.pc = "Update" => Whole(a.response.credential, a.read) /\ a.read.key \in KeyPairs
            BY <1>2, <2>1, <2>2, RecordShape DEF HandlerInv
        <3>2. QED
            BY <3>1 DEF Whole, KeysStay
    <2>4. QED
        BY <1>2, <2>1, <2>2, <2>3 DEF HandlerInv, Posted
<1>3. QED
    BY <1>1, <1>2

\* The same of the responses answered with success.
LEMMA VerifiedKept ==
    ASSUME KeyInv, verified' = verified,
           \A c \in DOMAIN issued : issued'[c] = issued[c],
           \A r \in verified : challenge'[issued[r.challenge].user] # r.challenge,
           \A k \in Credentials : record[k] # NoKey => record'[k] # NoKey,
           \A u \in Users : listed[u] \subseteq listed'[u]
    PROVE  VerifiedInv'
<1>1. \A r \in verified : /\ r \in responses /\ r.challenge \in DOMAIN issued
                          /\ r.credential \in Credentials /\ issued[r.challenge].user \in Users
    BY ChallengeNumbers DEF KeyInv, KeyTypes
<1>2. QED
    BY <1>1 DEF KeyInv, VerifiedInv

\* Where no key changes, they stay.
LEMMA SameKeys ==
    ASSUME KeyInv, keyring' = keyring
    PROVE  KeysStay
<1>1. \A p \in KeyPairs : keyring[p] # NoKey => keyring[p].counter \in Nat
    BY KeyShape DEF KeyInv, KeyTypes
<1>2. QED
    BY <1>1 DEF KeysStay

\* Records, responses and challenges that rest stay true.
LEMMA RecordsKept ==
    ASSUME KeyInv, UNCHANGED <<record, issued, keyring, responses>>,
           \A u \in Users : challenge'[u] # 0 => challenge'[u] = challenge[u]
    PROVE  KeyRecordInv' /\ ResponseInv'
BY DEF KeyInv, KeyRecordInv, ResponseInv, Whole, NotAhead, OfOneKey

\* A handler moves and nothing else does.
LEMMA OnlyHandler ==
    ASSUME KeyInv, UNCHANGED <<redisVars, clientVars, verified>>, NEW h \in Handlers,
           NEW a \in KeyHandlers \cup Askers \cup {Free}, handlers' = [handlers EXCEPT ![h] = a],
           HandlerInv(h)'
    PROVE  KeyInv'
<1>1. UNCHANGED <<challenge, record, listed, issued, keyring, responses, verified>>
    BY DEF redisVars, clientVars
<1>2. KeyTypes'
    BY <1>1 DEF KeyInv, KeyTypes
<1>3. KeyRecordInv' /\ ResponseInv'
    BY <1>1, RecordsKept
<1>4. \A g \in Handlers : HandlerInv(g)'
    <2> SUFFICES ASSUME NEW g \in Handlers, g # h PROVE HandlerInv(g)'
        OBVIOUS
    <2>1. handlers'[g] = handlers[g]
        BY DEF KeyInv, KeyTypes
    <2>2. QED
        BY <1>1, <2>1, SameKeys, HandlerKept
<1>5. VerifiedInv'
    BY <1>1 DEF KeyInv, VerifiedInv
<1>6. QED
    BY <1>2, <1>3, <1>4, <1>5 DEF KeyInv

\* A request for options begins, reads, or ends: nothing is known of it but its shape.
LEMMA AskingStep ==
    ASSUME KeyInv, UNCHANGED <<redisVars, clientVars, verified>>, NEW h \in Handlers,
           NEW a \in Askers \cup {Free}, handlers' = [handlers EXCEPT ![h] = a]
    PROVE  KeyInv'
<1>1. handlers'[h] = a
    BY DEF KeyInv, KeyTypes
<1>2. a = Free \/ a.pc \in Asking
    BY DEF Askers
<1>3. HandlerInv(h)'
    BY <1>1, <1>2 DEF HandlerInv, Posted
<1>4. QED
    BY <1>3, OnlyHandler

\* A handler that asks for options is one, with a user and what it has found.
LEMMA AskerShape ==
    ASSUME KeyInv, NEW h \in Handlers, handlers[h].pc \in Asking
    PROVE  handlers[h] \in Askers
<1>1. handlers[h] \in KeyHandlers \cup Askers \cup {Free}
    BY DEF KeyInv, KeyTypes
<1>2. handlers[h] \notin KeyHandlers
    BY DEF Asking, KeyHandlers, Passing
<1>3. handlers[h] # Free
    BY DEF Asking, Free
<1>4. QED
    BY <1>1, <1>2, <1>3

\* generateRegistrationOptions, generateAuthenticationOptions, and the reads of
\* getUserCredentials.
LEMMA OptionsStep ==
    ASSUME KeyInv, NEW h \in Handlers,
           \/ \E u \in Users : generateRegistrationOptions(h, u) \/ generateAuthenticationOptions(h, u)
           \/ getMembers(h) \/ GotRecords(h)
           \/ \E k \in Credentials : getRecord(h, k)
    PROVE  KeyInv'
<1>1. ASSUME NEW u \in Users, NEW kind \in Kinds, BeginOptions(h, u, kind) PROVE KeyInv'
    <2>1. [pc |-> "Members", user |-> u, kind |-> kind, todo |-> {}, found |-> {}] \in Askers
        BY DEF Askers, Asking
    <2>2. QED
        BY <1>1, <2>1, AskingStep DEF BeginOptions
<1>2. ASSUME getMembers(h) PROVE KeyInv'
    <2> DEFINE a == [handlers[h] EXCEPT !.pc = "Records", !.todo = listed[handlers[h].user]]
    <2>1. handlers[h] \in Askers
        BY <1>2, AskerShape DEF getMembers, Asking
    <2>2. a \in Askers
        BY <2>1 DEF Askers, Asking, KeyInv, KeyTypes
    <2>3. handlers' = [handlers EXCEPT ![h] = a] /\ UNCHANGED <<redisVars, clientVars, verified>>
        BY <1>2 DEF getMembers
    <2>4. QED
        BY <2>2, <2>3, AskingStep
<1>3. ASSUME GotRecords(h) PROVE KeyInv'
    <2> DEFINE a == [handlers[h] EXCEPT !.pc = "Setex"]
    <2>1. handlers[h] \in Askers
        BY <1>3, AskerShape DEF GotRecords, Asking
    <2>2. a \in Askers
        BY <2>1 DEF Askers, Asking
    <2>3. handlers' = [handlers EXCEPT ![h] = a] /\ UNCHANGED <<redisVars, clientVars, verified>>
        BY <1>3 DEF GotRecords, Proceed
    <2>4. QED
        BY <2>2, <2>3, AskingStep
<1>4. ASSUME NEW k \in Credentials, getRecord(h, k) PROVE KeyInv'
    <2> DEFINE f == IF record[k] # NoKey THEN handlers[h].found \cup {k} ELSE handlers[h].found
               a == [handlers[h] EXCEPT !.todo = handlers[h].todo \ {k}, !.found = f]
    <2>1. handlers[h] \in Askers
        BY <1>4, AskerShape DEF getRecord, Asking
    <2>2. f \in SUBSET Credentials
        BY <2>1 DEF Askers
    <2>3. a \in Askers
        BY <2>1, <2>2 DEF Askers
    <2>4. handlers' = [handlers EXCEPT ![h] = a] /\ UNCHANGED <<redisVars, clientVars, verified>>
        BY <1>4 DEF getRecord
    <2>5. QED
        BY <2>3, <2>4, AskingStep
<1>5. QED
    BY <1>1, <1>2, <1>3, <1>4 DEF generateRegistrationOptions, generateAuthenticationOptions, Kinds

\* The options are given: the new challenge is a new number.
LEMMA IssueStep ==
    ASSUME KeyInv, NEW h \in Handlers, storeChallenge(h)
    PROVE  KeyInv'
<1> DEFINE u == handlers[h].user
           o == [user |-> u, kind |-> handlers[h].kind, credentials |-> handlers[h].found]
<1>1. /\ issued' = Append(issued, o) /\ challenge' = [challenge EXCEPT ![u] = Len(issued')]
      /\ Len(issued) < MaxChallenges
      /\ handlers' = [handlers EXCEPT ![h] = Free]
      /\ UNCHANGED <<record, listed, keyring, responses, verified>>
    BY DEF storeChallenge
<1>2. KeyTypes /\ KeyRecordInv
    BY DEF KeyInv
<1>3. o \in Options /\ o.user = u /\ u \in Users
    <2>1. handlers[h] \in Askers
        BY AskerShape DEF storeChallenge, Asking
    <2>2. QED
        BY <2>1 DEF Options, Askers
<1> HIDE DEF o, u
<1>4. /\ Len(issued) \in Nat /\ DOMAIN issued = 1 .. Len(issued)
      /\ \A r \in responses : r.challenge \in 1 .. Len(issued)
    BY ChallengeNumbers
<1>5. /\ issued' \in Seq(Options) /\ Len(issued') = Len(issued) + 1 /\ Len(issued') <= MaxChallenges
      /\ DOMAIN issued' = 1 .. Len(issued) + 1
      /\ \A c \in DOMAIN issued : issued'[c] = issued[c] /\ c \in DOMAIN issued'
      /\ issued'[Len(issued) + 1] = o /\ Len(issued) + 1 \in DOMAIN issued'
    <2>1. /\ issued' \in Seq(Options) /\ Len(issued') = Len(issued) + 1
          /\ \A c \in 1 .. Len(issued) : issued'[c] = issued[c]
          /\ issued'[Len(issued) + 1] = o
        BY <1>1, <1>2, <1>3, AppendProperties DEF KeyTypes
    <2>2. QED
        BY <1>1, <1>4, <2>1, LenProperties, KeyAssumption
<1>6. challenge' \in [Users -> Nat] /\ \A v \in Users : challenge'[v] = IF v = u THEN Len(issued) + 1 ELSE challenge[v]
    <2>1. challenge' = [challenge EXCEPT ![u] = Len(issued) + 1] /\ Len(issued) + 1 \in Nat
        BY <1>1, <1>4, <1>5
    <2>2. QED
        BY <1>2, <2>1 DEF KeyTypes
<1>7. KeyTypes'
    <2>1. handlers' \in [Handlers -> KeyHandlers \cup Askers \cup {Free}]
        BY <1>1, <1>2 DEF KeyTypes
    <2>2. QED
        BY <1>1, <1>2, <1>5, <1>6, <2>1 DEF KeyTypes
<1>8. KeyRecordInv'
    <2>1. \A v \in Users : challenge'[v] # 0 =>
              challenge'[v] \in DOMAIN issued' /\ issued'[challenge'[v]].user = v
        BY <1>2, <1>3, <1>5, <1>6 DEF KeyRecordInv
    <2>2. QED
        BY <1>1, <1>2, <2>1 DEF KeyRecordInv, Whole, NotAhead, OfOneKey
<1>9. ResponseInv'
    BY <1>1, <1>5 DEF KeyInv, ResponseInv
<1>10. \A g \in Handlers : HandlerInv(g)'
    <2>1. HandlerInv(h)'
        BY <1>1, <1>2 DEF KeyTypes, HandlerInv, Posted
    <2>2. ASSUME NEW g \in Handlers, g # h PROVE HandlerInv(g)'
        <3>1. handlers'[g] = handlers[g]
            BY <1>1, <1>2, <2>2 DEF KeyTypes
        <3>2. QED
            BY <1>1, <1>5, <3>1, SameKeys, HandlerKept
    <2>3. QED
        BY <2>1, <2>2
<1>11. \A r \in verified : challenge'[issued[r.challenge].user] # r.challenge
    <2> SUFFICES ASSUME NEW r \in verified PROVE challenge'[issued[r.challenge].user] # r.challenge
        OBVIOUS
    <2>1. r.challenge \in 1 .. Len(issued) /\ issued[r.challenge].user \in Users
        BY <1>2, ChallengeNumbers DEF KeyTypes
    <2>2. challenge[issued[r.challenge].user] # r.challenge
        BY DEF KeyInv, VerifiedInv
    <2>3. r.challenge # Len(issued) + 1
        BY <1>4, <2>1
    <2>4. QED
        BY <1>6, <2>1, <2>2, <2>3
<1>12. VerifiedInv'
    BY <1>1, <1>5, <1>11, VerifiedKept
<1>13. QED
    BY <1>7, <1>8, <1>9, <1>10, <1>12 DEF KeyInv

\* A challenge is removed, because it expired or was answered.
LEMMA ChallengeRemoved ==
    ASSUME KeyInv, NEW u \in Users, challenge' = [challenge EXCEPT ![u] = 0],
           UNCHANGED <<record, listed, issued, keyring, responses>>
    PROVE  /\ challenge' \in [Users -> Nat] /\ KeyRecordInv' /\ ResponseInv'
           /\ \A r \in responses : issued[r.challenge].user = u \/ r \in verified =>
                  challenge'[issued[r.challenge].user] # r.challenge
<1>1. KeyTypes /\ KeyRecordInv
    BY DEF KeyInv
<1>2. challenge' \in [Users -> Nat] /\ \A v \in Users : challenge'[v] = IF v = u THEN 0 ELSE challenge[v]
    BY <1>1 DEF KeyTypes
<1>3. KeyRecordInv' /\ ResponseInv'
    BY <1>2, RecordsKept
<1>5. ASSUME NEW r \in responses, issued[r.challenge].user = u \/ r \in verified
      PROVE  challenge'[issued[r.challenge].user] # r.challenge
    <2>1. r.challenge # 0 /\ issued[r.challenge].user \in Users
        BY ChallengeNumbers
    <2>2. r \in verified => challenge[issued[r.challenge].user] # r.challenge
        BY DEF KeyInv, VerifiedInv
    <2>3. QED
        BY <1>2, <1>5, <2>1, <2>2
<1>6. QED
    BY <1>2, <1>3, <1>5

\* The TTL of the pending challenge.
LEMMA ExpireStep ==
    ASSUME KeyInv, NEW u \in Users, ChallengeExpires(u)
    PROVE  KeyInv'
<1>1. /\ challenge' = [challenge EXCEPT ![u] = 0]
      /\ UNCHANGED <<record, listed, issued, keyring, responses, handlers, verified>>
    BY DEF ChallengeExpires, clientVars
<1>2. /\ challenge' \in [Users -> Nat] /\ KeyRecordInv' /\ ResponseInv'
      /\ \A r \in responses : r \in verified => challenge'[issued[r.challenge].user] # r.challenge
    BY <1>1, ChallengeRemoved
<1>3. KeyTypes'
    BY <1>1, <1>2 DEF KeyInv, KeyTypes
<1>4. \A h \in Handlers : HandlerInv(h)'
    BY <1>1, SameKeys, HandlerKept
<1>5. VerifiedInv'
    BY <1>1, <1>2, VerifiedKept DEF KeyInv, KeyTypes
<1>6. QED
    BY <1>2, <1>3, <1>4, <1>5 DEF KeyInv

\* A handler of a posted response is a request at some point of its way.
LEMMA BusyHandler ==
    ASSUME KeyInv, NEW h \in Handlers, handlers[h].pc \notin Asking \cup {"Idle"}
    PROVE  /\ handlers[h] \in KeyHandlers /\ handlers[h].response \in responses
           /\ handlers[h] # Free /\ Posted(h)
           /\ handlers[h].response.credential \in Credentials /\ handlers[h].user \in Users
           /\ handlers[h].response.challenge \in DOMAIN issued
           /\ handlers[h].response.counter \in Nat /\ handlers[h].response.key \in KeyPairs
           /\ handlers[h].response.kind \in {"Registration", "Authentication"}
<1>1. handlers[h] # Free /\ handlers[h] \in KeyHandlers /\ Posted(h)
    BY DEF KeyInv, KeyTypes, Free, Askers, Posted
<1>2. handlers[h].response \in responses /\ handlers[h].user \in Users
    BY <1>1 DEF KeyInv, HandlerInv, KeyHandlers
<1>3. QED
    BY <1>1, <1>2, ChallengeNumbers DEF Kinds

\* Where it goes on, its request stays.
LEMMA KeyGoto ==
    ASSUME KeyTypes, NEW h \in Handlers, handlers[h] \in KeyHandlers,
           NEW pc \in {"Challenge", "Refused"} \cup Passing, Proceed(h, pc)
    PROVE  LET a == [handlers[h] EXCEPT !.pc = pc]
           IN  /\ a \in KeyHandlers /\ a # Free
               /\ handlers' = [handlers EXCEPT ![h] = a] /\ handlers'[h] = a
               /\ a.pc = pc /\ a.user = handlers[h].user /\ a.response = handlers[h].response
               /\ a.todo = handlers[h].todo /\ a.late = handlers[h].late /\ a.read = handlers[h].read
               /\ a.pc \notin Asking
<1> DEFINE a == [handlers[h] EXCEPT !.pc = pc]
<1>1. /\ a \in KeyHandlers
      /\ a.pc = pc /\ a.user = handlers[h].user /\ a.response = handlers[h].response
      /\ a.todo = handlers[h].todo /\ a.late = handlers[h].late /\ a.read = handlers[h].read
    BY DEF KeyHandlers
<1>2. a # Free /\ a.pc \notin Asking
    BY <1>1 DEF Free, Passing, Asking
<1>3. handlers' = [handlers EXCEPT ![h] = a] /\ handlers'[h] = a
    BY DEF Proceed, KeyTypes
<1>4. QED
    BY <1>1, <1>2, <1>3

\* A browser answers a challenge, with a new key or one the user has: keys stay.
LEMMA AnswerStep ==
    ASSUME KeyInv, NEW c \in DOMAIN issued, Unanswered(c), NEW p \in KeyPairs,
           NEW x \in Keys, x # NoKey, x.user = issued[c].user,
           x.credential \notin Counting => x.counter = 0,
           keyring[p] = NoKey => p = c,
           keyring[p] # NoKey =>
               keyring[p].user = x.user /\ keyring[p].credential = x.credential /\ keyring[p].counter <= x.counter,
           NEW kind \in Kinds,
           keyring' = [keyring EXCEPT ![p] = x],
           responses' = responses \cup {[kind |-> kind, challenge |-> c, credential |-> x.credential,
                                         key |-> p, counter |-> x.counter]},
           UNCHANGED <<redisVars, issued, handlers, verified>>
    PROVE  KeyInv'
<1> DEFINE r == [kind |-> kind, challenge |-> c, credential |-> x.credential, key |-> p, counter |-> x.counter]
<1>1. UNCHANGED <<challenge, record, listed, issued, handlers, verified>> /\ responses' = responses \cup {r}
    BY DEF redisVars
<1>2. KeyTypes /\ KeyRecordInv /\ ResponseInv /\ VerifiedInv
    BY DEF KeyInv
<1>3. c \in Nat /\ x.counter \in Nat /\ x.credential \in Credentials
    BY ChallengeNumbers, KeyShape
<1>4. r \in KeyResponses /\ r.challenge = c /\ r.credential = x.credential /\ r.counter = x.counter /\ r.key = p
    BY <1>3 DEF KeyResponses
<1> HIDE DEF r
<1>5. keyring' \in [KeyPairs -> Keys] /\ keyring'[p] = x /\ \A q \in KeyPairs \ {p} : keyring'[q] = keyring[q]
    BY <1>2 DEF KeyTypes
<1>6. \A q \in KeyPairs : keyring[q] # NoKey => keyring[q].counter \in Nat
    BY <1>2, KeyShape DEF KeyTypes
<1>7. KeysStay
    BY <1>5, <1>6 DEF KeysStay
<1>8. KeyTypes'
    BY <1>1, <1>2, <1>4, <1>5 DEF KeyTypes
<1>9. KeyRecordInv'
    <2>1. ASSUME NEW k \in Credentials, record[k] # NoKey
          PROVE  Whole(k, record[k])' /\ NotAhead(k, record[k])'
        <3>1. Whole(k, record[k]) /\ NotAhead(k, record[k]) /\ record[k].key \in KeyPairs /\ record[k].counter \in Nat
            BY <1>2, <2>1, RecordShape DEF KeyRecordInv, KeyTypes
        <3>2. Whole(k, record[k])'
            BY <1>1, <1>7, <3>1 DEF Whole, KeysStay
        <3>3. OfOneKey(k)' => OfOneKey(k)
            BY <1>7 DEF OfOneKey, KeysStay
        <3>4. keyring[record[k].key].counter \in Nat /\ keyring'[record[k].key].counter \in Nat
              /\ keyring[record[k].key].counter <= keyring'[record[k].key].counter
            BY <1>3, <1>5, <1>6, <1>7, <3>1 DEF Whole, KeysStay
        <3>5. NotAhead(k, record[k])'
            BY <1>1, <3>1, <3>3, <3>4 DEF NotAhead
        <3>6. QED
            BY <3>2, <3>5
    <2>2. \A q \in KeyPairs : keyring'[q] # NoKey /\ keyring'[q].credential \notin Counting => keyring'[q].counter = 0
        BY <1>2, <1>5 DEF KeyRecordInv
    <2>3. ASSUME NEW q \in KeyPairs \ {0}, keyring'[q] # NoKey
          PROVE  \E o \in responses' : o.challenge = q
        <3>1. CASE keyring[q] # NoKey
            BY <1>1, <1>2, <3>1 DEF KeyRecordInv
        <3>2. CASE keyring[q] = NoKey
            <4>1. q = c /\ r \in responses'
                BY <1>1, <1>5, <2>3, <3>2
            <4>2. QED
                BY <1>4, <4>1
        <3>3. QED
            BY <3>1, <3>2
    <2>4. QED
        BY <1>1, <1>2, <2>1, <2>2, <2>3 DEF KeyRecordInv
<1>10. ResponseInv'
    <2> SUFFICES ASSUME NEW q \in responses'
                 PROVE  /\ q.challenge \in DOMAIN issued
                        /\ keyring'[q.key] # NoKey
                        /\ keyring'[q.key].user = issued[q.challenge].user
                        /\ keyring'[q.key].credential = q.credential
                        /\ q.counter <= keyring'[q.key].counter
        BY <1>1 DEF ResponseInv
    <2>1. CASE q = r
        BY <1>3, <1>4, <1>5, <2>1
    <2>2. CASE q \in responses
        <3>1. /\ q.challenge \in DOMAIN issued
              /\ keyring[q.key] # NoKey
              /\ keyring[q.key].user = issued[q.challenge].user
              /\ keyring[q.key].credential = q.credential
              /\ q.counter <= keyring[q.key].counter
            BY <1>2, <2>2 DEF ResponseInv
        <3>2. q.key \in KeyPairs /\ q.counter \in Nat
            BY <2>2, ChallengeNumbers
        <3>3. /\ keyring'[q.key] # NoKey /\ keyring'[q.key].user = keyring[q.key].user
              /\ keyring'[q.key].credential = keyring[q.key].credential
              /\ keyring[q.key].counter <= keyring'[q.key].counter
              /\ keyring[q.key].counter \in Nat /\ keyring'[q.key].counter \in Nat
            BY <1>3, <1>5, <1>6, <1>7, <3>1, <3>2 DEF KeysStay
        <3>4. QED
            BY <3>1, <3>2, <3>3
    <2>3. QED
        BY <1>1, <2>1, <2>2
<1>11. \A h \in Handlers : HandlerInv(h)'
    BY <1>1, <1>7, HandlerKept
<1>12. VerifiedInv'
    BY <1>1, <1>2 DEF VerifiedInv
<1>13. QED
    BY <1>8, <1>9, <1>10, <1>11, <1>12 DEF KeyInv

\* A registration: the key is new, for its challenge is unanswered.
LEMMA AttestStep ==
    ASSUME KeyInv, NEW c \in DOMAIN issued, NEW k \in Credentials, Attest(c, k)
    PROVE  KeyInv'
<1> DEFINE x == [user |-> issued[c].user, credential |-> k, counter |-> 0]
<1>1. /\ Unanswered(c) /\ keyring' = [keyring EXCEPT ![c] = x]
      /\ responses' = responses \cup {[kind |-> "Registration", challenge |-> c, credential |-> k,
                                       key |-> c, counter |-> 0]}
      /\ UNCHANGED <<redisVars, issued, handlers, verified>>
    BY DEF Attest
<1>2. issued[c].user \in Users /\ c \in KeyPairs \ {0}
    BY ChallengeNumbers, KeyAssumption DEF KeyPairs, KeyInv, KeyTypes
<1>3. x \in Keys /\ x # NoKey /\ x.user = issued[c].user /\ x.credential = k /\ x.counter = 0
    BY <1>2, KeyExists
<1>4. keyring[c] = NoKey
    BY <1>1, <1>2 DEF KeyInv, KeyRecordInv, Unanswered
<1> HIDE DEF x
<1>5. QED
    BY <1>1, <1>2, <1>3, <1>4, AnswerStep DEF Kinds

\* A login: the key counts on, if it counts.
LEMMA SignStep ==
    ASSUME KeyInv, NEW c \in DOMAIN issued, NEW p \in KeyPairs, Sign(c, p)
    PROVE  KeyInv'
<1> DEFINE k == keyring[p].credential
           n == IF k \in Counting THEN keyring[p].counter + 1 ELSE 0
           x == [keyring[p] EXCEPT !.counter = n]
<1>1. /\ Unanswered(c) /\ keyring[p] # NoKey /\ keyring[p].user = issued[c].user
      /\ keyring' = [keyring EXCEPT ![p] = x]
      /\ responses' = responses \cup {[kind |-> "Authentication", challenge |-> c, credential |-> k,
                                       key |-> p, counter |-> n]}
      /\ UNCHANGED <<redisVars, issued, handlers, verified>>
    BY DEF Sign
<1>2. /\ keyring[p].user \in Users /\ k \in Credentials /\ keyring[p].counter \in Nat
      /\ keyring[p] = [user |-> keyring[p].user, credential |-> k, counter |-> keyring[p].counter]
    BY <1>1, KeyShape DEF KeyInv, KeyTypes
<1>3. n \in Nat /\ (k \notin Counting => n = 0) /\ keyring[p].counter <= n
    BY <1>1, <1>2 DEF KeyInv, KeyRecordInv
<1>4. x = [user |-> keyring[p].user, credential |-> k, counter |-> n]
    BY <1>2
<1>5. x \in Keys /\ x # NoKey /\ x.user = keyring[p].user /\ x.credential = k /\ x.counter = n
    BY <1>2, <1>3, <1>4, KeyExists
<1> HIDE DEF x, n, k
<1>6. QED
    BY <1>1, <1>3, <1>5, AnswerStep DEF Kinds, k

\* A response is posted, for whatever user.
LEMMA PostStep ==
    ASSUME KeyInv, NEW h \in Handlers, NEW u \in Users, NEW r \in responses, Post(h, u, r)
    PROVE  KeyInv'
<1> DEFINE a == [pc |-> "Challenge", user |-> u, response |-> r,
                 todo |-> {"set", "sadd"}, read |-> NoKey, late |-> r \in verified]
<1>1. handlers' = [handlers EXCEPT ![h] = a] /\ UNCHANGED <<redisVars, clientVars, verified>>
    BY DEF Post
<1>2. r \in KeyResponses /\ (r \in verified) \in BOOLEAN
    BY ChallengeNumbers
<1>3. a \in KeyHandlers
    BY <1>2 DEF KeyHandlers, Records
<1>4. a.pc = "Challenge" /\ a.response = r /\ a.late = (r \in verified) /\ a.todo = {"set", "sadd"}
    OBVIOUS
<1> HIDE DEF a
<1>5. handlers'[h] = a /\ UNCHANGED <<responses, verified>>
    BY <1>1 DEF KeyInv, KeyTypes, clientVars
<1>6. HandlerInv(h)'
    BY <1>4, <1>5 DEF HandlerInv, Passing
<1>7. QED
    BY <1>1, <1>3, <1>6, OnlyHandler

\* The challenge is compared with the one pending: a response that was answered with
\* success before is refused, and any other passes only for its own user.
LEMMA GetChallengeStep ==
    ASSUME KeyInv, NEW h \in Handlers, getChallenge(h)
    PROVE  KeyInv'
<1> DEFINE b == handlers[h]
           fails == challenge[b.user] = 0 \/ challenge[b.user] # b.response.challenge
           pc == IF fails THEN "Refused" ELSE IF b.response.kind = "Registration" THEN "Store" ELSE "Credential"
<1>1. b.pc = "Challenge" /\ Proceed(h, pc) /\ UNCHANGED <<redisVars, clientVars, verified>>
    BY DEF getChallenge
<1>2. /\ b \in KeyHandlers /\ b.response \in responses /\ b.user \in Users /\ b # Free /\ Posted(h)
      /\ b.response.kind \in {"Registration", "Authentication"}
    BY <1>1, BusyHandler DEF Asking
<1>3. HandlerInv(h) /\ KeyTypes
    BY DEF KeyInv
<1>4. pc \in {"Refused", "Store", "Credential"} /\ (pc = "Store" => b.response.kind = "Registration")
      /\ (pc = "Credential" => b.response.kind = "Authentication")
    BY <1>2
<1>5. pc # "Refused" => b.user = issued[b.response.challenge].user /\ b.response \notin verified
    <2> SUFFICES ASSUME ~fails
                 PROVE  b.user = issued[b.response.challenge].user /\ b.response \notin verified
        OBVIOUS
    <2>1. b.user = issued[b.response.challenge].user
        BY <1>2 DEF KeyInv, KeyRecordInv
    <2>2. b.response \notin verified
        BY <2>1 DEF KeyInv, VerifiedInv
    <2>3. QED
        BY <2>1, <2>2
<1> HIDE DEF pc
<1> DEFINE a == [b EXCEPT !.pc = pc]
<1>6. /\ a \in KeyHandlers /\ handlers' = [handlers EXCEPT ![h] = a] /\ handlers'[h] = a
      /\ a.pc = pc /\ a.user = b.user /\ a.response = b.response /\ a.todo = b.todo /\ a.late = b.late
      /\ a.read = b.read /\ a.pc \notin Asking
    BY <1>1, <1>2, <1>3, <1>4, KeyGoto, ZenonT(30) DEF Passing
<1>7. b.todo = {"set", "sadd"} /\ (b.late => b.response \in verified)
    BY <1>1, <1>2, <1>3 DEF HandlerInv
<1> HIDE DEF a
<1>8. HandlerInv(h)'
    <2>1. UNCHANGED <<record, listed, issued, responses, verified>>
        BY <1>1 DEF redisVars, clientVars
    <2>2. a.todo = {"set", "sadd"}
        BY <1>6, <1>7
    <2>3. QED
        BY <1>1, <1>2, <1>4, <1>5, <1>6, <1>7, <2>1, <2>2 DEF HandlerInv, Passing
<1>9. QED
    BY <1>1, <1>6, <1>8, OnlyHandler

\* A Redis call fails: refused.
LEMMA FailStep ==
    ASSUME KeyInv, NEW h \in Handlers, RedisFails(h)
    PROVE  KeyInv'
<1> DEFINE b == handlers[h]
           a == [b EXCEPT !.pc = "Refused"]
<1>1. CASE b.pc \in Asking
    <2>1. handlers' = [handlers EXCEPT ![h] = Free] /\ UNCHANGED <<redisVars, clientVars, verified>>
        BY <1>1 DEF RedisFails
    <2>2. QED
        BY <2>1, AskingStep
<1> SUFFICES ASSUME b.pc \notin Asking PROVE KeyInv'
    BY <1>1
<1>2. b.pc \notin Asking \cup {"Idle"} /\ Proceed(h, "Refused") /\ UNCHANGED <<redisVars, clientVars, verified>>
    BY DEF RedisFails
<1>3. b \in KeyHandlers /\ b.response \in responses /\ b # Free /\ Posted(h)
    BY <1>2, BusyHandler DEF Asking
<1>4. HandlerInv(h) /\ KeyTypes
    BY DEF KeyInv
<1>5. /\ a \in KeyHandlers /\ handlers' = [handlers EXCEPT ![h] = a] /\ handlers'[h] = a
      /\ a.pc = "Refused" /\ a.user = b.user /\ a.response = b.response /\ a.todo = b.todo /\ a.late = b.late
      /\ a.read = b.read /\ a.pc \notin Asking
    BY <1>2, <1>3, <1>4, KeyGoto
<1> HIDE DEF a
<1>6. UNCHANGED <<record, listed, issued, responses, verified>>
    BY <1>2 DEF redisVars, clientVars
<1>7. HandlerInv(h)'
    BY <1>3, <1>4, <1>5, <1>6 DEF HandlerInv, Passing
<1>8. QED
    BY <1>2, <1>5, <1>7, OnlyHandler

\* Both writes are done.
LEMMA StoredStep ==
    ASSUME KeyInv, NEW h \in Handlers, Stored(h)
    PROVE  KeyInv'
<1> DEFINE b == handlers[h]
           a == [b EXCEPT !.pc = "Delete"]
<1>1. b.pc = "Store" /\ b.todo = {} /\ Proceed(h, "Delete") /\ UNCHANGED <<redisVars, clientVars, verified>>
    BY DEF Stored
<1>2. b \in KeyHandlers /\ b.response \in responses /\ b # Free /\ Posted(h)
    BY <1>1, BusyHandler DEF Asking
<1>3. HandlerInv(h) /\ KeyTypes
    BY DEF KeyInv
<1>4. /\ a \in KeyHandlers /\ handlers' = [handlers EXCEPT ![h] = a] /\ handlers'[h] = a
      /\ a.pc = "Delete" /\ a.user = b.user /\ a.response = b.response /\ a.todo = b.todo /\ a.late = b.late
      /\ a.read = b.read /\ a.pc \notin Asking
    BY <1>1, <1>2, <1>3, KeyGoto DEF Passing
<1> HIDE DEF a
<1>5. UNCHANGED <<record, listed, issued, responses, verified>>
    BY <1>1 DEF redisVars, clientVars
<1>6. HandlerInv(h)'
    BY <1>1, <1>2, <1>3, <1>4, <1>5 DEF HandlerInv, Passing
<1>7. QED
    BY <1>1, <1>4, <1>6, OnlyHandler

\* The verdict of the library on a login.
LEMMA GetCredentialStep ==
    ASSUME KeyInv, NEW h \in Handlers, getCredential(h)
    PROVE  KeyInv'
<1> DEFINE b == handlers[h]
           stored == record[b.response.credential]
           pc == IF /\ stored # NoKey /\ stored.user = b.user /\ stored.key = b.response.key
                    /\ CounterGrows(stored.counter, b.response.counter)
                 THEN "Read" ELSE "Refused"
           a == [b EXCEPT !.pc = pc]
<1>1. b.pc = "Credential" /\ Proceed(h, pc) /\ UNCHANGED <<redisVars, clientVars, verified>>
    BY DEF getCredential
<1>2. b \in KeyHandlers /\ b.response \in responses /\ b # Free /\ Posted(h)
    BY <1>1, BusyHandler DEF Asking
<1>3. HandlerInv(h) /\ KeyTypes
    BY DEF KeyInv
<1>4. pc \in {"Read", "Refused"} /\ (pc = "Read" => stored # NoKey)
    OBVIOUS
<1> HIDE DEF pc
<1>5. /\ a \in KeyHandlers /\ handlers' = [handlers EXCEPT ![h] = a] /\ handlers'[h] = a
      /\ a.pc = pc /\ a.user = b.user /\ a.response = b.response /\ a.todo = b.todo /\ a.late = b.late
      /\ a.read = b.read /\ a.pc \notin Asking
    BY <1>1, <1>2, <1>3, <1>4, KeyGoto, ZenonT(30) DEF Passing
<1> HIDE DEF a
<1>6. UNCHANGED <<record, listed, issued, responses, verified>>
    BY <1>1 DEF redisVars, clientVars
<1>7. HandlerInv(h)'
    BY <1>1, <1>2, <1>3, <1>4, <1>5, <1>6 DEF HandlerInv, Passing
<1>8. QED
    BY <1>1, <1>5, <1>7, OnlyHandler

\* A record is written, for the user of the key and with a counter the key has
\* reached, or the list of a user grows; the handler h goes on.
LEMMA RecordWritten ==
    ASSUME KeyInv, NEW h \in Handlers, NEW a \in KeyHandlers,
           NEW k \in Credentials, NEW rec \in Records, rec # NoKey, Whole(k, rec), NotAhead(k, rec),
           record' = [record EXCEPT ![k] = rec],
           handlers' = [handlers EXCEPT ![h] = a], HandlerInv(h)',
           UNCHANGED <<challenge, listed, clientVars, verified>>
    PROVE  KeyInv'
<1>1. UNCHANGED <<issued, keyring, responses>>
    BY DEF clientVars
<1>2. KeyTypes /\ KeyRecordInv
    BY DEF KeyInv
<1>3. record'[k] = rec /\ \A l \in Credentials \ {k} : record'[l] = record[l]
    BY <1>2 DEF KeyTypes
<1>4. KeyTypes'
    BY <1>1, <1>2 DEF KeyTypes
<1>5. KeyRecordInv'
    <2>1. \A l \in Credentials : record'[l] # NoKey =>
              (Whole(l, record'[l]) /\ NotAhead(l, record'[l]))
        BY <1>2, <1>3 DEF KeyRecordInv
    <2>2. QED
        BY <1>1, <1>2, <2>1 DEF KeyRecordInv, Whole, NotAhead, OfOneKey
<1>6. ResponseInv'
    BY <1>1 DEF KeyInv, ResponseInv
<1>7. \A g \in Handlers : HandlerInv(g)'
    <2> SUFFICES ASSUME NEW g \in Handlers, g # h PROVE HandlerInv(g)'
        OBVIOUS
    <2>1. handlers'[g] = handlers[g]
        BY <1>2 DEF KeyTypes
    <2>2. QED
        BY <1>1, <1>3, <2>1, SameKeys, HandlerKept
<1>8. VerifiedInv'
    BY <1>1, <1>3, VerifiedKept DEF KeyInv, VerifiedInv
<1>9. QED
    BY <1>4, <1>5, <1>6, <1>7, <1>8 DEF KeyInv

\* storeCredential writes the record: of the user who posted, who is the one the
\* challenge was for and the key was registered by.
LEMMA StoreRecordStep ==
    ASSUME KeyInv, NEW h \in Handlers, storeRecord(h)
    PROVE  KeyInv'
<1> DEFINE b == handlers[h]
           a == [b EXCEPT !.todo = @ \ {"set"}]
           k == b.response.credential
           rec == [user |-> b.user, key |-> b.response.key, counter |-> b.response.counter]
<1>1. /\ b.pc = "Store" /\ record' = [record EXCEPT ![k] = rec] /\ handlers' = [handlers EXCEPT ![h] = a]
      /\ UNCHANGED <<challenge, listed, clientVars, verified>>
    BY DEF storeRecord
<1>2. /\ b \in KeyHandlers /\ b.response \in responses /\ b # Free /\ k \in Credentials /\ b.user \in Users
      /\ Posted(h)
      /\ b.response.counter \in Nat /\ b.response.key \in KeyPairs
    BY <1>1, BusyHandler DEF Asking
<1>3. HandlerInv(h) /\ KeyTypes
    BY DEF KeyInv
<1>4. rec \in Records /\ rec # NoKey /\ rec.user = b.user /\ rec.key = b.response.key
      /\ rec.counter = b.response.counter
    BY <1>2, RecordExists
<1>5. b.user = issued[b.response.challenge].user
    BY <1>1, <1>2, <1>3 DEF HandlerInv, Passing
<1>6. Whole(k, rec) /\ NotAhead(k, rec)
    BY <1>2, <1>4, <1>5 DEF KeyInv, ResponseInv, Whole, NotAhead
<1>7. /\ a \in KeyHandlers /\ handlers'[h] = a
      /\ a.pc = "Store" /\ a.user = b.user /\ a.response = b.response /\ a.late = b.late
      /\ "sadd" \notin a.todo => "sadd" \notin b.todo
    <2>1. a \in KeyHandlers /\ a.pc = b.pc /\ a.user = b.user /\ a.response = b.response /\ a.late = b.late
          /\ a.todo = b.todo \ {"set"}
        BY <1>2 DEF KeyHandlers
    <2>2. handlers'[h] = a
        BY <1>1, <1>3 DEF KeyTypes
    <2>3. QED
        BY <1>1, <2>1, <2>2
<1> HIDE DEF a, rec
<1>8. record'[k] # NoKey /\ UNCHANGED <<listed, issued, responses, verified>>
    BY <1>1, <1>2, <1>3, <1>4 DEF KeyTypes, clientVars
<1>9. HandlerInv(h)'
    BY <1>1, <1>2, <1>3, <1>7, <1>8 DEF HandlerInv, Passing
<1>10. QED
    BY <1>1, <1>2, <1>4, <1>6, <1>7, <1>9, RecordWritten

\* updateCounter reads the record: it is whole.
LEMMA ReadCounterStep ==
    ASSUME KeyInv, NEW h \in Handlers, readCounter(h)
    PROVE  KeyInv'
<1> DEFINE b == handlers[h]
           k == b.response.credential
           a == [b EXCEPT !.pc = "Update", !.read = record[k]]
<1>1. b.pc = "Read" /\ handlers' = [handlers EXCEPT ![h] = a] /\ UNCHANGED <<redisVars, clientVars, verified>>
    BY DEF readCounter
<1>2. /\ b \in KeyHandlers /\ b.response \in responses /\ b # Free /\ k \in Credentials /\ Posted(h)
    BY <1>1, BusyHandler DEF Asking
<1>3. HandlerInv(h) /\ KeyTypes /\ KeyRecordInv
    BY DEF KeyInv
<1>4. record[k] # NoKey /\ record[k] \in Records /\ b.response.kind = "Authentication" /\ Whole(k, record[k])
    BY <1>1, <1>2, <1>3 DEF HandlerInv, KeyTypes, KeyRecordInv
<1>5. /\ a \in KeyHandlers /\ handlers'[h] = a
      /\ a.pc = "Update" /\ a.user = b.user /\ a.response = b.response /\ a.late = b.late /\ a.read = record[k]
    <2>1. a \in KeyHandlers /\ a.pc = "Update" /\ a.user = b.user /\ a.response = b.response
          /\ a.late = b.late /\ a.read = record[k]
        BY <1>2, <1>4 DEF KeyHandlers, Passing
    <2>2. handlers'[h] = a
        BY <1>1, <1>3 DEF KeyTypes
    <2>3. QED
        BY <2>1, <2>2
<1> HIDE DEF a
<1>6. UNCHANGED <<record, listed, issued, keyring, responses, verified>>
    BY <1>1 DEF redisVars, clientVars
<1>7. b.user = issued[b.response.challenge].user /\ ~b.late
    BY <1>1, <1>2, <1>3 DEF HandlerInv, Passing
<1>8. HandlerInv(h)'
    <2>1. /\ keyring'[a.read.key] # NoKey /\ keyring'[a.read.key].user = a.read.user
          /\ keyring'[a.read.key].credential = a.response.credential
        BY <1>4, <1>5, <1>6 DEF Whole
    <2>2. /\ a.response \in responses' /\ ~a.late /\ a.read # NoKey
          /\ a.user = issued'[a.response.challenge].user /\ a.response.kind = "Authentication"
        BY <1>2, <1>4, <1>5, <1>6, <1>7
    <2>3. QED
        BY <1>5, <2>1, <2>2 DEF HandlerInv, Passing, Whole
<1>9. QED
    BY <1>1, <1>5, <1>8, OnlyHandler

\* updateCounter: what is written is whole, and its counter is one the key has
\* reached, if it is still the key that signed.
LEMMA UpdateCounterStep ==
    ASSUME KeyInv, NEW h \in Handlers, updateCounter(h)
    PROVE  KeyInv'
<1> DEFINE b == handlers[h]
           a == [b EXCEPT !.pc = "Delete"]
           k == b.response.credential
           rec == [b.read EXCEPT !.counter = b.response.counter]
<1>1. /\ b.pc = "Update" /\ record' = [record EXCEPT ![k] = rec]
      /\ Proceed(h, "Delete")
      /\ UNCHANGED <<challenge, listed, clientVars, verified>>
    BY DEF updateCounter
<1>2. /\ b \in KeyHandlers /\ b.response \in responses /\ b # Free /\ k \in Credentials /\ b.user \in Users
      /\ Posted(h)
      /\ b.response.counter \in Nat /\ b.response.key \in KeyPairs /\ Posted(h)
    BY <1>1, BusyHandler DEF Asking
<1>3. HandlerInv(h) /\ KeyTypes /\ KeyRecordInv
    BY DEF KeyInv
<1>4. b.read # NoKey /\ b.read \in Records /\ Whole(k, b.read) /\ b.response.kind = "Authentication"
    BY <1>1, <1>2, <1>3 DEF HandlerInv, KeyHandlers
<1>5. b.read.user \in Users /\ b.read.key \in KeyPairs
      /\ rec = [user |-> b.read.user, key |-> b.read.key, counter |-> b.response.counter]
    BY <1>4, RecordShape
<1>6. /\ rec \in Records /\ rec # NoKey /\ rec.user = b.read.user /\ rec.key = b.read.key
      /\ rec.counter = b.response.counter
    BY <1>2, <1>5, RecordExists
<1>7. Whole(k, rec)
    BY <1>4, <1>6 DEF Whole
<1>8. NotAhead(k, rec)
    <2>1. /\ keyring[b.response.key] # NoKey /\ keyring[b.response.key].credential = k
          /\ b.response.counter <= keyring[b.response.key].counter
        BY <1>2 DEF KeyInv, ResponseInv
    <2>2. OfOneKey(k) => b.response.key = b.read.key
        BY <1>2, <1>4, <1>5, <2>1 DEF OfOneKey, Whole
    <2>3. QED
        BY <1>6, <2>1, <2>2 DEF NotAhead
<1> HIDE DEF rec
<1>9. /\ a \in KeyHandlers /\ handlers' = [handlers EXCEPT ![h] = a] /\ handlers'[h] = a
      /\ a.pc = "Delete" /\ a.user = b.user /\ a.response = b.response /\ a.todo = b.todo /\ a.late = b.late
    <2>1. b \in KeyHandlers /\ KeyTypes /\ Proceed(h, "Delete") /\ "Delete" \in {"Challenge", "Refused"} \cup Passing
        BY <1>1, <1>2, <1>3 DEF Passing
    <2>2. QED
        BY ONLY h \in Handlers, <2>1, KeyGoto
<1> HIDE DEF a
<1>10. UNCHANGED <<listed, issued, responses, verified>>
    BY <1>1 DEF clientVars
<1>11. HandlerInv(h)'
    BY <1>1, <1>2, <1>3, <1>4, <1>9, <1>10 DEF HandlerInv, Passing
<1>12. QED
    BY <1>1, <1>2, <1>6, <1>7, <1>8, <1>9, <1>11, RecordWritten

\* storeCredential adds the credential to the list of its user.
LEMMA StoreListedStep ==
    ASSUME KeyInv, NEW h \in Handlers, storeListed(h)
    PROVE  KeyInv'
<1> DEFINE b == handlers[h]
           a == [b EXCEPT !.todo = @ \ {"sadd"}]
           k == b.response.credential
<1>1. /\ b.pc = "Store" /\ listed' = [listed EXCEPT ![b.user] = @ \cup {k}]
      /\ handlers' = [handlers EXCEPT ![h] = a]
      /\ UNCHANGED <<challenge, record, issued, keyring, responses, verified>>
    BY DEF storeListed, clientVars
<1>2. /\ b \in KeyHandlers /\ b.response \in responses /\ b # Free /\ k \in Credentials /\ b.user \in Users
      /\ Posted(h)
    BY <1>1, BusyHandler DEF Asking
<1>3. HandlerInv(h) /\ KeyTypes
    BY DEF KeyInv
<1>4. /\ a \in KeyHandlers /\ handlers'[h] = a
      /\ a.pc = "Store" /\ a.user = b.user /\ a.response = b.response /\ a.late = b.late
      /\ "set" \notin a.todo => "set" \notin b.todo
    <2>1. a \in KeyHandlers /\ a.pc = b.pc /\ a.user = b.user /\ a.response = b.response /\ a.late = b.late
          /\ a.todo = b.todo \ {"sadd"}
        BY <1>2 DEF KeyHandlers
    <2>2. handlers'[h] = a
        BY <1>1, <1>3 DEF KeyTypes
    <2>3. QED
        BY <1>1, <2>1, <2>2
<1> HIDE DEF a
<1>5. /\ listed' \in [Users -> SUBSET Credentials]
      /\ \A u \in Users : listed[u] \subseteq listed'[u]
      /\ k \in listed'[b.user]
    BY <1>1, <1>2, <1>3 DEF KeyTypes
<1>6. HandlerInv(h)'
    BY <1>1, <1>2, <1>3, <1>4, <1>5 DEF HandlerInv, Passing
<1>7. KeyTypes'
    BY <1>1, <1>3, <1>4, <1>5 DEF KeyTypes
<1>8. \A g \in Handlers : HandlerInv(g)'
    <2> SUFFICES ASSUME NEW g \in Handlers, g # h PROVE HandlerInv(g)'
        BY <1>6
    <2>1. handlers'[g] = handlers[g]
        BY <1>1, <1>3 DEF KeyTypes
    <2>2. QED
        BY <1>1, <1>5, <2>1, SameKeys, HandlerKept
<1>9. KeyRecordInv' /\ ResponseInv'
    BY <1>1, RecordsKept
<1>10. VerifiedInv'
    BY <1>1, <1>5, VerifiedKept DEF KeyInv, VerifiedInv
<1>11. QED
    BY <1>7, <1>8, <1>9, <1>10 DEF KeyInv

\* Success: the challenge is deleted, so that nothing with it passes any more.
LEMMA DeleteChallengeStep ==
    ASSUME KeyInv, NEW h \in Handlers, deleteChallenge(h)
    PROVE  KeyInv'
<1> DEFINE b == handlers[h]
           a == [b EXCEPT !.pc = "Verified"]
<1>1. /\ b.pc = "Delete" /\ challenge' = [challenge EXCEPT ![b.user] = 0]
      /\ verified' = verified \cup {b.response} /\ Proceed(h, "Verified")
      /\ UNCHANGED <<record, listed, issued, keyring, responses>>
    BY DEF deleteChallenge, clientVars
<1>2. /\ b \in KeyHandlers /\ b.response \in responses /\ b # Free /\ b.user \in Users /\ Posted(h)
    BY <1>1, BusyHandler DEF Asking
<1>3. HandlerInv(h) /\ KeyTypes /\ VerifiedInv
    BY DEF KeyInv
<1>4. /\ a \in KeyHandlers /\ handlers' = [handlers EXCEPT ![h] = a] /\ handlers'[h] = a
      /\ a.pc = "Verified" /\ a.user = b.user /\ a.response = b.response /\ a.todo = b.todo /\ a.late = b.late
      /\ a.read = b.read /\ a.pc \notin Asking
    BY <1>1, <1>2, <1>3, KeyGoto, ZenonT(30) DEF Passing
<1> HIDE DEF a
<1>5. /\ b.user = issued[b.response.challenge].user /\ ~b.late
      /\ b.response.kind = "Registration" =>
            record[b.response.credential] # NoKey /\ b.response.credential \in listed[b.user]
    BY <1>1, <1>2, <1>3 DEF HandlerInv, Passing
<1>6. /\ challenge' \in [Users -> Nat] /\ KeyRecordInv' /\ ResponseInv'
      /\ \A r \in responses : issued[r.challenge].user = b.user \/ r \in verified =>
             challenge'[issued[r.challenge].user] # r.challenge
    BY <1>1, <1>2, ChallengeRemoved
<1>7. HandlerInv(h)'
    BY <1>1, <1>2, <1>3, <1>4, <1>5 DEF HandlerInv, Passing
<1>8. KeyTypes'
    BY <1>1, <1>2, <1>3, <1>4, <1>6 DEF KeyTypes
<1>9. \A g \in Handlers : HandlerInv(g)'
    <2> SUFFICES ASSUME NEW g \in Handlers, g # h PROVE HandlerInv(g)'
        BY <1>7
    <2>1. handlers'[g] = handlers[g]
        BY <1>3, <1>4 DEF KeyTypes
    <2>2. QED
        BY <1>1, <2>1, SameKeys, HandlerKept
<1>10. VerifiedInv'
    BY <1>1, <1>2, <1>3, <1>5, <1>6 DEF KeyTypes, VerifiedInv
<1>11. QED
    BY <1>6, <1>8, <1>9, <1>10 DEF KeyInv

\* Every step keeps the invariant.
LEMMA KeyStep ==
    ASSUME KeyInv, [KeyNext]_keyVars
    PROVE  KeyInv'
<1>1. CASE UNCHANGED keyVars
    <2>1. UNCHANGED <<challenge, record, listed, issued, keyring, responses, handlers, verified>>
        BY <1>1 DEF keyVars, redisVars, clientVars
    <2>2. KeyTypes' /\ KeyRecordInv' /\ ResponseInv' /\ VerifiedInv'
        BY <2>1, RecordsKept DEF KeyInv, KeyTypes, VerifiedInv
    <2>3. \A h \in Handlers : HandlerInv(h)'
        BY <2>1, SameKeys, HandlerKept
    <2>4. QED
        BY <2>2, <2>3 DEF KeyInv
<1>2. ASSUME NEW u \in Users, ChallengeExpires(u)
      PROVE  KeyInv'
    BY <1>2, ExpireStep
<1>3. ASSUME NEW c \in DOMAIN issued,
             (\E k \in Credentials : Attest(c, k)) \/ (\E p \in KeyPairs : Sign(c, p))
      PROVE  KeyInv'
    BY <1>3, AttestStep, SignStep
<1>4. ASSUME NEW h \in Handlers,
             (\E u \in Users, r \in responses : Post(h, u, r)) \/ GiveOptions(h) \/ RedisFails(h)
      PROVE  KeyInv'
    BY <1>4, PostStep, OptionsStep, IssueStep, FailStep DEF GiveOptions
<1>5. ASSUME NEW h \in Handlers, Handle(h)
      PROVE  KeyInv'
    BY <1>5, GetChallengeStep, StoreRecordStep, StoreListedStep, StoredStep, GetCredentialStep,
       ReadCounterStep, UpdateCounterStep, DeleteChallengeStep DEF Handle
<1>6. QED
    BY <1>1, <1>2, <1>3, <1>4, <1>5 DEF KeyNext

\* The hardware-key service, of any users and credentials, keeps its invariant,
\* whatever overlaps, expires or fails.
THEOREM HardwareKeyInvariant == KeySpec => []KeyInv
<1>1. KeyInit => KeyInv
    <2> SUFFICES ASSUME KeyInit PROVE KeyInv
        OBVIOUS
    <2>1. /\ challenge = [u \in Users |-> 0] /\ issued = <<>> /\ responses = {}
          /\ verified = {} /\ handlers = [h \in Handlers |-> Free] /\ Len(<<>>) = 0 /\ 0 <= MaxChallenges
        BY KeyAssumption DEF KeyInit
    <2>2. /\ keyring \in [KeyPairs -> Keys] /\ record \in [Credentials -> Records]
          /\ listed \in [Users -> SUBSET Credentials]
          /\ \A p \in KeyPairs : keyring[p] # NoKey => p = 0 /\ keyring[p].counter = 0
          /\ \A k \in Credentials : record[k] # NoKey => Whole(k, record[k]) /\ NotAhead(k, record[k])
        <3>1. CASE /\ keyring = [p \in KeyPairs |-> NoKey] /\ record = [k \in Credentials |-> NoKey]
                   /\ listed = [u \in Users |-> {}]
            BY <3>1 DEF Keys, Records
        <3>2. ASSUME NEW k \in Credentials, NEW u \in Users,
                     keyring = [p \in KeyPairs |->
                                 IF p = 0 THEN [user |-> u, credential |-> k, counter |-> 0] ELSE NoKey],
                     record = [l \in Credentials |->
                                 IF l = k THEN [user |-> u, key |-> 0, counter |-> 0] ELSE NoKey],
                     listed = [v \in Users |-> IF v = u THEN {k} ELSE {}]
              PROVE  /\ keyring \in [KeyPairs -> Keys] /\ record \in [Credentials -> Records]
                     /\ listed \in [Users -> SUBSET Credentials]
                     /\ \A p \in KeyPairs : keyring[p] # NoKey => p = 0 /\ keyring[p].counter = 0
                     /\ \A l \in Credentials : record[l] # NoKey => Whole(l, record[l]) /\ NotAhead(l, record[l])
            <4> DEFINE x == [user |-> u, credential |-> k, counter |-> 0]
                       y == [user |-> u, key |-> 0, counter |-> 0]
            <4>1. x \in Keys /\ x # NoKey /\ x.user = u /\ x.credential = k /\ x.counter = 0
                BY KeyExists
            <4>2. 0 \in KeyPairs
                BY KeyAssumption DEF KeyPairs
            <4>3. y \in Records /\ y # NoKey /\ y.user = u /\ y.key = 0 /\ y.counter = 0
                BY <4>2, RecordExists
            <4>4. NoKey \in Keys /\ NoKey \in Records
                BY DEF Keys, Records
            <4>5. /\ keyring = [p \in KeyPairs |-> IF p = 0 THEN x ELSE NoKey]
                  /\ record = [l \in Credentials |-> IF l = k THEN y ELSE NoKey]
                BY <3>2
            <4> HIDE DEF x, y
            <4>6. \A l \in Credentials : record[l] # NoKey => Whole(l, record[l]) /\ NotAhead(l, record[l])
                BY <4>1, <4>2, <4>3, <4>5 DEF Whole, NotAhead
            <4>7. QED
                BY <3>2, <4>1, <4>3, <4>4, <4>5, <4>6
        <3>3. QED
            BY <3>1, <3>2 DEF KeyInit
    <2>3. KeyTypes
        BY <2>1, <2>2 DEF KeyTypes
    <2>4. KeyRecordInv
        BY <2>1, <2>2 DEF KeyRecordInv
    <2>5. ResponseInv /\ VerifiedInv /\ \A h \in Handlers : HandlerInv(h)
        BY <2>1 DEF ResponseInv, VerifiedInv, HandlerInv, Posted
    <2>6. QED
        BY <2>3, <2>4, <2>5 DEF KeyInv
<1>2. KeyInv /\ [KeyNext]_keyVars => KeyInv'
    BY KeyStep
<1>3. QED
    BY <1>1, <1>2, PTL DEF KeySpec

\* verifyRegistration and verifyAuthentication, of any number of requests that
\* overlap, for whatever user they are posted and whatever credential id a client
\* gives: no response passes again once it was answered with success, a record is of
\* one registration of its user, and where no two keys share a credential id a
\* registration answered is complete and no key is locked out.
THEOREM HardwareKeysAreSafe == KeySpec => []KeysSafe
<1>1. KeyInv => KeysSafe
    <2> SUFFICES ASSUME KeyInv PROVE KeysSafe
        OBVIOUS
    <2>1. \A k \in Credentials : record[k] # NoKey =>
              record[k].user \in Users /\ record[k].counter \in Nat /\ record[k].key \in KeyPairs
        BY RecordShape DEF KeyInv, KeyTypes
    <2>2. KeyTypeOK
        BY <2>1 DEF KeyInv, KeyTypes, KeyRecordInv, KeyTypeOK
    <2>3. ASSUME NEW h \in Handlers, handlers[h].pc = "Verified"
          PROVE  /\ ~handlers[h].late /\ handlers[h].user = issued[handlers[h].response.challenge].user
                 /\ handlers[h].user = keyring[handlers[h].response.key].user
        <3>1. handlers[h] \in KeyHandlers /\ handlers[h] # Free /\ Posted(h) /\ handlers[h].response \in responses
            BY <2>3, BusyHandler DEF Asking
        <3>2. HandlerInv(h)
            BY DEF KeyInv
        <3>3. ~handlers[h].late /\ handlers[h].user = issued[handlers[h].response.challenge].user
            BY <2>3, <3>1, <3>2 DEF HandlerInv, Passing, KeyHandlers
        <3>4. QED
            BY <3>1, <3>3 DEF KeyInv, ResponseInv
    <2>4. ASSUME NEW r \in verified, r.kind = "Registration"
          PROVE  /\ r.credential \in listed[issued[r.challenge].user] /\ record[r.credential] # NoKey
                 /\ OfOneKey(r.credential) => record[r.credential].key = r.key
        <3>1. r \in responses /\ r.credential \in Credentials /\ r.key \in KeyPairs
            BY ChallengeNumbers DEF KeyInv, KeyTypes
        <3>2. record[r.credential] # NoKey /\ r.credential \in listed[issued[r.challenge].user]
            BY <2>4 DEF KeyInv, VerifiedInv
        <3>3. Whole(r.credential, record[r.credential])
            BY <3>1, <3>2 DEF KeyInv, KeyRecordInv
        <3>4. keyring[r.key] # NoKey /\ keyring[r.key].credential = r.credential
            BY <3>1 DEF KeyInv, ResponseInv
        <3>5. QED
            BY <2>1, <3>1, <3>2, <3>3, <3>4 DEF OfOneKey, Whole
    <2>5. NoReplay /\ RegisteredIsComplete
        BY <2>3, <2>4 DEF NoReplay, RegisteredIsComplete
    <2>6. RecordsAreWhole /\ NoLockOut
        BY <2>3 DEF RecordsAreWhole, NoLockOut, KeyInv, KeyRecordInv, Whole, NotAhead
    <2>7. QED
        BY <2>2, <2>5, <2>6 DEF KeysSafe
<1>2. QED
    BY <1>1, HardwareKeyInvariant, PTL

-----------------------------------------------------------------------------
(* The limiter: the invariant *)

Unsent == [pc |-> "Unsent"]
RunningRequests == [pc : Running, process : Processes, client : Clients, at : Nat, count : Nat]
AnsweredRequests == [pc : {"Next", "Open", "TooMany"}, client : Clients, at : Nat]

LimitTypes ==
    /\ now \in Nat /\ slowest \in Nat
    /\ members \in [Clients -> SUBSET [request : Requests, score : Nat]]
    /\ expiry \in [Clients -> Nat]
    /\ requests \in [Requests -> {Unsent} \cup RunningRequests \cup AnsweredRequests]
    /\ dropped \in SUBSET Requests

\* No request is of the future, and Redis executes one pipeline of a process at a time.
ClockInv ==
    /\ \A r \in Requests : requests[r].pc # "Unsent" => requests[r].at <= now
    /\ \A r, q \in Requests : requests[r].pc \in Executing /\ requests[q].pc \in Executing
          /\ requests[r].process = requests[q].process => r = q

\* A member is of a request of the client that has added it.
MembersInv ==
    \A c \in Clients : \A m \in members[c] :
        /\ requests[m.request].pc \notin {"Unsent", "Evict", "Count", "Add"}
        /\ requests[m.request].client = c /\ requests[m.request].at = m.score

\* It stays for a window, unless dropped with its key: the key lives as long.
Added == {"Expire", "Decide", "Next", "TooMany"}
WindowInv ==
    \A r \in Requests \ dropped :
        requests[r].pc \in Added /\ requests[r].at + windowMs > now =>
            /\ Member(r) \in members[Key(r)]
            /\ requests[r].pc # "Expire" => expiry[Key(r)] >= requests[r].at + windowMs

\* What was dropped less than a window ago was dropped at once: the key that is there
\* now is new and outlives the window.
Young(c) == {r \in Sent(c) \cap dropped : requests[r].at + windowMs > now}
DroppedInv ==
    /\ \A r \in dropped :
          /\ requests[r].pc # "Unsent"
          /\ requests[r].at + windowMs > now =>
                expiry[Key(r)] = 0 \/ expiry[Key(r)] >= requests[r].at + windowMs
    /\ \A c \in Clients : Cardinality(Young(c)) <= Cardinality(Processes)

\* What is counted was sent around the request that counts.
CountedInv ==
    \A r \in Requests :
        /\ requests[r].pc = "Count" =>
              \A m \in members[Key(r)] : m.score + windowMs + slowest > requests[r].at
        /\ requests[r].pc \in {"Add", "Expire", "Decide"} => requests[r].count <= Cardinality(Around(r))
        /\ requests[r].pc = "TooMany" => Limit[Key(r)] <= Cardinality(Around(r))

\* The requests of a window that have passed or, having counted fewer than the
\* limit, will: when one counts, those that have added are in its count, and those
\* that have not are of other processes.
Admitted(c, t) ==
    {r \in Sent(c) \ dropped :
        /\ t <= requests[r].at /\ requests[r].at + slowest < t + windowMs
        /\ \/ requests[r].pc = "Next"
           \/ requests[r].pc \in {"Add", "Expire", "Decide"} /\ requests[r].count < Limit[c]}
AdmittedInv ==
    \A c \in Clients, t \in 0..MaxTime : Cardinality(Admitted(c, t)) < Limit[c] + Cardinality(Processes)

LimitInv ==
    LimitTypes /\ ClockInv /\ MembersInv /\ WindowInv /\ DroppedInv /\ CountedInv /\ AdmittedInv

-----------------------------------------------------------------------------
(* The limiter: the steps *)

\* A request that was sent has a client and a time; one under way has a process and
\* a count too.
LEMMA RequestShape ==
    ASSUME LimitTypes, NEW r \in Requests, requests[r].pc # "Unsent"
    PROVE  /\ requests[r].client \in Clients /\ requests[r].at \in Nat
           /\ requests[r].pc \in Running =>
                 requests[r] \in RunningRequests /\ requests[r].process \in Processes /\ requests[r].count \in Nat
<1>1. requests[r] \in RunningRequests \cup AnsweredRequests
    BY DEF LimitTypes, Unsent
<1>2. requests[r] \in AnsweredRequests => requests[r].pc \notin Running
    BY DEF AnsweredRequests, Running
<1>3. QED
    BY <1>1, <1>2 DEF RunningRequests, AnsweredRequests

\* Any set of requests is finite.
LEMMA RequestsFinite ==
    ASSUME NEW R \in SUBSET Requests
    PROVE  IsFiniteSet(R) /\ Cardinality(R) \in Nat
BY FS_Subset, FS_CardinalityType, LimitAssumption

\* A set mapped one-to-one into a finite one is no larger.
LEMMA NoLarger ==
    ASSUME NEW S, NEW T, IsFiniteSet(T), NEW f \in [S -> T],
           \A x, y \in S : f[x] = f[y] => x = y
    PROVE  /\ IsFiniteSet(S) /\ Cardinality(S) \in Nat /\ Cardinality(T) \in Nat
           /\ Cardinality(S) <= Cardinality(T)
<1>1. f \in Injection(S, T)
    BY DEF Injection, IsInjective
<1>2. QED
    BY <1>1, FS_Injection, FS_CardinalityType

\* Neither the client nor the time of a request that was sent changes, and the
\* longest delay and the dropped requests only grow.
Onward ==
    /\ \A q \in Requests : requests[q].pc # "Unsent" =>
          /\ requests'[q].pc # "Unsent" /\ requests'[q].client = requests[q].client
          /\ requests'[q].at = requests[q].at
    /\ slowest' \in Nat /\ slowest <= slowest' /\ dropped \subseteq dropped'

\* Then what was sent around a request stays so.
LEMMA AroundGrows ==
    ASSUME LimitTypes, Onward, NEW r \in Requests, requests[r].pc # "Unsent"
    PROVE  /\ Around(r)' \subseteq Requests
           /\ Cardinality(Around(r)) \in Nat /\ Cardinality(Around(r)') \in Nat
           /\ Cardinality(Around(r)) <= Cardinality(Around(r)')
<1>1. ASSUME NEW q \in Around(r) PROVE q \in Around(r)'
    <2>1. /\ q \in Requests /\ q # r /\ requests[q].pc # "Unsent" /\ requests[q].client = requests[r].client
          /\ requests[q].at <= requests[r].at + slowest
          /\ requests[q].at + windowMs + slowest > requests[r].at
        BY DEF Around, Sent, Key
    <2>2. requests[q].at \in Nat /\ requests[r].at \in Nat /\ slowest \in Nat /\ windowMs \in Nat
        BY <2>1, RequestShape, LimitAssumption DEF LimitTypes
    <2>3. slowest' \in Nat /\ slowest <= slowest' /\ requests'[q].at = requests[q].at
          /\ requests'[r].at = requests[r].at
        BY <2>1 DEF Onward
    <2>4. requests'[q].at <= requests'[r].at + slowest'
          /\ requests'[q].at + windowMs + slowest' > requests'[r].at
        BY <2>1, <2>2, <2>3
    <2>5. q \in Sent(Key(r))'
        BY <2>1 DEF Onward, Sent, Key
    <2>6. QED
        BY <2>1, <2>4, <2>5 DEF Around
<1>2. Around(r) \subseteq Around(r)' /\ Around(r)' \subseteq Requests
    BY <1>1 DEF Around, Sent
<1>3. QED
    BY <1>2, RequestsFinite, FS_Subset

\* What was counted stays true: of the one request that moves, it is as many as were
\* sent around it.
LEMMA CountedKept ==
    ASSUME LimitInv, LimitTypes', Onward, NEW r \in Requests,
           \A q \in Requests \ {r} : requests'[q] = requests[q],
           \A q \in Requests : requests'[q].pc = "Count" =>
               \A m \in members'[requests'[q].client] : m.score + windowMs + slowest' > requests'[q].at,
           requests'[r].pc \in {"Add", "Expire", "Decide"} => requests'[r].count <= Cardinality(Around(r)'),
           requests'[r].pc = "TooMany" => Limit[requests'[r].client] <= Cardinality(Around(r)')
    PROVE  CountedInv'
<1> SUFFICES ASSUME NEW q \in Requests \ {r}, requests[q].pc # "Unsent"
             PROVE  /\ requests[q].pc \in {"Add", "Expire", "Decide"} => requests[q].count <= Cardinality(Around(q)')
                    /\ requests[q].pc = "TooMany" => Limit[Key(q)] <= Cardinality(Around(q)')
    BY DEF CountedInv, Key
<1>1. LimitTypes
    BY DEF LimitInv
<1>2. Cardinality(Around(q)) \in Nat /\ Cardinality(Around(q)') \in Nat
      /\ Cardinality(Around(q)) <= Cardinality(Around(q)')
    BY <1>1, AroundGrows
<1>3. /\ requests[q].pc \in {"Add", "Expire", "Decide"} => requests[q].count <= Cardinality(Around(q))
      /\ requests[q].pc = "TooMany" => Limit[Key(q)] <= Cardinality(Around(q))
    BY DEF LimitInv, CountedInv
<1>4. requests[q].pc \in {"Add", "Expire", "Decide"} => requests[q].count \in Nat
    BY <1>1, RequestShape DEF Running
<1>5. Limit[Key(q)] \in Nat
    BY <1>1, RequestShape, LimitAssumption DEF Key
<1>6. QED
    BY <1>2, <1>3, <1>4, <1>5

\* If no request is admitted anew, the bound stands.
LEMMA AdmittedStays ==
    ASSUME LimitInv, Onward,
           \A r \in Requests :
              /\ requests[r].pc = "Unsent" => requests'[r].pc = "Unsent" \/ requests'[r].pc = "Evict"
              /\ requests'[r].pc = "Next" =>
                    requests[r].pc = "Next" \/ (requests[r].pc = "Decide" /\ requests[r].count < Limit[Key(r)])
              /\ requests'[r].pc \in {"Add", "Expire", "Decide"} =>
                    requests[r].pc \in {"Add", "Expire", "Decide"} /\ requests'[r].count = requests[r].count
    PROVE  AdmittedInv'
<1> SUFFICES ASSUME NEW c \in Clients, NEW t \in 0..MaxTime
             PROVE  Cardinality(Admitted(c, t)') < Limit[c] + Cardinality(Processes)
    BY DEF AdmittedInv
<1>1. ASSUME NEW r \in Admitted(c, t)' PROVE r \in Admitted(c, t)
    <2>1. /\ r \in Requests /\ requests'[r].pc \in {"Next", "Add", "Expire", "Decide"} /\ r \notin dropped'
          /\ requests'[r].client = c /\ t <= requests'[r].at /\ requests'[r].at + slowest' < t + windowMs
          /\ requests'[r].pc # "Next" => requests'[r].count < Limit[c]
        BY DEF Admitted, Sent
    <2>2. requests[r].pc # "Unsent"
        BY <2>1
    <2>3. requests'[r].client = requests[r].client /\ requests'[r].at = requests[r].at /\ r \notin dropped
        BY <2>1, <2>2 DEF Onward
    <2>4. requests[r].at + slowest < t + windowMs
        <3>1. requests[r].at \in Nat /\ slowest \in Nat /\ slowest' \in Nat /\ slowest <= slowest'
              /\ windowMs \in Nat /\ t \in Nat
            BY <2>1, <2>2, RequestShape, LimitAssumption DEF Onward, LimitInv, LimitTypes
        <3>2. QED
            BY <2>1, <2>3, <3>1
    <2>5. \/ requests[r].pc = "Next"
          \/ requests[r].pc \in {"Add", "Expire", "Decide"} /\ requests[r].count < Limit[c]
        BY <2>1, <2>3 DEF Key
    <2>6. QED
        BY <2>1, <2>2, <2>3, <2>4, <2>5 DEF Admitted, Sent
<1>2. Admitted(c, t) \subseteq Requests /\ Admitted(c, t)' \subseteq Admitted(c, t)
    BY <1>1 DEF Admitted, Sent
<1>3. IsFiniteSet(Admitted(c, t)) /\ Cardinality(Admitted(c, t)) \in Nat
    BY <1>2, RequestsFinite
<1>4. Cardinality(Admitted(c, t)') \in Nat /\ Cardinality(Admitted(c, t)') <= Cardinality(Admitted(c, t))
    BY <1>2, <1>3, FS_Subset, FS_CardinalityType
<1>5. Cardinality(Admitted(c, t)) < Limit[c] + Cardinality(Processes)
    BY DEF LimitInv, AdmittedInv
<1>6. Limit[c] \in Nat /\ Cardinality(Processes) \in Nat
    BY LimitAssumption, FS_CardinalityType
<1>7. QED
    BY <1>3, <1>4, <1>5, <1>6

\* What is dropped stays so, as long as keys get no earlier expiry.
LEMMA DroppedKept ==
    ASSUME LimitInv, Onward, now' = now, dropped' = dropped,
           \A c \in Clients : expiry'[c] = expiry[c] \/ expiry'[c] = 0 \/ expiry'[c] = now + windowMs
    PROVE  DroppedInv'
<1>1. LimitTypes /\ now \in Nat /\ windowMs \in Nat
    BY LimitAssumption DEF LimitInv, LimitTypes
<1>2. ASSUME NEW r \in dropped
      PROVE  /\ requests[r].pc # "Unsent" /\ requests'[r].pc # "Unsent" /\ requests'[r].client = requests[r].client
             /\ requests'[r].at = requests[r].at /\ r \in Requests
             /\ requests[r].at \in Nat /\ requests[r].client \in Clients /\ requests[r].at <= now
    <2>1. requests[r].pc # "Unsent" /\ r \in Requests
        BY <1>1 DEF LimitInv, DroppedInv, LimitTypes
    <2>2. QED
        BY <1>1, <2>1, RequestShape DEF Onward, LimitInv, ClockInv
<1>3. ASSUME NEW r \in dropped, requests[r].at + windowMs > now
      PROVE  expiry'[requests[r].client] = 0 \/ expiry'[requests[r].client] >= requests[r].at + windowMs
    <2>1. expiry[requests[r].client] = 0 \/ expiry[requests[r].client] >= requests[r].at + windowMs
        BY <1>3 DEF LimitInv, DroppedInv, Key
    <2>2. QED
        BY <1>1, <1>2, <2>1
<1>4. \A c \in Clients : Young(c)' = Young(c)
    BY <1>2 DEF Young, Sent
<1>5. QED
    BY <1>2, <1>3, <1>4 DEF DroppedInv, Key, LimitInv

\* A request goes on in its pipeline, or is answered: who sent it and when stays.
LEMMA RequestGoesOn ==
    ASSUME LimitInv, NEW r \in Requests, requests[r].pc \in Running,
           NEW x \in RunningRequests \cup AnsweredRequests,
           requests' = [requests EXCEPT ![r] = x], now' = now, dropped' = dropped,
           slowest' = slowest \/ Waits(r),
           x.client = requests[r].client, x.at = requests[r].at,
           x.pc \in Running => x.process = requests[r].process,
           x.pc \in Executing => requests[r].pc \in Executing \/ IsNext(r)
    PROVE  /\ requests' \in [Requests -> {Unsent} \cup RunningRequests \cup AnsweredRequests]
           /\ requests'[r] = x /\ \A q \in Requests \ {r} : requests'[q] = requests[q]
           /\ requests[r].pc # "Unsent" /\ x.pc # "Unsent"
           /\ ClockInv' /\ Onward
           /\ \A c \in Clients : Sent(c)' = Sent(c)
<1>1. LimitTypes /\ ClockInv
    BY DEF LimitInv
<1>2. requests'[r] = x /\ \A q \in Requests \ {r} : requests'[q] = requests[q]
    BY <1>1 DEF LimitTypes
<1>3. requests[r].pc # "Unsent" /\ x.pc # "Unsent" /\ Executing \subseteq Running
    BY DEF Running, RunningRequests, AnsweredRequests, Executing
<1>4. requests' \in [Requests -> {Unsent} \cup RunningRequests \cup AnsweredRequests]
    BY <1>1 DEF LimitTypes
<1>5. ClockInv'
    <2>1. \A q \in Requests : requests'[q].pc # "Unsent" => requests'[q].at <= now'
        BY <1>1, <1>2, <1>3 DEF ClockInv
    <2>2. ASSUME NEW q \in Requests, q # r, x.pc \in Executing, requests[q].pc \in Executing,
                 x.process = requests[q].process
          PROVE  FALSE
        BY <1>1, <1>3, <2>2 DEF ClockInv, IsNext
    <2>3. \A p, q \in Requests : requests'[p].pc \in Executing /\ requests'[q].pc \in Executing
              /\ requests'[p].process = requests'[q].process => p = q
        <3> SUFFICES ASSUME NEW p \in Requests, NEW q \in Requests, p # q,
                            requests'[p].pc \in Executing, requests'[q].pc \in Executing,
                            requests'[p].process = requests'[q].process
                     PROVE  FALSE
            OBVIOUS
        <3>1. CASE p # r /\ q # r
            BY <1>1, <1>2, <3>1 DEF ClockInv
        <3>2. CASE p = r
            BY <1>2, <2>2, <3>2
        <3>3. CASE q = r
            BY <1>2, <2>2, <3>3
        <3>4. QED
            BY <3>1, <3>2, <3>3
    <2>4. QED
        BY <2>1, <2>3 DEF ClockInv
<1>6. Onward
    <2>1. requests[r].at \in Nat /\ now \in Nat /\ slowest \in Nat
        BY <1>1, <1>3, RequestShape DEF LimitTypes
    <2>2. slowest' \in Nat /\ slowest <= slowest'
        BY <2>1 DEF Waits
    <2>3. QED
        BY <1>2, <1>3, <2>2 DEF Onward
<1>7. QED
    BY <1>2, <1>3, <1>4, <1>5, <1>6 DEF Sent

\* Where the pipeline goes on, the rest of the request stays.
LEMMA Advanced ==
    ASSUME NEW x \in RunningRequests, NEW pc \in Running
    PROVE  LET y == [x EXCEPT !.pc = pc]
           IN  /\ y \in RunningRequests /\ y.pc = pc /\ y.client = x.client /\ y.at = x.at
               /\ y.process = x.process /\ y.count = x.count
BY DEF RunningRequests

\* Members stay true of requests that do not go back.
LEMMA MembersKept ==
    ASSUME LimitInv, Onward, \A c \in Clients : members'[c] \subseteq members[c],
           \A q \in Requests : requests[q].pc \notin {"Unsent", "Evict", "Count", "Add"} =>
               requests'[q].pc \notin {"Unsent", "Evict", "Count", "Add"}
    PROVE  MembersInv'
<1> SUFFICES ASSUME NEW c \in Clients, NEW m \in members'[c]
             PROVE  /\ requests'[m.request].pc \notin {"Unsent", "Evict", "Count", "Add"}
                    /\ requests'[m.request].client = c /\ requests'[m.request].at = m.score
    BY DEF MembersInv
<1>1. /\ requests[m.request].pc \notin {"Unsent", "Evict", "Count", "Add"}
      /\ requests[m.request].client = c /\ requests[m.request].at = m.score
    BY DEF LimitInv, MembersInv
<1>2. m.request \in Requests
    BY DEF LimitInv, LimitTypes
<1>3. QED
    BY <1>1, <1>2 DEF Onward

\* A request arrives: it has counted nothing yet.
LEMMA ArriveStep ==
    ASSUME LimitInv, NEW r \in Requests, NEW p \in Processes, NEW c \in Clients, Arrive(r, p, c)
    PROVE  LimitInv'
<1> DEFINE x == [pc |-> "Evict", process |-> p, client |-> c, at |-> now, count |-> 0]
<1>1. /\ requests[r].pc = "Unsent" /\ requests' = [requests EXCEPT ![r] = x]
      /\ UNCHANGED <<now, members, expiry, slowest, dropped>>
    BY DEF Arrive
<1>2. LimitTypes /\ ClockInv
    BY DEF LimitInv
<1>3. x \in RunningRequests /\ x.pc = "Evict" /\ x.process = p /\ x.client = c /\ x.at = now
    BY <1>2 DEF RunningRequests, Running, LimitTypes
<1> HIDE DEF x
<1>4. requests'[r] = x /\ \A q \in Requests \ {r} : requests'[q] = requests[q]
    BY <1>1, <1>2 DEF LimitTypes
<1>5. LimitTypes'
    BY <1>1, <1>2, <1>3 DEF LimitTypes
<1>6. Onward
    BY <1>1, <1>2, <1>4 DEF Onward, LimitTypes
<1>7. ClockInv'
    <2>1. \A q \in Requests : requests'[q].pc # "Unsent" => requests'[q].at <= now'
        BY <1>1, <1>2, <1>3, <1>4 DEF ClockInv, LimitTypes
    <2>2. \A o, q \in Requests : requests'[o].pc \in Executing /\ requests'[q].pc \in Executing
              /\ requests'[o].process = requests'[q].process => o = q
        BY <1>2, <1>3, <1>4 DEF ClockInv, Executing
    <2>3. QED
        BY <2>1, <2>2 DEF ClockInv
<1>8. MembersInv'
    BY <1>1, <1>4, <1>6, MembersKept
<1>9. WindowInv'
    BY <1>1, <1>3, <1>4 DEF LimitInv, WindowInv, Member, Key, Added
<1>10. DroppedInv'
    BY <1>1, <1>6, DroppedKept
<1>11. CountedInv'
    BY <1>1, <1>3, <1>4, <1>5, <1>6, CountedKept DEF LimitInv, CountedInv, Key
<1>12. AdmittedInv'
    BY <1>1, <1>3, <1>4, <1>6, AdmittedStays
<1>13. QED
    BY <1>5, <1>7, <1>8, <1>9, <1>10, <1>11, <1>12 DEF LimitInv

\* The pipeline fails: the request passes, unlimited and not as one of those within
\* the limit; what is stored stays.
LEMMA PipelineFailsStep ==
    ASSUME LimitInv, NEW r \in Requests, PipelineFails(r)
    PROVE  LimitInv'
<1> DEFINE x == [pc |-> "Open", client |-> requests[r].client, at |-> requests[r].at]
<1>1. requests[r].pc \in Running /\ requests' = [requests EXCEPT ![r] = x]
      /\ UNCHANGED <<now, members, expiry, slowest, dropped>>
    BY DEF PipelineFails, Finish
<1>2. LimitTypes /\ requests[r].pc # "Unsent"
    BY <1>1 DEF LimitInv, Running
<1>3. x \in AnsweredRequests /\ x.pc = "Open" /\ x.client = requests[r].client /\ x.at = requests[r].at
      /\ x.pc \notin Running /\ x.pc \notin Executing
    BY <1>2, RequestShape DEF AnsweredRequests, Running, Executing
<1> HIDE DEF x
<1>4. /\ requests' \in [Requests -> {Unsent} \cup RunningRequests \cup AnsweredRequests]
      /\ requests'[r] = x /\ \A q \in Requests \ {r} : requests'[q] = requests[q]
      /\ ClockInv' /\ Onward
    BY <1>1, <1>3, RequestGoesOn
<1>5. LimitTypes'
    BY <1>1, <1>2, <1>4 DEF LimitTypes
<1>6. MembersInv'
    BY <1>1, <1>3, <1>4, MembersKept
<1>7. WindowInv'
    BY <1>1, <1>3, <1>4 DEF LimitInv, WindowInv, Member, Key, Added
<1>8. DroppedInv'
    BY <1>1, <1>4, DroppedKept
<1>9. CountedInv'
    BY <1>1, <1>3, <1>4, <1>5, CountedKept DEF LimitInv, CountedInv, Key
<1>10. AdmittedInv'
    BY <1>2, <1>3, <1>4, AdmittedStays
<1>11. QED
    BY <1>4, <1>5, <1>6, <1>7, <1>8, <1>9, <1>10 DEF LimitInv

\* The verdict: by the count.
LEMMA DecideStep ==
    ASSUME LimitInv, NEW r \in Requests, Decide(r)
    PROVE  LimitInv'
<1> DEFINE pc == IF requests[r].count >= Limit[Key(r)] THEN "TooMany" ELSE "Next"
           x == [pc |-> pc, client |-> requests[r].client, at |-> requests[r].at]
<1>1. /\ requests[r].pc = "Decide" /\ requests' = [requests EXCEPT ![r] = x]
      /\ UNCHANGED <<now, members, expiry, slowest, dropped>>
    BY DEF Decide, Finish
<1>2. /\ LimitTypes /\ requests[r].pc # "Unsent" /\ requests[r].pc \in Running
      /\ requests[r].client \in Clients /\ requests[r].at \in Nat /\ requests[r].count \in Nat
    BY <1>1, RequestShape DEF LimitInv, Running
<1>3. Limit[Key(r)] \in Nat /\ Key(r) = requests[r].client
    BY <1>2, LimitAssumption DEF Key
<1>4. /\ pc \in {"Next", "TooMany"}
      /\ pc = "TooMany" => Limit[Key(r)] <= requests[r].count
      /\ pc = "Next" => requests[r].count < Limit[Key(r)]
    BY <1>2, <1>3
<1> HIDE DEF pc
<1>5. x \in AnsweredRequests /\ x.pc = pc /\ x.client = requests[r].client /\ x.at = requests[r].at
      /\ x.pc \notin Running /\ x.pc \notin Executing
    BY <1>2, <1>4 DEF AnsweredRequests, Running, Executing
<1> HIDE DEF x
<1>6. /\ requests' \in [Requests -> {Unsent} \cup RunningRequests \cup AnsweredRequests]
      /\ requests'[r] = x /\ \A q \in Requests \ {r} : requests'[q] = requests[q]
      /\ ClockInv' /\ Onward
    BY <1>1, <1>2, <1>5, RequestGoesOn
<1>7. LimitTypes'
    BY <1>1, <1>2, <1>6 DEF LimitTypes
<1>8. MembersInv'
    BY <1>1, <1>4, <1>5, <1>6, MembersKept
<1>9. WindowInv'
    BY <1>1, <1>4, <1>5, <1>6 DEF LimitInv, WindowInv, Member, Key, Added
<1>10. DroppedInv'
    BY <1>1, <1>6, DroppedKept
<1>11. CountedInv'
    <2>1. \A q \in Requests : requests'[q].pc = "Count" =>
              \A m \in members'[requests'[q].client] : m.score + windowMs + slowest' > requests'[q].at
        BY <1>1, <1>4, <1>5, <1>6 DEF LimitInv, CountedInv, Key
    <2>2. requests[r].count <= Cardinality(Around(r))
        BY <1>1 DEF LimitInv, CountedInv
    <2>3. Cardinality(Around(r)) \in Nat /\ Cardinality(Around(r)') \in Nat
          /\ Cardinality(Around(r)) <= Cardinality(Around(r)')
        BY <1>2, <1>6, AroundGrows
    <2>4. pc = "TooMany" => Limit[Key(r)] <= Cardinality(Around(r)')
        BY <1>2, <1>3, <1>4, <2>2, <2>3
    <2>5. QED
        BY <1>3, <1>4, <1>5, <1>6, <1>7, <2>1, <2>4, CountedKept
<1>12. AdmittedInv'
    BY <1>1, <1>2, <1>4, <1>5, <1>6, AdmittedStays
<1>13. QED
    BY <1>6, <1>7, <1>8, <1>9, <1>10, <1>11, <1>12 DEF LimitInv

\* zremrangebyscore: a member in the window stays, and keeps the key alive.
LEMMA EvictStep ==
    ASSUME LimitInv, NEW r \in Requests, Evict(r)
    PROVE  LimitInv'
<1> DEFINE x == [requests[r] EXCEPT !.pc = "Count"]
           c == requests[r].client
<1>1. /\ requests[r].pc = "Evict" /\ IsNext(r) /\ requests' = [requests EXCEPT ![r] = x]
      /\ members' = [members EXCEPT ![c] = members[c] \ Evicted(r)]
      /\ expiry' = [expiry EXCEPT ![c] = IF members'[c] = {} THEN 0 ELSE expiry[c]]
      /\ now' = now /\ slowest' = slowest /\ dropped' = dropped
    BY DEF Evict, Advance, Key
<1>2. /\ LimitTypes /\ requests[r].pc # "Unsent" /\ requests[r].pc \in Running
      /\ c \in Clients /\ requests[r] \in RunningRequests /\ requests[r].at \in Nat
    BY <1>1, RequestShape DEF LimitInv, Running
<1>3. /\ x \in RunningRequests /\ x.pc = "Count" /\ x.client = c /\ x.at = requests[r].at
      /\ x.process = requests[r].process
    BY <1>2, Advanced DEF Running
<1> HIDE DEF x
<1>4. /\ requests' \in [Requests -> {Unsent} \cup RunningRequests \cup AnsweredRequests]
      /\ requests'[r] = x /\ \A q \in Requests \ {r} : requests'[q] = requests[q]
      /\ ClockInv' /\ Onward
    BY <1>1, <1>2, <1>3, RequestGoesOn
<1>5. /\ \A d \in Clients : members'[d] \subseteq members[d]
      /\ \A d \in Clients : d # c => members'[d] = members[d] /\ expiry'[d] = expiry[d]
      /\ members'[c] = members[c] \ Evicted(r)
      /\ members'[c] # {} => expiry'[c] = expiry[c]
      /\ \A d \in Clients : expiry'[d] = expiry[d] \/ expiry'[d] = 0
      /\ members' \in [Clients -> SUBSET [request : Requests, score : Nat]]
      /\ expiry' \in [Clients -> Nat]
    BY <1>1, <1>2 DEF LimitTypes
<1>6. LimitTypes'
    BY <1>1, <1>2, <1>4, <1>5 DEF LimitTypes
<1>7. MembersInv'
    BY <1>1, <1>4, <1>5, MembersKept
<1>8. WindowInv'
    <2> SUFFICES ASSUME NEW q \in Requests \ dropped, requests'[q].pc \in Added,
                        requests'[q].at + windowMs > now
                 PROVE  /\ [request |-> q, score |-> requests'[q].at] \in members'[requests'[q].client]
                        /\ requests'[q].pc # "Expire" =>
                              expiry'[requests'[q].client] >= requests'[q].at + windowMs
        BY <1>1 DEF WindowInv, Member, Key
    <2>1. requests'[q] = requests[q] /\ requests[q].pc # "Unsent"
        BY <1>3, <1>4 DEF Added
    <2> DEFINE d == requests[q].client
               m == [request |-> q, score |-> requests[q].at]
    <2>2. m \in members[d] /\ (requests[q].pc # "Expire" => expiry[d] >= requests[q].at + windowMs)
        BY <2>1 DEF LimitInv, WindowInv, Member, Key
    <2>3. d \in Clients /\ requests[q].at \in Nat
        BY <1>2, <2>1, RequestShape
    <2>4. requests[r].at <= now /\ now \in Nat
        BY <1>2 DEF LimitInv, ClockInv, LimitTypes
    <2>5. m \in members'[d]
        <3>1. m \notin Evicted(r)
            BY <1>2, <2>1, <2>3, <2>4, LimitAssumption DEF Evicted
        <3>2. QED
            BY <1>5, <2>2, <2>3, <3>1
    <2>6. expiry'[d] = expiry[d]
        BY <1>5, <2>3, <2>5
    <2>7. QED
        BY <2>1, <2>2, <2>5, <2>6
<1>9. DroppedInv'
    BY <1>1, <1>4, <1>5, DroppedKept
<1>10. CountedInv'
    <2>1. ASSUME NEW q \in Requests, requests'[q].pc = "Count", NEW m \in members'[requests'[q].client]
          PROVE  m.score + windowMs + slowest > requests'[q].at
        <3>1. CASE q = r
            <4>1. m \in members[c] /\ m \notin Evicted(r) /\ requests'[q].at = requests[r].at
                BY <1>3, <1>4, <1>5, <2>1, <3>1
            <4>2. m.score \in Nat /\ slowest \in Nat
                BY <1>2, <4>1 DEF LimitTypes
            <4>3. ~(m.score + windowMs <= requests[r].at)
                BY <4>1 DEF Evicted, Key
            <4>4. QED
                BY <1>2, <4>1, <4>2, <4>3, LimitAssumption
        <3>2. CASE q # r
            <4>1. requests'[q] = requests[q] /\ requests[q].pc = "Count" /\ requests[q].client \in Clients
                BY <1>2, <1>4, <2>1, <3>2, RequestShape
            <4>2. QED
                BY <1>5, <2>1, <4>1 DEF LimitInv, CountedInv, Key
        <3>3. QED
            BY <3>1, <3>2
    <2>2. QED
        BY <1>1, <1>3, <1>4, <1>6, <2>1, CountedKept
<1>11. AdmittedInv'
    BY <1>1, <1>3, <1>4, AdmittedStays
<1>12. QED
    BY <1>4, <1>6, <1>7, <1>8, <1>9, <1>10, <1>11 DEF LimitInv

\* Each member counted is another request, sent around this one.
LEMMA CountIsAround ==
    ASSUME LimitInv, NEW r \in Requests, Count(r)
    PROVE  LET M == members[requests[r].client]
           IN  /\ IsFiniteSet(M) /\ Cardinality(M) \in Nat
               /\ Cardinality(M) <= Cardinality(Around(r)')
<1> DEFINE c == requests[r].client
           M == members[c]
           f == [m \in M |-> m.request]
           x == [requests[r] EXCEPT !.pc = "Add", !.count = Cardinality(members[c])]
<1>1. /\ LimitTypes /\ requests[r].pc = "Count" /\ requests[r].pc # "Unsent"
      /\ requests[r] \in RunningRequests /\ c \in Clients /\ requests[r].at \in Nat
      /\ now \in Nat /\ slowest \in Nat
    BY RequestShape DEF LimitInv, LimitTypes, Running, Count
<1>2. requests' = [requests EXCEPT ![r] = x] /\ Waits(r)
    BY DEF Count, Key
<1>3. \A q \in Requests : /\ requests'[q].pc = "Unsent" <=> requests[q].pc = "Unsent"
                          /\ requests[q].pc # "Unsent" =>
                                requests'[q].client = requests[q].client /\ requests'[q].at = requests[q].at
    <2>1. x.pc = "Add" /\ x.client = c /\ x.at = requests[r].at
        BY <1>1 DEF RunningRequests
    <2>2. QED
        BY <1>1, <1>2, <2>1 DEF LimitTypes
<1>4. slowest' \in Nat /\ slowest <= slowest' /\ now <= requests[r].at + slowest'
    BY <1>1, <1>2 DEF Waits
<1>5. \A m \in M : m = [request |-> m.request, score |-> m.score] /\ m.request \in Requests /\ m.score \in Nat
    BY <1>1 DEF LimitTypes
<1>6. \A m \in M : /\ requests[m.request].pc \notin {"Unsent", "Evict", "Count", "Add"}
                   /\ requests[m.request].client = c /\ requests[m.request].at = m.score
    BY <1>1 DEF LimitInv, MembersInv
<1>7. ASSUME NEW m \in M PROVE m.request \in Around(r)'
    <2>1. m.request \in Sent(c)' \ {r}
        BY <1>1, <1>3, <1>5, <1>6 DEF Sent
    <2>2. m.score <= now
        BY <1>5, <1>6 DEF LimitInv, ClockInv
    <2>3. m.score + windowMs + slowest > requests[r].at
        BY <1>1 DEF LimitInv, CountedInv, Key
    <2>4. m.score <= requests[r].at + slowest' /\ m.score + windowMs + slowest' > requests[r].at
        BY <1>1, <1>4, <1>5, <2>2, <2>3, LimitAssumption
    <2>5. requests'[m.request].at = m.score /\ requests'[r].at = requests[r].at /\ requests'[r].client = c
        BY <1>1, <1>3, <1>5, <1>6
    <2>6. QED
        BY <2>1, <2>4, <2>5 DEF Around, Key
<1>8. \A m, n \in M : f[m] = f[n] => m = n
    BY <1>5, <1>6
<1>9. f \in [M -> Around(r)']
    BY <1>7
<1> HIDE DEF f
<1>10. IsFiniteSet(Around(r)')
    BY RequestsFinite DEF Around, Sent
<1>11. QED
    BY <1>8, <1>9, <1>10, NoLarger

\* A request counts. If it is to pass, those of the window that have added are
\* in its count, below the limit, and those that have not are of other processes.
LEMMA CountAdmits ==
    ASSUME LimitInv, NEW r \in Requests, requests[r].pc = "Count",
           \A q \in Requests \ {r} : requests'[q] = requests[q],
           dropped' = dropped, slowest' \in Nat, now <= requests[r].at + slowest',
           NEW c \in Clients, c = requests[r].client,
           IsFiniteSet(members[c]), Cardinality(members[c]) < Limit[c],
           NEW t \in 0..MaxTime, requests[r].at + slowest' < t + windowMs
    PROVE  LET A == Admitted(c, t)' \ {r}
           IN  /\ IsFiniteSet(A) /\ Cardinality(A) \in Nat
               /\ Cardinality(A) + 1 < Limit[c] + Cardinality(Processes)
<1> DEFINE M == members[c]
           A == Admitted(c, t)' \ {r}
           B == {q \in A : requests[q].pc = "Add"}
           D == A \ B
           f == [q \in D |-> [request |-> q, score |-> requests[q].at]]
           g == [q \in B |-> requests[q].process]
           P == Processes \ {requests[r].process}
<1>1. /\ LimitTypes /\ requests[r].pc # "Unsent" /\ requests[r].pc \in Running
      /\ c \in Clients /\ requests[r].at \in Nat /\ requests[r].process \in Processes
      /\ now \in Nat
    BY RequestShape DEF LimitInv, LimitTypes, Running
<1>2. A \subseteq Requests
      /\ \A q \in A : /\ q # r /\ q \notin dropped /\ requests[q].client = c /\ t <= requests[q].at
                      /\ requests[q].pc \in {"Add", "Expire", "Decide", "Next"}
    BY DEF Admitted, Sent
<1>3. \A q \in D : f[q] \in M
    <2> SUFFICES ASSUME NEW q \in D PROVE [request |-> q, score |-> requests[q].at] \in M
        OBVIOUS
    <2>1. requests[q].pc \in {"Expire", "Decide", "Next"} /\ requests[q].client = c /\ q \in Requests \ dropped
          /\ t <= requests[q].at
        BY <1>2
    <2>2. requests[q].at \in Nat
        BY <1>1, <2>1, RequestShape
    <2>3. requests[q].at + windowMs > now
        <3>1. t \in Nat /\ windowMs \in Nat \ {0}
            BY LimitAssumption
        <3>2. QED
            BY <1>1, <2>1, <2>2, <3>1
    <2>4. Member(q) \in members[Key(q)]
        BY <2>1, <2>3 DEF LimitInv, WindowInv, Added
    <2>5. QED
        BY <2>1, <2>4 DEF Member, Key
<1>4. \A p, q \in D : f[p] = f[q] => p = q
    OBVIOUS
<1>5. IsFiniteSet(M) /\ Cardinality(M) \in Nat
    BY FS_CardinalityType
<1>6. f \in [D -> M]
    BY <1>3
<1>7. \A q \in B : requests[q].pc \in Executing /\ requests[q].process \in P
    <2> SUFFICES ASSUME NEW q \in B PROVE requests[q].pc \in Executing /\ requests[q].process \in P
        OBVIOUS
    <2>1. requests[q].pc = "Add" /\ requests[q].pc \in Executing /\ q # r /\ q \in Requests
        BY <1>2 DEF Executing
    <2>2. requests[q].process \in Processes
        BY <1>1, <2>1, RequestShape DEF Running
    <2>3. requests[q].process # requests[r].process
        BY <1>1, <2>1 DEF LimitInv, ClockInv, Executing
    <2>4. QED
        BY <2>1, <2>2, <2>3
<1>8. \A p, q \in B : g[p] = g[q] => p = q
    BY <1>2, <1>7 DEF LimitInv, ClockInv
<1>9. g \in [B -> P]
    BY <1>7
<1>10. IsFiniteSet(P) /\ Cardinality(P) \in Nat /\ Cardinality(Processes) \in Nat
       /\ Cardinality(P) = Cardinality(Processes) - 1
    BY <1>1, LimitAssumption, FS_RemoveElement, FS_CardinalityType
<1> HIDE DEF f, g, P
<1>11. IsFiniteSet(D) /\ Cardinality(D) \in Nat /\ Cardinality(D) <= Cardinality(M)
    BY <1>4, <1>5, <1>6, NoLarger
<1>12. IsFiniteSet(B) /\ Cardinality(B) \in Nat /\ Cardinality(B) <= Cardinality(P)
    BY <1>8, <1>9, <1>10, NoLarger
<1>13. A = D \cup B /\ D \cap B = {}
    OBVIOUS
<1> HIDE DEF D, B, A
<1>14. IsFiniteSet(A) /\ Cardinality(A) = Cardinality(D) + Cardinality(B)
    <2>1. IsFiniteSet(A) /\ Cardinality(A) = Cardinality(D) + Cardinality(B) - Cardinality(D \cap B)
        BY <1>11, <1>12, <1>13, FS_Union
    <2>2. Cardinality(D \cap B) = 0
        BY <1>13, FS_EmptySet
    <2>3. QED
        BY <1>11, <1>12, <2>1, <2>2
<1>15. Limit[c] \in Nat
    BY <1>1, LimitAssumption
<1>16. Cardinality(M) < Limit[c]
    OBVIOUS
<1>17. IsFiniteSet(A) /\ Cardinality(A) \in Nat /\ Cardinality(A) + 1 < Limit[c] + Cardinality(Processes)
    <2> HIDE DEF M
    <2>1. Cardinality(A) <= Cardinality(M) + Cardinality(P)
        BY <1>5, <1>10, <1>11, <1>12, <1>14
    <2>2. QED
        BY <1>5, <1>10, <1>11, <1>12, <1>14, <1>15, <1>16, <2>1
<1>18. QED
    BY <1>17 DEF A

\* zcard
LEMMA CountStep ==
    ASSUME LimitInv, NEW r \in Requests, Count(r)
    PROVE  LimitInv'
<1> DEFINE c == requests[r].client
           n == Cardinality(members[c])
           x == [requests[r] EXCEPT !.pc = "Add", !.count = n]
<1>1. /\ requests[r].pc = "Count" /\ UNCHANGED <<now, members, expiry, dropped>> /\ Waits(r)
      /\ requests' = [requests EXCEPT ![r] = x]
    BY DEF Count, Key
<1>2. /\ LimitTypes /\ requests[r].pc # "Unsent" /\ requests[r].pc \in Running
      /\ c \in Clients /\ requests[r] \in RunningRequests /\ requests[r].at \in Nat
      /\ requests[r].pc \in Executing
    BY <1>1, RequestShape DEF LimitInv, Running, Executing
<1>3. n \in Nat /\ n <= Cardinality(Around(r)') /\ IsFiniteSet(members[c])
    BY CountIsAround
<1>4. /\ x \in RunningRequests /\ x.pc = "Add" /\ x.client = c /\ x.at = requests[r].at
      /\ x.process = requests[r].process /\ x.count = n
    BY <1>2, <1>3 DEF RunningRequests, Running
<1> HIDE DEF x
<1>5. /\ requests' \in [Requests -> {Unsent} \cup RunningRequests \cup AnsweredRequests]
      /\ requests'[r] = x /\ \A q \in Requests \ {r} : requests'[q] = requests[q]
      /\ ClockInv' /\ Onward /\ \A d \in Clients : Sent(d)' = Sent(d)
    BY <1>1, <1>2, <1>4, RequestGoesOn
<1>6. LimitTypes'
    BY <1>1, <1>2, <1>5 DEF LimitTypes, Onward
<1>7. MembersInv'
    BY <1>1, <1>5, MembersKept
<1>8. WindowInv'
    BY <1>1, <1>4, <1>5 DEF LimitInv, WindowInv, Member, Key, Added
<1>9. DroppedInv'
    BY <1>1, <1>5, DroppedKept
<1>10. CountedInv'
    <2>1. ASSUME NEW q \in Requests, requests'[q].pc = "Count", NEW m \in members'[requests'[q].client]
          PROVE  m.score + windowMs + slowest' > requests'[q].at
        <3>1. requests'[q] = requests[q] /\ requests[q].pc = "Count" /\ requests[q].pc # "Unsent"
              /\ m \in members[requests[q].client]
            BY <1>1, <1>4, <1>5, <2>1
        <3>2. m.score + windowMs + slowest > requests[q].at
            BY <3>1 DEF LimitInv, CountedInv, Key
        <3>3. requests[q].client \in Clients /\ requests[q].at \in Nat
            BY <1>2, <3>1, RequestShape
        <3>4. m.score \in Nat /\ slowest \in Nat /\ slowest' \in Nat /\ slowest <= slowest' /\ windowMs \in Nat
            BY <1>2, <1>5, <3>1, <3>3, LimitAssumption DEF LimitTypes, Onward
        <3>5. QED
            BY <3>1, <3>2, <3>3, <3>4
    <2>2. QED
        BY <1>3, <1>4, <1>5, <1>6, <2>1, CountedKept
<1>11. AdmittedInv'
    <2> SUFFICES ASSUME NEW d \in Clients, NEW t \in 0..MaxTime
                 PROVE  Cardinality(Admitted(d, t)') < Limit[d] + Cardinality(Processes)
        BY DEF AdmittedInv
    <2> DEFINE A == Admitted(d, t)'
    <2>1. A \subseteq Requests /\ Admitted(d, t) \subseteq Requests
        BY DEF Admitted, Sent
    <2>2. slowest \in Nat /\ slowest' \in Nat /\ slowest <= slowest' /\ now <= requests[r].at + slowest'
        BY <1>1, <1>2, <1>5 DEF LimitTypes, Onward, Waits
    <2>3. IsFiniteSet(A) /\ Cardinality(A) \in Nat /\ Cardinality(Admitted(d, t)) \in Nat
          /\ IsFiniteSet(Admitted(d, t))
        BY <2>1, RequestsFinite
    <2>4. Limit[d] \in Nat /\ Cardinality(Processes) \in Nat
        BY LimitAssumption, FS_CardinalityType
    <2>5. CASE r \in A
        <3>1. d = c /\ requests[r].at + slowest' < t + windowMs /\ n < Limit[c]
            BY <1>4, <1>5, <2>5 DEF Admitted, Sent
        <3>2. IsFiniteSet(A \ {r}) /\ Cardinality(A \ {r}) \in Nat
              /\ Cardinality(A \ {r}) + 1 < Limit[d] + Cardinality(Processes)
            BY <1>1, <1>3, <1>5, <2>2, <3>1, CountAdmits
        <3> HIDE DEF A
        <3>3. Cardinality(A \ {r}) = Cardinality(A) - 1
            BY <2>3, <2>5, FS_RemoveElement
        <3>4. Cardinality(A) < Limit[d] + Cardinality(Processes)
            BY <2>3, <2>4, <3>2, <3>3
        <3>5. QED
            BY <3>4 DEF A
    <2>6. CASE r \notin A
        <3>1. ASSUME NEW q \in A PROVE q \in Admitted(d, t)
            <4>1. q # r /\ q \in Requests /\ requests'[q] = requests[q] /\ q \in Sent(d) /\ q \notin dropped
                  /\ requests[q].pc # "Unsent"
                BY <1>1, <1>5, <2>6, <3>1 DEF Admitted, Sent
            <4>2. requests[q].at + slowest' < t + windowMs /\ requests[q].at \in Nat /\ t \in Nat
                  /\ windowMs \in Nat
                BY <1>2, <3>1, <4>1, RequestShape, LimitAssumption DEF Admitted
            <4>3. requests[q].at + slowest < t + windowMs
                BY <2>2, <4>2
            <4>4. QED
                BY <3>1, <4>1, <4>3 DEF Admitted
        <3> HIDE DEF A
        <3>2. A \subseteq Admitted(d, t)
            BY <3>1
        <3>3. Cardinality(A) <= Cardinality(Admitted(d, t))
            BY <2>3, <3>2, FS_Subset
        <3>4. Cardinality(Admitted(d, t)) < Limit[d] + Cardinality(Processes)
            BY DEF LimitInv, AdmittedInv
        <3>5. Cardinality(A) < Limit[d] + Cardinality(Processes)
            BY <2>3, <2>4, <3>3, <3>4
        <3>6. QED
            BY <3>5 DEF A
    <2>7. QED
        BY <2>5, <2>6
<1>12. QED
    BY <1>5, <1>6, <1>7, <1>8, <1>9, <1>10, <1>11 DEF LimitInv

\* zadd: the request is in the window from here on.
LEMMA AddStep ==
    ASSUME LimitInv, NEW r \in Requests, Add(r)
    PROVE  LimitInv'
<1> DEFINE c == requests[r].client
           x == [requests[r] EXCEPT !.pc = "Expire"]
           m0 == [request |-> r, score |-> requests[r].at]
<1>1. /\ requests[r].pc = "Add" /\ UNCHANGED <<now, expiry, dropped>> /\ Waits(r)
      /\ requests' = [requests EXCEPT ![r] = x]
      /\ members' = [members EXCEPT ![c] = members[c] \cup {m0}]
    BY DEF Add, Advance, Key, Member
<1>2. /\ LimitTypes /\ requests[r].pc # "Unsent" /\ requests[r].pc \in Running
      /\ c \in Clients /\ requests[r] \in RunningRequests /\ requests[r].at \in Nat
      /\ requests[r].pc \in Executing
    BY <1>1, RequestShape DEF LimitInv, Running, Executing
<1>3. /\ x \in RunningRequests /\ x.pc = "Expire" /\ x.client = c /\ x.at = requests[r].at
      /\ x.process = requests[r].process /\ x.count = requests[r].count
    BY <1>2, Advanced DEF Running
<1> HIDE DEF x
<1>4. /\ requests' \in [Requests -> {Unsent} \cup RunningRequests \cup AnsweredRequests]
      /\ requests'[r] = x /\ \A q \in Requests \ {r} : requests'[q] = requests[q]
      /\ ClockInv' /\ Onward
    BY <1>1, <1>2, <1>3, RequestGoesOn
<1>5. /\ members' \in [Clients -> SUBSET [request : Requests, score : Nat]]
      /\ \A d \in Clients : d # c => members'[d] = members[d]
      /\ members'[c] = members[c] \cup {m0}
    BY <1>1, <1>2 DEF LimitTypes
<1>6. LimitTypes'
    BY <1>1, <1>2, <1>4, <1>5 DEF LimitTypes, Onward
<1>7. MembersInv'
    <2> SUFFICES ASSUME NEW d \in Clients, NEW m \in members'[d]
                 PROVE  /\ requests'[m.request].pc \notin {"Unsent", "Evict", "Count", "Add"}
                        /\ requests'[m.request].client = d /\ requests'[m.request].at = m.score
        BY DEF MembersInv
    <2>1. CASE m \in members[d]
        <3>1. /\ requests[m.request].pc \notin {"Unsent", "Evict", "Count", "Add"}
              /\ requests[m.request].client = d /\ requests[m.request].at = m.score
            BY <2>1 DEF LimitInv, MembersInv
        <3>2. m.request \in Requests
            BY <1>2, <2>1 DEF LimitTypes
        <3>3. QED
            BY <1>1, <1>4, <3>1, <3>2
    <2>2. CASE m \notin members[d]
        <3>1. d = c /\ m = m0
            BY <1>5, <2>2
        <3>2. QED
            BY <1>3, <1>4, <3>1
    <2>3. QED
        BY <2>1, <2>2
<1>8. WindowInv'
    <2> SUFFICES ASSUME NEW q \in Requests \ dropped, requests'[q].pc \in Added,
                        requests'[q].at + windowMs > now
                 PROVE  /\ [request |-> q, score |-> requests'[q].at] \in members'[requests'[q].client]
                        /\ requests'[q].pc # "Expire" =>
                              expiry[requests'[q].client] >= requests'[q].at + windowMs
        BY <1>1 DEF WindowInv, Member, Key
    <2>1. CASE q = r
        BY <1>3, <1>4, <1>5, <2>1
    <2>2. CASE q # r
        <3>1. requests'[q] = requests[q] /\ requests[q].client \in Clients
            BY <1>2, <1>4, <2>2, RequestShape DEF Added
        <3>2. /\ [request |-> q, score |-> requests[q].at] \in members[requests[q].client]
              /\ requests[q].pc # "Expire" => expiry[requests[q].client] >= requests[q].at + windowMs
            BY <3>1 DEF LimitInv, WindowInv, Member, Key
        <3>3. QED
            BY <1>5, <3>1, <3>2
    <2>3. QED
        BY <2>1, <2>2
<1>9. DroppedInv'
    BY <1>1, <1>4, DroppedKept
<1>10. CountedInv'
    <2>1. ASSUME NEW q \in Requests, requests'[q].pc = "Count", NEW m \in members'[requests'[q].client]
          PROVE  m.score + windowMs + slowest' > requests'[q].at
        <3>1. q # r /\ requests'[q] = requests[q] /\ requests[q].pc = "Count" /\ requests[q].pc # "Unsent"
              /\ requests[q].client \in Clients /\ requests[q].at \in Nat
            BY <1>2, <1>3, <1>4, <2>1, RequestShape
        <3>2. slowest \in Nat /\ slowest' \in Nat /\ slowest <= slowest' /\ now <= requests[r].at + slowest'
              /\ windowMs \in Nat \ {0} /\ now \in Nat
            BY <1>1, <1>2, <1>4, LimitAssumption DEF LimitTypes, Onward, Waits
        <3>3. CASE m \in members[requests[q].client]
            <4>1. m.score + windowMs + slowest > requests[q].at
                BY <3>1, <3>3 DEF LimitInv, CountedInv, Key
            <4>2. m.score \in Nat
                BY <1>2, <3>1, <3>3 DEF LimitTypes
            <4>3. QED
                BY <3>1, <3>2, <4>1, <4>2
        <3>4. CASE m \notin members[requests[q].client]
            <4>1. m.score = requests[r].at
                BY <1>5, <2>1, <3>1, <3>4
            <4>2. requests[q].at <= now
                BY <3>1 DEF LimitInv, ClockInv
            <4>3. QED
                BY <1>2, <3>1, <3>2, <4>1, <4>2
        <3>5. QED
            BY <3>3, <3>4
    <2>2. requests[r].count <= Cardinality(Around(r)) /\ requests[r].count \in Nat
        BY <1>1, <1>2, RequestShape DEF LimitInv, CountedInv
    <2>3. requests[r].count <= Cardinality(Around(r)')
        <3>1. Cardinality(Around(r)) \in Nat /\ Cardinality(Around(r)') \in Nat
              /\ Cardinality(Around(r)) <= Cardinality(Around(r)')
            BY <1>2, <1>4, AroundGrows
        <3>2. QED
            BY <2>2, <3>1
    <2>4. QED
        BY <1>3, <1>4, <1>6, <2>1, <2>3, CountedKept
<1>11. AdmittedInv'
    BY <1>1, <1>3, <1>4, AdmittedStays
<1>12. QED
    BY <1>4, <1>6, <1>7, <1>8, <1>9, <1>10, <1>11 DEF LimitInv

\* pexpire: the key lives for a window from the newest request on.
LEMMA ExpireKeyStep ==
    ASSUME LimitInv, NEW r \in Requests, Expire(r)
    PROVE  LimitInv'
<1> DEFINE c == requests[r].client
           x == [requests[r] EXCEPT !.pc = "Decide"]
<1>1. /\ requests[r].pc = "Expire" /\ UNCHANGED <<now, members, slowest, dropped>>
      /\ requests' = [requests EXCEPT ![r] = x]
      /\ expiry' = [expiry EXCEPT ![c] = IF members[c] = {} THEN expiry[c] ELSE now + windowMs]
    BY DEF Expire, Advance, Key
<1>2. /\ LimitTypes /\ requests[r].pc # "Unsent" /\ requests[r].pc \in Running
      /\ c \in Clients /\ requests[r] \in RunningRequests /\ requests[r].at \in Nat
    BY <1>1, RequestShape DEF LimitInv, Running
<1>3. /\ x \in RunningRequests /\ x.pc = "Decide" /\ x.client = c /\ x.at = requests[r].at
      /\ x.process = requests[r].process /\ x.count = requests[r].count /\ x.pc \notin Executing
    BY <1>2, Advanced DEF Running, Executing
<1> HIDE DEF x
<1>4. /\ requests' \in [Requests -> {Unsent} \cup RunningRequests \cup AnsweredRequests]
      /\ requests'[r] = x /\ \A q \in Requests \ {r} : requests'[q] = requests[q]
      /\ ClockInv' /\ Onward
    BY <1>1, <1>2, <1>3, RequestGoesOn
<1>5. /\ expiry' \in [Clients -> Nat]
      /\ \A d \in Clients : expiry'[d] = expiry[d] \/ (d = c /\ expiry'[d] = now + windowMs)
      /\ members[c] # {} => expiry'[c] = now + windowMs
    BY <1>1, <1>2, LimitAssumption DEF LimitTypes
<1>6. LimitTypes'
    BY <1>1, <1>2, <1>4, <1>5 DEF LimitTypes
<1>7. MembersInv'
    BY <1>1, <1>3, <1>4, MembersKept
<1>8. WindowInv'
    <2> SUFFICES ASSUME NEW q \in Requests \ dropped, requests'[q].pc \in Added,
                        requests'[q].at + windowMs > now
                 PROVE  /\ [request |-> q, score |-> requests'[q].at] \in members[requests'[q].client]
                        /\ requests'[q].pc # "Expire" =>
                              expiry'[requests'[q].client] >= requests'[q].at + windowMs
        BY <1>1 DEF WindowInv, Member, Key
    <2>1. /\ requests'[q].at = requests[q].at /\ requests'[q].client = requests[q].client
          /\ requests[q].pc \in Added /\ requests[q].pc # "Unsent"
          /\ requests'[q].pc # "Expire" => requests[q].pc # "Expire" \/ q = r
        BY <1>1, <1>3, <1>4 DEF Added
    <2>2. requests[q].client \in Clients /\ requests[q].at \in Nat
        BY <1>2, <2>1, RequestShape
    <2>3. /\ [request |-> q, score |-> requests[q].at] \in members[requests[q].client]
          /\ requests[q].pc # "Expire" => expiry[requests[q].client] >= requests[q].at + windowMs
        BY <2>1 DEF LimitInv, WindowInv, Member, Key
    <2>4. requests[q].at <= now /\ now \in Nat /\ windowMs \in Nat
        BY <1>2, <2>1, LimitAssumption DEF LimitInv, ClockInv, LimitTypes
    <2>5. ASSUME requests'[q].pc # "Expire"
          PROVE  expiry'[requests[q].client] >= requests[q].at + windowMs
        <3>1. CASE q = r
            BY <1>5, <2>2, <2>3, <2>4, <3>1
        <3>2. CASE q # r
            BY <1>5, <2>1, <2>2, <2>3, <2>4, <2>5, <3>2
        <3>3. QED
            BY <3>1, <3>2
    <2>6. QED
        BY <2>1, <2>3, <2>5
<1>9. DroppedInv'
    BY <1>1, <1>4, <1>5, DroppedKept
<1>10. CountedInv'
    <2>1. \A q \in Requests : requests'[q].pc = "Count" =>
              \A m \in members'[requests'[q].client] : m.score + windowMs + slowest' > requests'[q].at
        BY <1>1, <1>3, <1>4 DEF LimitInv, CountedInv, Key
    <2>2. requests[r].count <= Cardinality(Around(r)) /\ requests[r].count \in Nat
        BY <1>1, <1>2, RequestShape DEF LimitInv, CountedInv
    <2>3. requests[r].count <= Cardinality(Around(r)')
        <3>1. Cardinality(Around(r)) \in Nat /\ Cardinality(Around(r)') \in Nat
              /\ Cardinality(Around(r)) <= Cardinality(Around(r)')
            BY <1>2, <1>4, AroundGrows
        <3>2. QED
            BY <2>2, <3>1
    <2>4. QED
        BY <1>3, <1>4, <1>6, <2>1, <2>3, CountedKept
<1>11. AdmittedInv'
    BY <1>1, <1>3, <1>4, AdmittedStays
<1>12. QED
    BY <1>4, <1>6, <1>7, <1>8, <1>9, <1>10, <1>11 DEF LimitInv

\* The requests that are dropped together are of different processes.
LEMMA OneOfEach ==
    ASSUME LimitInv, NEW R \in SUBSET Requests, \A r \in R : requests[r].pc = "Expire"
    PROVE  Cardinality(R) <= Cardinality(Processes)
<1> DEFINE f == [r \in R |-> requests[r].process]
<1>1. \A r \in R : requests[r].process \in Processes /\ requests[r].pc \in Executing
    BY RequestShape DEF LimitInv, Running, Executing
<1>2. f \in [R -> Processes]
    BY <1>1
<1>3. \A p, q \in R : f[p] = f[q] => p = q
    BY <1>1 DEF LimitInv, ClockInv
<1> HIDE DEF f
<1>4. QED
    BY <1>2, <1>3, NoLarger, LimitAssumption

\* Time passes: a key that expires has nothing in the window but what is dropped.
LEMMA TickStep ==
    ASSUME LimitInv, Tick
    PROVE  LimitInv'
<1> DEFINE X == {r \in Requests : requests[r].pc = "Expire" /\ Expired(Key(r))}
<1>1. /\ now' = now + 1 /\ requests' = requests /\ slowest' = slowest /\ dropped' = dropped \cup X
      /\ members' = [c \in Clients |-> IF Expired(c) THEN {} ELSE members[c]]
      /\ expiry' = [c \in Clients |-> IF Expired(c) THEN 0 ELSE expiry[c]]
    BY DEF Tick
<1>2. LimitTypes /\ now \in Nat /\ windowMs \in Nat
    BY LimitAssumption DEF LimitInv, LimitTypes
<1>3. LimitTypes'
    BY <1>1, <1>2 DEF LimitTypes
<1>4. Onward
    BY <1>1, <1>2 DEF Onward, LimitTypes
<1>5. ASSUME NEW r \in Requests, requests[r].pc # "Unsent"
      PROVE  requests[r].client \in Clients /\ requests[r].at \in Nat /\ requests[r].at <= now
    BY <1>2, <1>5, RequestShape DEF LimitInv, ClockInv
<1>6. ClockInv'
    <2>1. \A r \in Requests : requests[r].pc # "Unsent" => requests[r].at <= now + 1
        BY <1>2, <1>5
    <2>2. QED
        BY <1>1, <2>1 DEF LimitInv, ClockInv
<1>7. MembersInv'
    BY <1>1 DEF LimitInv, MembersInv
<1>8. WindowInv'
    <2> SUFFICES ASSUME NEW q \in Requests, q \notin dropped, q \notin X, requests[q].pc \in Added,
                        requests[q].at + windowMs > now + 1
                 PROVE  /\ [request |-> q, score |-> requests[q].at] \in members'[requests[q].client]
                        /\ requests[q].pc # "Expire" =>
                              expiry'[requests[q].client] >= requests[q].at + windowMs
        BY <1>1 DEF WindowInv, Member, Key
    <2>1. requests[q].client \in Clients /\ requests[q].at \in Nat
        BY <1>5 DEF Added
    <2>2. /\ [request |-> q, score |-> requests[q].at] \in members[requests[q].client]
          /\ requests[q].pc # "Expire" => expiry[requests[q].client] >= requests[q].at + windowMs
        BY <1>2, <2>1 DEF LimitInv, WindowInv, Member, Key
    <2>3. ~Expired(requests[q].client)
        <3>1. CASE requests[q].pc = "Expire"
            BY <3>1 DEF Key
        <3>2. CASE requests[q].pc # "Expire"
            <4>1. expiry[requests[q].client] \in Nat
                BY <1>2, <2>1 DEF LimitTypes
            <4>2. QED
                BY <1>2, <2>1, <2>2, <3>2, <4>1 DEF Expired
        <3>3. QED
            BY <3>1, <3>2
    <2>4. QED
        BY <1>1, <2>1, <2>2, <2>3
<1>9. DroppedInv'
    <2>1. ASSUME NEW r \in dropped
          PROVE  /\ r \in Requests /\ requests[r].pc # "Unsent"
                 /\ requests[r].client \in Clients /\ requests[r].at \in Nat
                 /\ expiry[requests[r].client] \in Nat
                 /\ requests[r].at + windowMs > now + 1 =>
                       \/ expiry[requests[r].client] = 0
                       \/ expiry[requests[r].client] >= requests[r].at + windowMs
        <3>1. r \in Requests /\ requests[r].pc # "Unsent"
            BY <1>2 DEF LimitInv, DroppedInv, LimitTypes
        <3>2. requests[r].client \in Clients /\ requests[r].at \in Nat
            BY <1>5, <3>1
        <3>3. expiry[requests[r].client] \in Nat
            BY <1>2, <3>2 DEF LimitTypes
        <3>4. requests[r].at + windowMs > now + 1 => requests[r].at + windowMs > now
            BY <1>2, <3>2
        <3>5. QED
            BY <3>1, <3>2, <3>3, <3>4 DEF LimitInv, DroppedInv, Key
    <2>2. ASSUME NEW r \in dropped'
          PROVE  /\ requests'[r].pc # "Unsent"
                 /\ requests'[r].at + windowMs > now' =>
                       expiry'[Key(r)'] = 0 \/ expiry'[Key(r)'] >= requests'[r].at + windowMs
        <3>1. CASE r \in dropped
            BY <1>1, <2>1, <3>1 DEF Key
        <3>2. CASE r \in X
            <4>1. requests[r].pc = "Expire" /\ Expired(requests[r].client) /\ requests[r].client \in Clients
                BY <1>5, <3>2 DEF Key
            <4>2. QED
                BY <1>1, <4>1 DEF Key
        <3>3. QED
            BY <1>1, <2>2, <3>1, <3>2
    <2>3. ASSUME NEW c \in Clients PROVE Cardinality(Young(c)') <= Cardinality(Processes)
        <3>1. Young(c)' \subseteq Requests /\ Young(c) \subseteq Requests
            BY DEF Young, Sent
        <3>2. CASE Expired(c)
            <4>1. ASSUME NEW r \in Young(c)' PROVE requests[r].pc = "Expire"
                <5>1. r \in dropped \cup X /\ requests[r].client = c /\ requests[r].at + windowMs > now + 1
                    BY <1>1 DEF Young, Sent
                <5>2. r \notin dropped
                    BY <1>2, <2>1, <3>2, <5>1 DEF Expired
                <5>3. QED
                    BY <5>1, <5>2
            <4>2. QED
                BY <3>1, <4>1, OneOfEach
        <3>3. CASE ~Expired(c)
            <4>1. ASSUME NEW r \in Young(c)' PROVE r \in Young(c)
                <5>1. r \in dropped \cup X /\ r \in Sent(c) /\ requests[r].client = c
                      /\ requests[r].at + windowMs > now + 1
                    BY <1>1 DEF Young, Sent
                <5>2. r \in dropped
                    BY <3>3, <5>1 DEF Key
                <5>3. requests[r].at + windowMs > now
                    BY <1>2, <2>1, <5>1, <5>2
                <5>4. QED
                    BY <5>1, <5>2, <5>3 DEF Young
            <4>2. /\ Cardinality(Young(c)') \in Nat /\ Cardinality(Young(c)) \in Nat
                  /\ Cardinality(Young(c)') <= Cardinality(Young(c))
                BY <3>1, <4>1, RequestsFinite, FS_Subset
            <4>3. Cardinality(Young(c)) <= Cardinality(Processes) /\ Cardinality(Processes) \in Nat
                BY LimitAssumption, FS_CardinalityType DEF LimitInv, DroppedInv
            <4>4. QED
                BY <4>2, <4>3
        <3>4. QED
            BY <3>2, <3>3
    <2>4. QED
        BY <2>2, <2>3 DEF DroppedInv
<1>10. CountedInv'
    BY <1>1, <1>2, <1>5 DEF LimitInv, CountedInv, Around, Sent, Key
<1>11. AdmittedInv'
    BY <1>1, <1>4, AdmittedStays
<1>12. QED
    BY <1>3, <1>6, <1>7, <1>8, <1>9, <1>10, <1>11 DEF LimitInv

\* Every step keeps the invariant.
LEMMA LimitStep ==
    ASSUME LimitInv, [LimitNext]_limitVars
    PROVE  LimitInv'
<1>1. CASE UNCHANGED limitVars
    BY <1>1, SMTT(30) DEF limitVars, LimitInv, LimitTypes, ClockInv, MembersInv, WindowInv, DroppedInv, Young,
       CountedInv, AdmittedInv, Admitted, Around, Sent, Key, Member
<1>2. CASE Tick
    BY <1>2, TickStep
<1>3. ASSUME NEW r \in Requests, (\E p \in Processes, c \in Clients : Arrive(r, p, c)) \/ PipelineFails(r)
      PROVE  LimitInv'
    BY <1>3, ArriveStep, PipelineFailsStep
<1>4. ASSUME NEW r \in Requests, Pipeline(r)
      PROVE  LimitInv'
    BY <1>4, EvictStep, CountStep, AddStep, ExpireKeyStep, DecideStep DEF Pipeline
<1>5. QED
    BY <1>1, <1>2, <1>3, <1>4 DEF LimitNext

\* The limiter, of any processes, clients, limits and window, with time passing
\* anywhere, keeps its invariant.
THEOREM LimiterInvariant == LimitSpec => []LimitInv
<1>1. LimitInit => LimitInv
    <2> SUFFICES ASSUME LimitInit PROVE LimitInv
        OBVIOUS
    <2>1. LimitTypes
        BY DEF LimitInit, LimitTypes, Unsent
    <2>2. \A r \in Requests : requests[r].pc = "Unsent"
        BY DEF LimitInit
    <2>3. ClockInv /\ WindowInv /\ CountedInv
        BY <2>2 DEF ClockInv, WindowInv, CountedInv, Executing, Added
    <2>4. MembersInv
        BY DEF LimitInit, MembersInv
    <2>5. DroppedInv
        <3>1. \A c \in Clients : Young(c) = {}
            BY <2>2 DEF Young, Sent
        <3>2. Cardinality({}) = 0 /\ Cardinality(Processes) \in Nat
            BY LimitAssumption, FS_CardinalityType, FS_EmptySet
        <3>3. QED
            BY <3>1, <3>2 DEF DroppedInv, LimitInit
    <2>6. AdmittedInv
        <3> SUFFICES ASSUME NEW c \in Clients, NEW t \in 0..MaxTime
                     PROVE  Cardinality(Admitted(c, t)) < Limit[c] + Cardinality(Processes)
            BY DEF AdmittedInv
        <3>1. Admitted(c, t) = {}
            BY <2>2 DEF Admitted, Sent
        <3>2. Limit[c] \in Nat \ {0} /\ Cardinality(Processes) \in Nat
            BY LimitAssumption, FS_CardinalityType
        <3>3. QED
            BY <3>1, <3>2, FS_EmptySet
    <2>7. QED
        BY <2>1, <2>3, <2>4, <2>5, <2>6 DEF LimitInv
<1>2. LimitInv /\ [LimitNext]_limitVars => LimitInv'
    BY LimitStep
<1>3. QED
    BY <1>1, <1>2, PTL DEF LimitSpec

\* redisRateLimit, of any number of processes whose pipelines interleave command by
\* command, are held up and may fail: of what is not dropped with its key, no client
\* gets more than its limit, and one for each further process, through in a window
\* shortened by the longest delay; no more than one for each process is
\* dropped in a window; and no client that stays below its limit is rejected.
THEOREM LimiterLetsThroughWhatItShould == LimitSpec => []LimiterSafe
<1>1. LimitInv => LimiterSafe
    <2> SUFFICES ASSUME LimitInv PROVE LimiterSafe
        OBVIOUS
    <2>1. LimitTypeOK
        <3> SUFFICES ASSUME NEW c \in Clients
                     PROVE  /\ \A m \in members[c] : m.score <= now /\ m.request \in Sent(c)
                            /\ \A r \in Sent(c) \ dropped :
                                  (requests[r].pc \in {"Decide", "Next", "TooMany"} /\ requests[r].at + windowMs > now)
                                      => Member(r) \in members[c]
                            /\ Cardinality(Young(c)) <= Cardinality(Processes)
            BY DEF LimitTypeOK, Young
        <3>1. \A m \in members[c] : m.score <= now /\ m.request \in Sent(c)
            BY DEF LimitInv, MembersInv, ClockInv, LimitTypes, Sent
        <3>2. QED
            BY <3>1 DEF LimitInv, WindowInv, DroppedInv, Sent, Key, Added
    <2>2. AllowedWithinLimit
        <3> SUFFICES ASSUME NEW c \in Clients, NEW t \in 0..MaxTime
                     PROVE  Cardinality({r \in Sent(c) \ dropped : /\ requests[r].pc = "Next"
                                            /\ t <= requests[r].at /\ requests[r].at + slowest < t + windowMs})
                                < Limit[c] + Cardinality(Processes)
            BY DEF AllowedWithinLimit
        <3> DEFINE N == {r \in Sent(c) \ dropped : /\ requests[r].pc = "Next"
                            /\ t <= requests[r].at /\ requests[r].at + slowest < t + windowMs}
        <3>1. N \subseteq Admitted(c, t) /\ Admitted(c, t) \subseteq Requests
            BY DEF Admitted, Sent
        <3> HIDE DEF N
        <3>2. /\ Cardinality(Admitted(c, t)) \in Nat /\ Cardinality(N) \in Nat
              /\ Cardinality(N) <= Cardinality(Admitted(c, t))
            BY <3>1, RequestsFinite, FS_Subset
        <3>3. Cardinality(Admitted(c, t)) < Limit[c] + Cardinality(Processes)
            BY DEF LimitInv, AdmittedInv
        <3>4. Limit[c] \in Nat /\ Cardinality(Processes) \in Nat
            BY LimitAssumption, FS_CardinalityType
        <3>5. Cardinality(N) < Limit[c] + Cardinality(Processes)
            BY <3>2, <3>3, <3>4
        <3>6. QED
            BY <3>5 DEF N
    <2>3. QuietClientPasses
        BY DEF LimitInv, CountedInv, QuietClientPasses
    <2>4. QED
        BY <2>1, <2>2, <2>3 DEF LimiterSafe
<1>2. QED
    BY <1>1, LimiterInvariant, PTL

-----------------------------------------------------------------------------
(* Identity providers *)

\* Whom a commitment was derived from, in production.
Attested(d) ==
    \/ \E s \in Subjects : d.commitment = <<s, "GB">> /\ d.from = <<"govuk", s>>
    \/ \E npi, cc : cc \in AllowedCountries /\ d.commitment = <<npi, cc>> /\ d.from = <<"eidas", npi>>

IdInv ==
    /\ env \in Environments
    /\ \/ last = [token |-> Nothing, result |-> Rejected]
       \/ \E t \in ZkTokens : last = [token |-> t, result |-> zkpassport(t)]
    /\ env.production => \A d \in derived : Attested(d)

\* The adapters of the OIDC providers derive what they attest; the mock derives
\* nothing in production.
LEMMA AdaptersAttest ==
    /\ \A t \in OidcTokens : govuk(t) # Rejected => Attested(govuk(t))
    /\ \A t \in OidcTokens : eidas(t) # Rejected => Attested(eidas(t))
    /\ \A t \in MockTokens : env.production => mock(t) = Rejected
<1>1. ASSUME NEW t \in OidcTokens, govuk(t) # Rejected PROVE Attested(govuk(t))
    <2>1. govuk(t) = Derived("govuk", t.sub, "GB") /\ t.sub # Nothing
        BY <1>1 DEF govuk
    <2>2. t.sub \in Subjects
        BY <2>1 DEF OidcTokens
    <2>3. QED
        BY <2>1, <2>2 DEF Derived, deriveCommitment, Attested
<1>2. ASSUME NEW t \in OidcTokens, eidas(t) # Rejected PROVE Attested(eidas(t))
    <2>1. PICK npi, cc : eidas(t) = Derived("eidas", npi, cc) /\ cc \in AllowedCountries
        BY <1>2 DEF eidas
    <2>2. QED
        BY <2>1 DEF Derived, deriveCommitment, Attested
<1>3. \A t \in MockTokens : env.production => mock(t) = Rejected
    BY DEF mock, MockEnabled
<1>4. QED
    BY <1>1, <1>2, <1>3

\* A request is answered, and what is noted stays what it was.
LEMMA VerifyStep ==
    ASSUME IdInv, [Verify]_idVars
    PROVE  IdInv'
<1>1. CASE UNCHANGED idVars
    <2>1. UNCHANGED <<env, last, derived>>
        BY <1>1 DEF idVars
    <2>2. \A t : zkpassport(t)' = zkpassport(t)
        BY <2>1 DEF zkpassport, Configured, verifyFn, Proven, buildQuery, Canonical, Holder
    <2>3. QED
        BY <2>1, <2>2 DEF IdInv, Attested
<1>2. ASSUME NEW adapter, NEW result, Answer(adapter, result), adapter # "zkpassport",
             env.production /\ result # Rejected => Attested(result), UNCHANGED last
      PROVE  IdInv'
    <2>1. env' = env /\ derived' \subseteq derived \cup (IF result # Rejected THEN {result} ELSE {})
        BY <1>2 DEF Answer
    <2>2. \A t : zkpassport(t)' = zkpassport(t)
        BY <2>1 DEF zkpassport, Configured, verifyFn, Proven, buildQuery, Canonical, Holder
    <2>3. env.production => \A d \in derived' : Attested(d)
        BY <1>2, <2>1 DEF IdInv
    <2>4. QED
        BY <1>2, <2>1, <2>2, <2>3 DEF IdInv, Attested
<1>3. ASSUME NEW t \in ZkTokens, Answer("zkpassport", zkpassport(t)),
             last' = [token |-> t, result |-> zkpassport(t)]
      PROVE  IdInv'
    <2>1. env' = env /\ derived' = derived
        BY <1>3 DEF Answer
    <2>2. zkpassport(t)' = zkpassport(t)
        BY <2>1 DEF zkpassport, Configured, verifyFn, Proven, buildQuery, Canonical, Holder
    <2>3. QED
        BY <1>3, <2>1, <2>2 DEF IdInv, Attested
<1>4. QED
    BY <1>1, <1>2, <1>3, AdaptersAttest DEF Verify

\* What ZKPassport accepts is a citizen's, of age, whose own commitment it is.
LEMMA AcceptedIsProven ==
    ASSUME env \in Environments, NEW t \in ZkTokens, zkpassport(t) # Rejected
    PROVE  /\ zkpassport(t).commitment.of = Holder(t)
           /\ zkpassport(t).country = Nationality[Holder(t)]
           /\ Age[Holder(t)] >= MIN_VOTING_AGE
           /\ env.production => t.genuine
<1>1. /\ Configured /\ verifyFn(t) /\ Proven(t)
      /\ zkpassport(t) = [commitment |-> Canonical(t.commitment), country |-> t.country, sybilKey |-> Holder(t)]
    BY DEF zkpassport
<1>2. t.queryResult \in {Results(h, asked, age) : h \in Citizens, asked \in Supported, age \in Ages}
      /\ t.commitment \in Commitments
    BY DEF ZkTokens
<1>3. PICK h \in Citizens, asked \in Supported, age \in Ages : t.queryResult = Results(h, asked, age)
    BY <1>2
<1>4. /\ t.queryResult.eq = [expected |-> asked, result |-> Nationality[h] = asked]
      /\ t.queryResult.gte = [expected |-> age, result |-> Age[h] >= age]
      /\ t.queryResult.bind = [of |-> h, letters |-> "lower"]
      /\ Holder(t) = h
    BY <1>3 DEF Results, Holder
<1>5. /\ t.queryResult.eq = [expected |-> t.country, result |-> TRUE]
      /\ t.queryResult.gte = [expected |-> MIN_VOTING_AGE, result |-> TRUE]
      /\ Lower(t.queryResult.bind) = Lower(t.commitment)
    BY <1>1 DEF Proven, buildQuery, Canonical
<1>6. asked = t.country /\ Nationality[h] = asked
    <2>1. [expected |-> asked, result |-> Nationality[h] = asked] = [expected |-> t.country, result |-> TRUE]
        BY <1>4, <1>5
    <2>2. [expected |-> asked, result |-> Nationality[h] = asked].result = TRUE
        BY <2>1
    <2>3. [expected |-> asked, result |-> Nationality[h] = asked].expected = t.country
        BY <2>1
    <2>4. QED
        BY <2>2, <2>3
<1>7. age = MIN_VOTING_AGE /\ Age[h] >= age
    <2>1. [expected |-> age, result |-> Age[h] >= age] = [expected |-> MIN_VOTING_AGE, result |-> TRUE]
        BY <1>4, <1>5
    <2>2. [expected |-> age, result |-> Age[h] >= age].result = TRUE
        BY <2>1
    <2>3. [expected |-> age, result |-> Age[h] >= age].expected = MIN_VOTING_AGE
        BY <2>1
    <2>4. QED
        BY <2>2, <2>3
<1>8. Lower(t.commitment).of = h
    BY <1>4, <1>5 DEF Lower
<1>9. env.production => t.genuine
    BY <1>1 DEF Configured, verifyFn
<1>10. QED
    BY <1>1, <1>4, <1>6, <1>7, <1>8, <1>9 DEF Canonical

\* The adapters, of any subjects, citizens and tokens: where the United Kingdom is
\* none of the eIDAS countries, as in the list the adapter has for when none is
\* configured, no two subjects get one commitment in production; a commitment
\* ZKPassport vouches for is its holder's; and an adult who proves it passes.
THEOREM ProvidersGiveToEachTheirOwn ==
    ASSUME "GB" \notin AllowedCountries
    PROVE  IdSpec => []ProvidersSafe
<1>1. IdInit => IdInv
    BY DEF IdInit, IdInv
<1>2. IdInv /\ [Verify]_idVars => IdInv'
    BY VerifyStep
<1>3. IdInv => ProvidersSafe
    <2> SUFFICES ASSUME IdInv PROVE ProvidersSafe
        OBVIOUS
    <2>1. CommitmentNamesOneSubject
        <3> SUFFICES ASSUME NEW d \in derived, NEW e \in derived, d.commitment = e.commitment,
                            Attested(d), Attested(e)
                     PROVE  d.from = e.from
            BY DEF CommitmentNamesOneSubject, IdInv
        <3>1. CASE \E s \in Subjects : d.commitment = <<s, "GB">> /\ d.from = <<"govuk", s>>
            <4>1. PICK s \in Subjects : d.commitment = <<s, "GB">> /\ d.from = <<"govuk", s>>
                BY <3>1
            <4>2. \A npi, cc : <<npi, cc>> = <<s, "GB">> => npi = s /\ cc = "GB"
                OBVIOUS
            <4>3. QED
                BY <4>1, <4>2 DEF Attested
        <3>2. CASE \E npi, cc : cc \in AllowedCountries /\ d.commitment = <<npi, cc>> /\ d.from = <<"eidas", npi>>
            <4>1. PICK npi, cc : cc \in AllowedCountries /\ d.commitment = <<npi, cc>> /\ d.from = <<"eidas", npi>>
                BY <3>2
            <4>2. \A s, dd : <<s, dd>> = <<npi, cc>> => s = npi /\ dd = cc
                OBVIOUS
            <4>3. QED
                BY <4>1, <4>2 DEF Attested
        <3>3. QED
            BY <3>1, <3>2 DEF Attested
    <2>2. CitizensAreProven
        <3>1. CASE last = [token |-> Nothing, result |-> Rejected]
            BY <3>1 DEF CitizensAreProven
        <3>2. ASSUME NEW t \in ZkTokens, last = [token |-> t, result |-> zkpassport(t)]
              PROVE  CitizensAreProven
            BY <3>2, AcceptedIsProven DEF CitizensAreProven, IdInv
        <3>3. QED
            BY <3>1, <3>2 DEF IdInv
    <2>3. AdultsPass
        <3>1. CASE last = [token |-> Nothing, result |-> Rejected]
            BY <3>1 DEF AdultsPass
        <3>2. ASSUME NEW t \in ZkTokens, last = [token |-> t, result |-> zkpassport(t)]
              PROVE  AdultsPass
            <4> SUFFICES ASSUME env.configured, ~env.devMode, t.genuine, t.salted,
                                t.country = Nationality[Holder(t)], t.commitment.of = Holder(t),
                                t.country \in Supported, Age[Holder(t)] >= MIN_VOTING_AGE,
                                t.queryResult = Results(Holder(t), t.country, MIN_VOTING_AGE)
                         PROVE  zkpassport(t).commitment = [of |-> Holder(t), letters |-> "lower"]
                BY <3>2 DEF AdultsPass
            <4>1. t.commitment \in [of : Citizens, letters : Letters]
                BY DEF ZkTokens, Commitments
            <4>2. Lower(t.commitment) = [of |-> Holder(t), letters |-> "lower"]
                BY <4>1 DEF Lower
            <4>3. /\ t.queryResult.eq = [expected |-> t.country, result |-> TRUE]
                  /\ t.queryResult.gte = [expected |-> MIN_VOTING_AGE, result |-> TRUE]
                  /\ t.queryResult.bind = [of |-> Holder(t), letters |-> "lower"]
                <5> DEFINE n == Nationality[Holder(t)] = t.country
                           a == Age[Holder(t)] >= MIN_VOTING_AGE
                <5>1. n = TRUE /\ a = TRUE
                    OBVIOUS
                <5>2. Results(Holder(t), t.country, MIN_VOTING_AGE) =
                          [eq |-> [expected |-> t.country, result |-> n],
                           gte |-> [expected |-> MIN_VOTING_AGE, result |-> a],
                           bind |-> [of |-> Holder(t), letters |-> "lower"]]
                    BY DEF Results
                <5> HIDE DEF n, a
                <5>3. QED
                    BY <5>1, <5>2
            <4>4. Proven(t)
                BY <4>2, <4>3 DEF Proven, buildQuery, Canonical, Lower
            <4>5. Configured /\ verifyFn(t)
                BY DEF Configured, verifyFn
            <4>6. QED
                BY <4>2, <4>4, <4>5 DEF zkpassport, Canonical
        <3>3. QED
            BY <3>1, <3>2 DEF IdInv
    <2>4. QED
        BY <2>1, <2>2, <2>3 DEF ProvidersSafe
<1>4. QED
    BY <1>1, <1>2, <1>3, PTL DEF IdSpec

=============================================================================
