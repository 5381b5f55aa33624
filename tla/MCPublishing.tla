----------------------------- MODULE MCPublishing -----------------------------
(***************************************************************************)
(* Certificates, records, notifications and hardware keys share no state but *)
(* the process, so a behaviour exercises one of them.                        *)
(***************************************************************************)
EXTENDS FIDO2, Certificates, Records, Notification, TLC

CONSTANTS u1, u2
Calls == u1 :> 3 @@ u2 :> 1

\* The users who log in, and the handlers of their requests, are only compared.
Symmetry == Permutations(Users) \cup Permutations(Handlers)

VARIABLE part

vars == <<part, keyVars, certVars, recordVars, noteVars>>

Init ==
    /\ KeyInit /\ CertInit /\ RecordInit /\ NoteInit
    /\ part \in {"Keys", "Certificates", "Records", "Notifications"}
    /\ part # "Keys" => record = [k \in Credentials |-> NoKey]
    /\ part # "Certificates" => initialised /\ declared
    /\ part # "Records" => started /\ decodable

Next ==
    \/ part = "Keys" /\ KeyNext /\ UNCHANGED <<part, certVars, recordVars, noteVars>>
    \/ part = "Certificates" /\ CertNext /\ UNCHANGED <<part, keyVars, recordVars, noteVars>>
    \/ part = "Records" /\ RecordNext /\ UNCHANGED <<part, keyVars, certVars, noteVars>>
    \/ part = "Notifications" /\ NoteNext /\ UNCHANGED <<part, keyVars, certVars, recordVars>>

Spec == Init /\ [][Next]_vars

=============================================================================
