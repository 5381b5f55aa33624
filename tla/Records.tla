------------------------------- MODULE Records -------------------------------
(***************************************************************************)
(* Documents kept in IPFS and named on chain: audit entries (AuditLog-      *)
(* Service, AuditLog) and policy documents (IPFSService, PolicyRegistry).   *)
(* A document is named by its content: call a of record makes document a.   *)
(*                                                                          *)
(* The process's own node keeps blocks in memory, no other node is asked to *)
(* keep them, and it works only after init(), which the server never calls  *)
(* and the backup script does: both are initial states.                     *)
(*                                                                          *)
(* AuditLog.getEntry answers a struct, one dynamic value; the service       *)
(* declares four values, and the decoding throws. A contract that answers   *)
(* as declared and the repository's are both initial states.                *)
(***************************************************************************)
EXTENDS Naturals, Sequences, FiniteSets

CONSTANTS
    Audits,             \* bound: the calls of record
    Policies,           \* policy identifiers
    Documents,          \* uploaded policy documents
    limit               \* entries on a page of the audit list

\* The client asks for pages with entries (20 by default), and no document is the
\* failure to fetch one.
ASSUME PageAssumption == limit \in Nat \ {0} /\ "Error" \notin Audits

VARIABLES
    started,            \* has IPFSService a node?
    node,               \* its blocks
    lost,               \* history: the blocks restarts took
    audits,             \* call of record -> where it is
    decodable,          \* can the service decode what getEntry answers?
    auditor,            \* AuditLog: has the backend's wallet AUDITOR_ROLE?
    entries,            \* AuditLog: _entries, by document
    reader,             \* a client that reads the list page by page
    policies            \* PolicyRegistry: policy -> [cid, active], or Unknown

recordVars == <<started, node, lost, audits, decodable, auditor, entries, reader, policies>>

Unknown == [cid |-> "None", active |-> FALSE]

-----------------------------------------------------------------------------
(* Audit entries *)

Goto(a, pc) == audits' = [audits EXCEPT ![a] = pc]

pinDocument(document) == node' = node \cup {document}

\* Mutant: the document is stored after the entry is recorded.
Record_Late(a) ==
    /\ audits[a] = "Idle"
    /\ Goto(a, IF started THEN "Chain" ELSE "Failed")
    /\ UNCHANGED <<started, node, lost, decodable, auditor, entries, reader, policies>>

\* record: sign and pin.
Record(a) ==
    /\ audits[a] = "Idle"
    /\ IF started THEN pinDocument(a) ELSE UNCHANGED node
    /\ Goto(a, IF started THEN "Chain" ELSE "Failed")
    /\ UNCHANGED <<started, lost, decodable, auditor, entries, reader, policies>>

\* addEntry, called and mined; it reverts without the role.
AddEntry(a) ==
    /\ audits[a] = "Chain"
    /\ entries' = IF auditor THEN Append(entries, a) ELSE entries
    /\ Goto(a, IF auditor THEN "Recorded" ELSE "Failed")
    /\ UNCHANGED <<started, node, lost, decodable, auditor, reader, policies>>

\* The endpoint fails, before or after the entry is made (two records at a time
\* may also take one nonce).
ChainFails(a, made) ==
    /\ audits[a] = "Chain" /\ (made => auditor)
    /\ entries' = IF made THEN Append(entries, a) ELSE entries
    /\ Goto(a, "Failed")
    /\ UNCHANGED <<started, node, lost, decodable, auditor, reader, policies>>

\* revokeRole
Revoke ==
    /\ auditor' = FALSE
    /\ UNCHANGED <<started, node, lost, audits, decodable, entries, reader, policies>>

\* getDocument, from the process's own node.
getDocument(cid) == IF started /\ cid \in node THEN cid ELSE "Error"

\* AuditLogService.verify: the signature is over the document and its signer the
\* entry's actor, so it is valid if entry and document can be read.
verifyEntry(id) ==
    IF decodable /\ getDocument(entries[id + 1]) # "Error" THEN "Valid" ELSE "Error"

\* GET /audit: the identifiers on a page, the newest on page 1.
PageIds(total, page) ==
    {id \in 0..total : id + page * limit >= total /\ id + (page - 1) * limit < total}

\* The client reads the next page, up to the first that is empty. A page with an
\* entry that cannot be decoded is answered 500, and the client is where it was.
ReadPage ==
    LET ids == PageIds(Len(entries), reader.page)
    IN  /\ ~reader.done
        /\ decodable \/ ids = {}
        /\ reader' = [page |-> reader.page + 1, seen |-> reader.seen \cup ids, done |-> ids = {},
                      from |-> IF reader.page = 1 THEN Len(entries) ELSE reader.from]
        /\ UNCHANGED <<started, node, lost, audits, decodable, auditor, entries, policies>>

-----------------------------------------------------------------------------
(* Policy documents *)

\* POST /ipfs/pin
PinDocument(d) ==
    /\ started
    /\ pinDocument(d)
    /\ UNCHANGED <<started, lost, audits, decodable, auditor, entries, reader, policies>>

\* The registry's owner publishes a policy once, under any CID.
publishPolicy(p, d) ==
    /\ policies[p] = Unknown
    /\ policies' = [policies EXCEPT ![p] = [cid |-> d, active |-> TRUE]]
    /\ UNCHANGED <<started, node, lost, audits, decodable, auditor, entries, reader>>

deactivatePolicy(p) ==
    /\ policies[p] # Unknown
    /\ policies' = [policies EXCEPT ![p].active = FALSE]
    /\ UNCHANGED <<started, node, lost, audits, decodable, auditor, entries, reader>>

-----------------------------------------------------------------------------

\* The process dies and starts again: handlers and blocks are gone.
RestartNode ==
    /\ audits' = [a \in Audits |-> IF audits[a] = "Chain" THEN "Failed" ELSE audits[a]]
    /\ node' = {} /\ lost' = lost \cup node
    /\ UNCHANGED <<started, decodable, auditor, entries, reader, policies>>

RecordInit ==
    /\ started \in BOOLEAN
    /\ node = {} /\ lost = {}
    /\ audits = [a \in Audits |-> "Idle"]
    /\ decodable \in BOOLEAN
    /\ auditor = TRUE
    /\ entries = <<>>
    /\ reader = [page |-> 1, seen |-> {}, done |-> FALSE, from |-> 0]
    /\ policies = [p \in Policies |-> Unknown]

RecordNext ==
    \/ \E a \in Audits : Record(a) \/ AddEntry(a) \/ \E made \in BOOLEAN : ChainFails(a, made)
    \/ \E p \in Policies : deactivatePolicy(p) \/ \E d \in Documents : publishPolicy(p, d)
    \/ \E d \in Documents : PinDocument(d)
    \/ Revoke \/ ReadPage \/ RestartNode

RecordSpec == RecordInit /\ [][RecordNext]_recordVars

-----------------------------------------------------------------------------
(* Properties *)

\* An audit entry on chain names a document that was stored before it and can be
\* fetched until a restart takes it away; if the service can decode entries, the
\* entry verifies until then. (record, getDocument, verify)
EntriesHaveDocuments ==
    \A id \in 0..Len(entries) - 1 :
        /\ getDocument(entries[id + 1]) = "Error" => entries[id + 1] \in lost
        /\ decodable /\ verifyEntry(id) = "Error" => entries[id + 1] \in lost

\* The service says that anyone can verify the complete history: every entry
\* verifies while its document is there. Of the repository's AuditLog, whose
\* entries the service cannot decode, it does not hold. (verify)
EntriesVerify ==
    \A id \in 0..Len(entries) - 1 : verifyEntry(id) = "Error" => entries[id + 1] \in lost

\* A client that reads the audit list to its end has seen every entry there was
\* when it began, though entries were added meanwhile; a list the service cannot
\* decode has no end to come to. (GET /audit)
ReaderMissesNothing == reader.done => 0..reader.from - 1 \subseteq reader.seen

\* No step takes back what is on chain: audit entries are only appended, a policy
\* keeps its document and, once deactivated, is never active again. (addEntry,
\* publishPolicy, deactivatePolicy)
OnChainStays ==
    /\ SubSeq(entries', 1, Len(entries)) = entries
    /\ \A p \in Policies : policies[p] # Unknown =>
          policies'[p].cid = policies[p].cid /\ (policies'[p].active => policies[p].active)

\* After any step records have their documents, readers have missed none, and
\* what was on chain is there. (record, GET /audit, addEntry)
RecordsKept == [][EntriesHaveDocuments' /\ ReaderMissesNothing' /\ OnChainStays]_recordVars

=============================================================================
