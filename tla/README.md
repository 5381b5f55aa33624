# The Vote App: TLA+ models and proofs

This directory holds the formal models of The Vote App: what its contracts and its
backend do, written in TLA+ from the source, checked with TLC on small instances and,
for the safety of every modelled component, proved with TLAPS for every instance.
Paths below are relative to the repository.

## 1. The system

The Vote App lets registered citizens vote on policies. Votes end in one Ethereum
contract, `VoteLedger`; everything else prepares a vote, carries it there, or reports
what is there. A second kind of poll, with encrypted votes, lives in `HomomorphicTally`.

```
 identity provider / passport                      guardians      deployer / timelock
        |                                              |                 |
        v                                              v                 v
 identityRegister.ts --register--> VoterRegistry   PauseGuardian --pause--+
   | Redis claim                                                          |
                                                                          v
 web, mobile --> routes/vote.ts --> BlockchainService --castVote--> +------------+
 SMS, USSD  ----^                                                   | VoteLedger |
 L2VoteCaster --LayerZero--> CrossChainVoteRelay --castVote-------> +------------+
                                                                     | events, reads
             clients <--WebSocket-- WSBroadcaster <-- LiveTallyService
             clients <--HTTP------- TallyService (30 s cache), CertificationService
```

### Inventory

| component | state it keeps | operations | what is hard | what makes it correct | status |
|---|---|---|---|---|---|
| `VoteLedger.sol` | polls (deadline, flag, counters), spent nullifiers, nullifier list, event log, owner, pause | createPoll, castVote, finalisePoll, pause, unpause, ownership | the same fact kept in four places; polls declared twice; finalisation before the deadline | one vote per nullifier; counters, list and log agree; announced results stand | modelled, proved |
| `PauseGuardian.sol` | guardians, proposals with approvals | propose, approve, execute, for pause and unpause; roles | ids without a proposal; revoked guardians; a call into a contract it may not own | a threshold of distinct accounts; flag and target move together; an approved pause works | modelled, proved |
| `VoterRegistry.sol` | commitment -> country, list, registrars | register, setCountryRegistrar, pause, ownership | several registrars at once; the zero code as "none" | each commitment once, for good | modelled, proved |
| self-service registration (`routes/identityRegister.ts`, `UsedIdentifierStore.ts`) | Redis claims, requests in flight, transactions in flight | the register handler | interleaving at every await, crash, lost answers, retries | one commitment per document; truthful answers; every request answered | modelled, proved |
| identity verification (`identity/*`, `routes/identity.ts`) | none but the environment | verify of four adapters | tokens put together from parts; four providers, one space of commitments | a commitment belongs to one subject; who is of age passes | modelled, proved |
| live results (`LiveTallyService.ts`, `WSBroadcaster.ts`) | tallies, last seen block, subscriptions | start, catch-up, event listeners, stop, subscribe | growth of the chain between awaits, replays, restarts; a ledger with other events | of the events it matches, the first vote of every block once; clients end up with the tally | modelled, proved |
| vote relay (`routes/vote.ts`, `VoteService.ts`, `BlockchainService.ts`) | the relay's wallet and transactions | submit, verify, receipt | nonces, lost confirmations, retries, a ledger that closes meanwhile | an answer is true of the chain, for good | modelled, proved |
| cross-chain voting (`L2VoteCaster.sol`, `CrossChainVoteRelay.sol`) | L2 nullifiers, messages in flight | castVote, _lzReceive, wiring | any order, several chains, rejection on arrival | a spent nullifier is one counted vote or one on its way | modelled, proved |
| homomorphic tally (`HomomorphicTally.sol`, `HomomorphicTallyService.ts`) | ciphertext sums, timers, cache | registerPoll, submitEncryptedVote, finaliseDecryption; start, stop, refresh, finalise | timers lost or early, refreshes overtaking each other, arithmetic written twice, ciphertexts nobody checked | a posted count is the sum of the votes | modelled, proved |
| SMS and USSD voting | Redis sets and sessions with TTL | handleInbound, handle | two messages of one number, expiry between screens, empty answers | replies are true; what is recorded is what the last screen showed | modelled, proved |
| web voting page (`VoteClientPage.tsx`, `HardwareWalletSigner.ts`) | screens, choices, device transport | clicks, answers, device steps | late answers on later screens, overlapping submissions, a device that is unplugged | what is sent was chosen; the device is released, unless its close fails | modelled, proved |
| FIDO2 login | challenges with TTL, credentials, counters | options and verify, twice | two answers to one challenge, two writes of one credential, credential ids the client chooses | no replay, no lock-out of a key with an id of its own; a record is one registration's | modelled, proved |
| rate limiting | Redis sorted sets | middleware | four commands that are no transaction, sent after the clock was read, several processes | limit kept up to the number of processes and the delay of a pipeline; quiet clients pass | modelled, proved |
| DAO governance (`routes/governance.ts`) | the wallet's ballot, transactions | propose, vote, list, show | one wallet for all users, shared with the relay; an event declared differently | who is told a ballot stands has one that stands | partly: the governor is OpenZeppelin's; proved |
| tally query (`TallyService.ts`) | 30 s cache | getTally | two reads of a moving chain, stale cache; a ledger with other events | an answer is that of a recent moment, of the events it matches | modelled, proved |
| certification (`CertificationService.ts`, `MultiPinService.ts`) | node's blocks, pins | certify, verify | partial failure, restarts, providers that name a document otherwise | an issued certificate verifies | modelled, proved |
| audit log and policy registry | append-only lists, documents in IPFS | record, addEntry, list; publish, deactivate | document before entry, entries added while a client pages, entries the service cannot decode | recorded implies retrievable; a reader misses nothing | modelled (IPFS partly), proved |
| push notifications | token map, country sets | register, unregister, broadcast | renewal during a broadcast | who registered is reached, who left is not | modelled, proved |
| mobile vote flow, tally clients, gateway discovery | UI phases, sockets, selections | OS callbacks | callbacks in any order | what was confirmed is what is sent | not modelled (section 5) |
| QR stub, anonymity, receipts, DID, gateway manifest, backend shell, circuits, scripts, other web pages, CLI | little or none | - | - | - | not modelled (section 5) |

`PROJECT.json` lists each component with its files and status, and under `hazards` the
places in the code where things can go wrong that a unit test would hardly reach. Every
property below is there for one of these hazards.

## 2. The modules

| module | models | role |
|---|---|---|
| `BallotBox` | - | abstract specification: ballots with unique nullifiers, results that stand |
| `VoteLedger` | `blockchain/contracts/VoteLedger.sol` | the contract; refines `BallotBox` |
| `PauseGuardian` | `blockchain/contracts/PauseGuardian.sol` | the multisig with its target reduced to owner and pause flag |
| `VoterRegistry` | `blockchain/contracts/VoterRegistry.sol` | the registry contract |
| `VoterRegistration` | `backend/src/routes/identityRegister.ts`, `repositories/UsedIdentifierStore.ts` | handler, Redis and transactions, composed with `VoterRegistry` by EXTENDS |
| `VoteLedgerProofs`, `VoterRegistrationProofs` | - | the theorems about the ledger, the registry and registration |
| `CrossChainProofs`, `LiveTallyProofs` | - | the theorems about the vote channels and the live results |
| `AccessProofs` | - | the theorems about `Governance`, `FIDO2`, `RateLimit` and `Identity` |
| `ClientProofs` | - | the theorems about `WebVote` and `PhoneVoting` |
| `OperationsProofs` | - | the theorems about `PauseGuardian`, `Records`, `TallyQuery`, `Certificates` and `Notification` |
| `HomomorphicTallyProofs` | - | the theorems about `BabyJubjub` and `HomomorphicTally` |
| `LiveTally` | `services/LiveTallyService.ts`, `WSBroadcaster.ts` | chain (the events of `VoteLedger.sol`, matched or not), subscriptions, service and WebSocket clients |
| `VoteRelay` | `routes/vote.ts`, `services/VoteService.ts`, `BlockchainService.ts` | the handler and its wallet against a ledger reduced to castVote's guards |
| `CrossChain` | `L2VoteCaster.sol`, `CrossChainVoteRelay.sol` | two-chain voting, composed with `VoteRelay` by EXTENDS: both compete for one nullifier |
| `SealedPoll` | - | abstract specification: sums nobody sees, closed before they are declared, declared once |
| `BabyJubjub` | the curve in `HomomorphicTally.sol` and in `HomomorphicTallyService.ts` | pure functions, both implementations |
| `HomomorphicTally` | the rest of the two | contract, cache, timers, decryption; uses `BabyJubjub`, refines `SealedPoll` |
| `PhoneVoting` | `sms/SMSVoteService.ts`, `ussd/USSDVoteService.ts` and their routes | both services on one Redis |
| `WebVote` | `web/app/vote/VoteClientPage.tsx`, `HardwareWalletSigner.ts` | the page and the device |
| `FIDO2` | `auth/FIDO2Service.ts` | both ceremonies |
| `Identity` | `identity/*.ts` | what the adapters accept and return |
| `RateLimit` | `middleware/rateLimitRedis.ts` | the pipeline, command by command |
| `Governance` | `routes/governance.ts` | the four routes and the wallet |
| `TallyQuery`, `Certificates` | `services/TallyService.ts`; `CertificationService.ts`, `ipfs/MultiPinService.ts` | the second EXTENDS the first |
| `Records` | `AuditLog.sol`, `AuditLogService.ts`, `routes/audit.ts`, `PolicyRegistry.sol`, `ipfs/IPFSService.ts` | what is on chain and the documents it names |
| `Notification` | `services/NotificationService.ts`, `routes/notifications.ts` | tokens, country sets, broadcasts |
| `MC*` | - | small instances for TLC |

`MCClients`, `MCAccess` and `MCPublishing` each hold several components that share no
state. Their variable `part` says which of them a behaviour exercises, so a run explores
the sum of the parts and not their product. Where components do share state they are
composed for real: `VoterRegistration` with `VoterRegistry`, `CrossChain` with
`VoteRelay`, `Certificates` with `TallyQuery`.

### How state and actions correspond to the code

Everywhere: an external function of a contract is one action, since a transaction is
atomic; a call that reverts changes nothing and is no action. In the backend a step runs
from one `await` to the next, and requests interleave between steps. Variables marked
"history" are read by properties only. Operators marked "Mutant" are not part of a
specification: each is a plausible slip in the definition it precedes, and `PROJECT.json`
names the property that slip would violate.

**VoteLedger.** A transaction is atomic, so an external function is one action. A call
that reverts changes nothing and is not an action; its guards are the conjuncts of the
action. The fields of `struct Poll` are functions of the poll id. A poll id stands for
the hash of policy and country, which is injective because the country code has a fixed
width. The SNARK verifier is external: only accepted proofs reach the effects of
`castVote`. The event log keeps the two events that readers count (`VoteCast`,
`PollFinalised`). The UUPS upgrade, which replaces the code, is left out.

**PauseGuardian.** Solidity mappings answer for every key, so `approveUnpause` and
`executeUnpause` can be called with an id no proposal has; `Ids` reaches one id past the
last proposal and the actions apply to it. `executePause` calls the target: the model's
target reverts when the guardian does not own it or when it is in the requested state
already, and then the whole call reverts. `AccessControl` and the target's other owners
are actions of their own. `cosigned` and `inherited` are history variables, read by
properties only.

**VoterRegistry** is one action per external function, as above. `Appointed` is the set
of codes for which the owner appoints registrars.

**VoterRegistration.** A request takes one step per `await`: `ClaimDocument` (SET NX),
`ReadClaim` (GET), `CheckRegistered`, `SubmitRegistration`, `AwaitReceipt`,
`ReleaseClaim`. Between two steps other requests run, the chain mines (`MineRegistration`,
in any order), the registry's owner and other registrars act (`RegistryActs`), calls fail
(`CallFails`, `RpcError`) and the process may crash, which leaves Redis and the chain as
they are. What an adapter verified is the request's document and commitment; an adapter
that derives the commitment returns no sybil key and the document is not claimed.
`claimed` is the handler's local variable, `accepted` a history variable.

**LiveTally.** The chain is the sequence of its events, each with its block. The service
runs in one JavaScript process: a callback is one step, and the chain may grow between
any two of them and between the awaits of `start`. The two `contract.on` subscriptions
are independent readers with a position each. WebSocket keeps the order of messages, so
a client is what it was sent last. Events delivered a second time, failing catch-up
queries, `stop`, restarts in the same process and crashes are actions. `origin` is a
history variable that says how the process came by its tallies; `base` is the point of
the chain where its subscription began. The ABI the service declares (lines 26-29) is not
the repository's ledger's: `VoteLedger.sol` emits `VoteCast(bytes32,bytes32,bytes32)` and
`PollFinalised` (70-71), other topics, of keccak(policyId, countryCode) where the service
has `ethers.id(policyId)`. `declared`, chosen at the start and read by `Matched`, tells a ledger
with the declared events from this one, of which no event is matched. `Tracked` is any set
of policies: nothing in the repository calls `trackPolicy`, so there it is empty.
`index.ts` calls `start` once, without a block; a block as argument, `stop` and a second
`start` are the service's interface.

**VoteRelay.** A handler is `Arrive`, `Proved` (proof and age of the timestamp),
`Populate` (estimate and nonce), `Send`, `Receipt`. A clock tick passes the
five minutes of the freshness window (`Window` = 0 in the run): a timestamp of an earlier
tick is stale, one of a later tick lies in the future. The wallet is shared by all requests, so two of them may read one
nonce, and the node takes one transaction per nonce. `RpcFails` may hide a transaction
that arrived: the answer is then "Unknown", an error that promises nothing. `LedgerSwitch`
stands for everything that opens or closes a poll between the estimate and mining. A
voter's requests carry one nullifier, which makes a second request a retry. Policies are
left out: `getResults` asks for keccak(policyId) where `castVote` encodes policy and
country, so the route reports another poll than the one voted in. And `castVote` names the
poll by `abi.encode` (`BlockchainService.ts` 49-54), the contract by `encodePacked`
(`VoteLedger.sol` 118): the ledger of the repository knows no poll by that name and every
estimate of the relay reverts: the behaviours in which the ledger never accepts. The others,
of a poll that both know by one name, are more than this code can do.

**CrossChain.** A message sent is in `messages` until its execution succeeds; LayerZero
keeps a rejected one. The relay calls `castVoteRelay`, which `VoteLedger.sol` does not
have: `hasRelayEntry` is a choice of the initial state, so the run covers the ledger of
this repository, where no message ever gets through, and one with the function.

**BabyJubjub, HomomorphicTally.** The curve is a parameter. The run takes the field with
seven elements, in which every product is carried out and all of `_modExp`, `_modInv`,
`_babyJubAdd` on one side and `modInv`, `bjjAdd`, `bjjScalarMul`, `bsgs` on the other are
evaluated, neutral element and negative points included. A loop is a function from the
number of its rounds to the variables it then has: `DoubleAndAdd` is the body of
`bjjScalarMul`'s, `Walk` the sequence of points each of `bsgs`'s loops looks at. `Table`
is the identity; it makes TLC evaluate a function once. A service's job is a step per
call: `CheckResult`, `ReadAccumulated` (with the decryption), `FinaliseDecryption`. `plain`
is a history variable with the sum a perfect tally would find. `setTimeout` cannot hold
more than 2^31-1 milliseconds and fires at once: that is `MaxDelay`. The service's ABI
(line 35) and the contract's public getter (line 72) do not agree on the layout of
`polls()`: decoding throws, which in the timer's callback is an unhandled rejection and ends
the process (`PollsThrows`; `Dies` is what a process loses). `decodable`, chosen at the start, tells a contract that
answers as declared from the repository's. While no verifier is set every proof passes: a voter
may encrypt 2, and the sum is then what was encrypted; or send numbers that are no ciphertext at
all (`SubmitMalformedVote`). `spoiled` remembers the options that received one; of them the
search finds nothing (`Recovered`), and `_finaliseOption` throws or gives up, which
`_finaliseAll` takes alike. (A sum with points off the curve could by accident decrypt to a
number; the model has none that does.)

**PhoneVoting.** The SMS handler is `handleInbound`, `CheckVoted` (SISMEMBER),
`submitToChain`, `RecordVoted` (SADD); the submission is the stub the code has. A USSD
session is the state in Redis, `phone` the screen its caller sees: the key pressed is read
against the session there is, which may have expired and begun anew. The gateway sends the
text of the whole call, of which the service keeps the last part that is not empty (line 56):
of an empty answer, or `*`, that is the key pressed before (`LastPart`). `input` is what was
entered, `key` what the service reads. The gateway has one
request per call in flight; deliveries repeated by a gateway are not modelled. The two
services use different salts and sets, so a number may vote once with each: the model
has it so, and `RecordedOnce` is stated per service.

**WebVote.** Screens say what can be clicked. `loading` and `choosing` are requests in
flight, whose answers change the page whatever it shows by then. `attempts` are
submissions, each with the choices captured by its closure (`chosen`), what the device
signed and what was sent. `app` is the app on which the call in progress was made, which may
be another than the signer holds by now. `Close` and `Clear` are the two halves of
`disconnect`; between them, or instead of the second, the close may fail (`CloseFails`), and
`unclosed` remembers of which transports it did. The route for a policy's options is not one this backend has,
so the API is external. The page takes any JSON for a receipt; `Confirmed` is therefore
possible after a refusal, and no property says otherwise.

**FIDO2.** A handler is a step per Redis command, those that make the options too
(`getMembers`, `getRecord`, `storeChallenge`); the two writes of a new credential are issued
together and land in any order, over whatever is there. The browser answers a challenge
once, the answer may be posted several times, by two handlers at once and for another user.
Attestation is "none", so a registration is a new key pair (`keyring`, by the number of its challenge)
under any credential id, of another key or another user too. What the WebAuthn library
checks (challenge, key, growing counter) is external.

**Identity.** A request shares nothing with another and is one step; `last` and `derived`
remember what was answered. `OidcTokens`, `MockTokens` and `ZkTokens` are all
combinations of claims; the environment is chosen once.

**RateLimit.** `Arrive` reads the clock and sends the pipeline; `Evict`, `Count`, `Add`,
`Expire` are its four commands, `Decide` the comparison. Time passes anywhere, between the
reading of the clock and the first command too. A process has one connection, so its
pipelines run one after the other in the order they were sent (`IsNext`), and interleave with
those of other processes. Redis fails open, as in the code. A key whose members are all
evicted is gone, and its time to live with it; a key that `Add` makes has none until
`Expire`, and keeps none when the pipeline fails between the two. Redis may drop the key
between `Add` and `Expire`, and the member just added with it. Two history variables serve
the bound: `slowest`, the longest time from a request's clock to its `zcard` or `zadd`, and
`dropped`, the requests whose member went that way. Processes and Redis have one clock, and
a command that was sent is executed at most once.

**Governance.** `Estimate`, `Submit`, `Wait` for the two writing routes, `List` and `Show`
for the reading ones. Every user votes with the backend's wallet, so the governor holds
one ballot of it per proposal; the vote relay takes nonces of the same wallet
(`RelayUsesWallet`). The ABI the route declares has `proposalId` indexed, the event of
OpenZeppelin's governor has no indexed argument: as soon as there is a proposal the log
cannot be decoded and the list is answered with an error (`Decodable`). Without
`VOTE_GOVERNOR_ADDRESS` the routes call the zero address, where a vote is mined as a plain
transaction with no effect; the model has the configured case.

**TallyQuery, Certificates.** `QueryVotes` and `QueryFinal` are the two queries of
`getTally`; the cache is written when the second ends, whichever query began first. They ask
for the events the live feed listens for, so `declared` tells the two ledgers apart here too. A
certificate goes on with `Certify` (PDF, signature, local node) and `Pin` (three
providers; a failed answer may hide a document that arrived, and a success may name another
CID than the node's, which is only logged while the node's is answered: `diverged` remembers
the documents confirmed under other CIDs only). The node works after
`init`, which a script calls and the server does not: both are initial states.

**Records.** A document is named by its content, so the call that makes it stands for it.
`RestartNode` takes the blocks of the process's own node. `ReadPage` is one request of a
client that reads the audit list to its end. `getEntry` answers a struct, encoded as one
dynamic value (`AuditLog.sol` 76), where the service declares four flat ones
(`AuditLogService.ts` 31): decoding throws. `decodable`, chosen at the start, tells a
contract that answers as declared from the repository's, of which no entry verifies and no
page with an entry is answered.

**Notification.** A step per Redis round trip; the commands of a `Promise.all` leave one
after the other on one connection and are one step. Routes answer before the work is
done; a failure there is an unhandled rejection and ends the process (`Dies`). `without`
is history: who had left when a broadcast began and has not asked to register since.

## 3. What the runs check

Passing runs:

| run | states (about) | what it shows |
|---|---|---|
| `ledger` | 76 000 | in every order of calls by owner and voters, with polls created twice, pauses and changes of owner: one vote per nullifier, list = counters = log, announced results stand, votes within their deadline, nothing recorded is altered, and the ledger implements `BallotBox` |
| `pause_guardian` | 580 000 | approvals count distinct accounts under grants and revocations; the target's switch follows the executed proposals one by one; an approved pause of a ledger the guardian owns takes effect |
| `registration` | 1 330 000 | three requests of a passport and of an account at a provider: a document gets at most one commitment, and `RegisteredIsClaimed`, the invariant that explains it |
| `registration_live` | 69 000 | with repeated requests and failing RPC endpoints, two countries: 201 and "already registered" are true of the contract, the commitment list is exact and permanent, every request is answered |
| `live_tally` | 710 000 | with two events in a block, through replays, crashes, failed catch-ups, stops and restarts, of a ledger with the declared events and of the repository's: a service started without a block counts the first vote of every block once, nothing caught up is counted again (`TalliesAreRight`), clients show the tally in the end (of the repository's ledger: none), and no client's total goes back |
| `homomorphic` | 438 000 | a posted result is the sum of what was encrypted, whatever crashed, was lost, stopped or came early; votes and results are those of a `SealedPoll`; `TallySettles`: a stale snapshot does not stay in the cache, and where `polls()` answers as declared, a timer that survives finalises every option the search can recover, whatever malformed ciphertexts or too large sums the others hold |
| `vote_channels` | 290 000 | requests to the relay and messages of two L2 chains compete for one nullifier: one vote is counted over all channels, and what was spent on L2 is counted or on its way (`VotesArriveOnce`); 201 means this request's vote, a refusal that it is not counted and will not be (`AnswersAreTrue`); every request is answered |
| `clients` | 149 000 | `PhoneSafe`: text replies are true, no number is recorded again after it was told so, a USSD vote is the one on the screen that was answered, and not with another key than 1. `WebSafe`: what is sent and signed is what was chosen when the button was pressed, and no connection to the device is kept but one whose close failed. `ClientsSettle`: every message is answered and the page comes to rest |
| `access` | 680 000 | `ProvidersSafe`: commitments of one subject, proven citizens, adults who pass. `LimiterSafe`: the limit, up to one for each further process and the longest delay of a pipeline, and quiet clients pass. `GovernanceSafe`: who is told a ballot stands has the ballot that stands, and readers see it |
| `publishing` | 760 000 | `KeysSafe`: no replay; a record is one registration's, though another may replace it; where no two keys share a credential id, what is registered is complete and counters lock no one out. `CertificatesSafe`: an answer is the tally of a moment at most a cache life and two queries back, of the events the queries match; issued certificates verify for ever, or until a restart where no provider confirmed the node's CID. `RecordsKept`: audit entries have their document until a restart takes it, a reader misses none, what is on chain stays. `BroadcastsSafe`: who registered is reached, who left is not |

Properties that belong together are conjunctions of named parts, each with its own
comment in the module (`KeysSafe` is five of them); TLC names the conjunction, and the
trace shows which part failed.

Runs that end in a counterexample, each a statement of the repository's own text that the
code does not keep (`findings` in `PROJECT.json` quotes the text):

| run | statement | what happens instead |
|---|---|---|
| `registration_rpc` | the same ID cannot register twice | an RPC error is taken for a rejection while the transaction is on its way |
| `live_tally_block` | each VoteCast event increments a tally | the replay guard drops all but the first vote of a block |

The passing runs exclude what each counterexample needs: `RpcMayFail` is FALSE in
`registration`, and `TalliesAreRight` is about the first vote of a block.

Other statements of the repository's text that the models refute. They are definitions of the
modules, each quoting its line; TLC refutes each as the INVARIANT (`AutoFinalises`: the
PROPERTY) of the named cfg, in place of what is there:

| definition, cfg | statement | what happens instead |
|---|---|---|
| `LedgerVotesCounted`, `MCLiveTally` | the feed subscribes to the ledger's votes (`LiveTallyService.ts` 7) | `VoteLedger.sol` emits other events (70-71) than the service listens for (26-29), so no vote is counted; and nothing calls `trackPolicy`, whose `ethers.id(policyId)` is not the poll's name either |
| `AnswersCountVotes`, `MCPublishing` | all votes of a policy are aggregated from on-chain events (`TallyService.ts` 52) | the queries (34-37) ask for the same events: every tally is zero |
| `AutoFinalises`, `MCHomomorphicTally` | polls that have closed are finalised (`HomomorphicTallyService.ts` 189) | `polls()` is declared (35) with the tally key, which the public getter (`HomomorphicTally.sol` 72) leaves out: decoding throws at 216, 238 and 260; in the timer's callback nothing catches it and the process ends |
| `EntriesVerify`, `MCPublishing` | anyone can verify the history (`AuditLogService.ts` 10) | `getEntry` is declared (31) flat and answers a struct (`AuditLog.sol` 76): decoding throws, `verify` never answers, and `GET /audit` answers 500 for every page with an entry |
| `ConfirmedByKey`, `MCClients` | a confirmation prompt (`USSDVoteService.ts` 15) | an empty answer, or `*`, is read as the 1 pressed before it (56), and the vote is recorded |
| `OneVotePerNumber`, `MCClients` | one vote per number and policy (`SMSVoteService.ts` 15) | two messages both pass the check before either is recorded; or `sadd` fails after a submission |
| `Disconnected`, `MCClients` | disconnect releases the transport (`HardwareWalletSigner.ts` 116) | when `close()` rejects (119), as of an unplugged device, the lines after it do not run and the signer keeps transport, app and address |
| `ChallengesAreOneTime`, `MCPublishing` | challenges are one-time-use (`FIDO2Service.ts` 21) | two requests that overlap read one challenge before either deletes it, and both succeed |
| `NoDuplicates`, `MCPublishing` | registered credentials are excluded (`FIDO2Service.ts` 65) | options exclude the user's own only; a registration under an id that is taken replaces its record, user and key (89-95, 172-175) |
| `IssuedIsPinned`, `MCPublishing` | the CID of the first successful pin is returned (`MultiPinService.ts` 46) | the node's CID is, whatever the providers named it (72-76) |

And these when a cfg is changed otherwise:

- `registration` with `Overlap = TRUE`: a client that repeats a request that still runs
  lets a document be registered twice, because the request that fails gives back a claim
  the other relies on. (`OneCommitmentPerDocument`)
- `live_tally` with the invariant `NoDoubleCounting` and `MaxStarts = 2`: a service that
  is stopped and started from its last block counts that block twice.
- `pause_guardian` with `PauseIsCoSigned`: approvals given to an id before it has a
  proposal count for the pause that gets the id; with `NextProposalIsOpen`: executing an
  unpause under the next id blocks every later proposal; with `ApprovedPauseTakesEffect`
  and `InitialOwners = {deployer}`: as the scripts deploy it, the guardian does not own
  its target, and the approved pause reverts.

What the properties of the passing runs leave open on purpose, because the code does
not do it:

- of two votes in a block the live feed counts the first, of whatever policy, and an
  untracked policy's vote hides a tracked one's;
- a tally marked final can miss votes cast between its two queries, and stays in the cache;
- two text messages that overlap are recorded twice, and a number may vote by SMS and USSD;
- two posts of one FIDO2 answer that overlap may both succeed; the later of two challenges
  for a user, of either kind, replaces the first; and a login that overlaps a registration
  under the same credential id may write the replaced record back;
- the limiter's clock is read before its pipeline is sent, so a request stamped later may
  evict what one stamped earlier should have counted, and a key that expires between `zadd`
  and `pexpire` takes the member just added with it: the bound is stated less the longest such
  delay, and of the requests not dropped that way;
- a transport whose close failed stays open or stays held;
- a registration for push messages that overlaps a broadcast or another call of its user
  may be undone;
- a timer lost in a restart, or fired early by a delay that is too long, is not set again,
  and the poll is never finalised;
- rejected requests fill the limiter's window too, although its comment (lines 12-14) says
  otherwise, so a client that keeps on asking stays locked out;
- the list of governance proposals is answered with an error once there is a proposal, and
  the second user to vote on one is refused, since all share a wallet;
- the web page reports a refusal as a confirmed vote, and late answers can bring the options
  back under a running submission;
- an audit document lives in the memory of the process that made it;
- one malformed ciphertext, taken while no verifier is set, leaves its option without a result
  for good.

### Bounds

- `ledger`: two polls, two options, three nullifiers, clock up to 3. Two polls and three
  nullifiers let a nullifier be offered in both polls with a third vote between; three
  instants give a deadline before, at and after a vote. `MaxTime` bounds the clock;
  deadlines reach `MaxTime + 1`, so some polls never close. The state is finite without
  further bounds because nullifiers run out. Symmetry in all four sets: they are only
  compared, and the run checks no liveness.
- `pause_guardian`: three accounts, threshold two, `MaxProposals` = 2: a pause and an
  unpause, plus the id after them. A second pause after an unpause needs a third proposal
  and repeats the first with the executed flags of the others, which it does not read.
- `registration`: three requests is the smallest number in which one request holds a
  claim, one repeats it and one competes; two commitments. `registration_live` has two
  requests and two countries; its only account is the relay, which keeps the liveness
  check small. Requests are the bound: each is served once.
- `live_tally`: two sealed blocks (`MaxHeight`) of two events each (`MaxPerBlock`), so that a
  block can hold a vote that is dropped, of the same or of the other policy; two starts, one
  client, one tracked and one untracked policy, one option (`live_tally_block` has one without
  a field too). Two starts make one
  restart, and the restart's catch-up can overlap with one block already seen and one not.
- `homomorphic`: one poll with two options, two voters (one encrypts 1, one 2), one
  instance, `MaxRefreshes` = 2 (two refreshes can overtake each other), clock up to 2 with
  the close at 2; the timer's five seconds are less than a tick (`Buffer` = 0). `MaxVoters` = 2
  makes the sum of both votes on one option one the search cannot recover, so that the loop has
  to go on without it; `MaxDelay` = 1 makes a timer set at once overflow and one set a tick
  later fire at the close. With one instance the contract's refusal of a
  second result is not reached; the proofs hold for any number of instances.
- `vote_channels`: one nullifier, as nullifiers do not interact; two requests and two
  chains, so that every pair of channels competes; timestamps of an earlier tick, of the same and of a later one
  (`Window` = 0).
- `clients`: text messages, calls and the web page share no state, so a behaviour exercises
  one of them. Two text messages, one caller and two policies on pages of one; one policy,
  two submissions and two clicks on the web page. A second caller would share nothing with
  the first.
- `access`: two identity requests, one of them with proofs, an adult and a minor; four requests
  of one client with limit 1 in two processes, a window of 2 and a clock up to 2: four is
  the smallest number in which a request stamped late evicts two that passed before another
  stamped early counts; one proposal and three calls about it. Symmetry in the limiter's
  requests and processes, which are only compared.
- `publishing`: two users, two credential ids of which one is of a key that counts, two handlers
  and two challenges: an overlap, a replacement, and two registrations of one id (symmetry in
  users and handlers); two queries (one certifies), a vote, three providers of which two are
  configured, a cache life and a query of one tick; three audit entries on pages of one, one
  policy document; two users, two countries, two tokens, one broadcast, three requests of
  the user it is about and one of the other.

Deadlock checking is off in every run: the bounded system stops when nullifiers, requests
or blocks run out, as the real one is at rest when nobody calls it.

### Fairness

- `PauseGuardian`: weak fairness of "some guardian executes some pause that can be
  executed". The emergency procedure (docs/DISASTER_RECOVERY.md) ends in that call; no
  fairness is assumed of proposing or approving.
- `VoterRegistration`, `VoteRelay`/`CrossChain`: weak fairness of each request's next step
  (the event loop runs what is ready) and of mining what was sent. None of clients,
  owners, L2 deliveries or failures.
- `LiveTally`: weak fairness of the provider's polling: subscriptions are set up and
  readable events are delivered. None of blocks, voters, clients or restarts.
- `HomomorphicTally`: time passes, due timers fire (and end the process where `polls()`
  throws), started jobs and cache writes are
  carried out, and Redis expires its keys. None of starts, voters or owners; failures of
  calls stay possible.
- `PhoneVoting`, `WebVote`: a handler's next step; on the page, what a submission awaits
  answers or fails, the voter's authenticator and device included. Wallet calls without
  an answer would leave the page waiting, as in the code.

`ledger`, `access` and `publishing` check safety only.

## 4. What is proved

For any polls, options, nullifiers and accounts and any clock bound (`VoteLedgerProofs`):

- `TypeCorrect`: `TypeOK` is invariant.
- `LedgerInvariant`: `LedgerInv` is inductive. It is the conjunction of the five safety
  invariants with `TypeOK` and the strengthening `VotesInThePast`. The strengthening is
  needed because `createPoll` may move a deadline in either direction: that the new one
  lies after the clock protects the votes on record only if these are not later than the
  clock. The others need each other: `OneVotePerNullifier` needs `NullifierListExact`
  (a nullifier on record is spent), and `FinalResultStands` needs `finalised` to guard
  `castVote`.
- `LedgerSafety`: `OneVotePerNullifier`, `FinalResultStands`, `NullifierListExact`,
  `TallyMatchesLog` and `VotesWithinDeadline`; `FinalResultsAreFinal` states the second
  by itself.
- `ListCountsEveryVote`: `ListLengthIsTotal`. The sum of the totals is stated as the number
  of pairs of a poll and a number up to its total, so that no induction over the polls is
  needed: `castVote` adds one such pair and one entry to the list. With it,
  `LedgerRecordsAgree` is the run's `RecordsAgree`.
- `VotesAreImmutable`: `NothingIsAltered`, as an action property from `TypeOK` alone.
- `LedgerImplementsBallotBox`: the refinement. `castVote` is `Drop`, `finalisePoll` is
  `Declare`, all else stutters. That the declared number is the number of ballots needs
  that recorded votes and ballots correspond one to one, hence `OneVotePerNullifier` and
  `TallyMatchesLog`.

For any accounts, threshold and number of proposals (`OperationsProofs`):

- `GuardianTypeCorrect`, and `GuardianInvariant`: `GuardianInv` is inductive. It adds to the
  two safety invariants that every set of approvals is finite: a counter that goes up by
  one matches the cardinality of the set only because an approval is recorded once per
  account, and a cardinality is only known of a finite set. Revocation does not enter: an
  approval stays after the guardian is gone, in the code as in the invariant.
- `GuardianSafety`: `ThresholdOfDistinctAccounts` and `SwitchFollowsProposals`;
  `SwitchIsWhatWasExecuted` is the second by itself.

For any documents, commitments, countries, accounts and requests
(`VoterRegistrationProofs`):

- `RegistrationsArePermanent` and `ListIsExact`, about the contract alone. The list is
  exact only if no registrar is ever appointed for the zero country code, since
  registering for it lists the commitment and leaves it unregistered; that nobody is its
  registrar is the strengthening in `ListInv`.
- `RegistrationImplementsRegistry`: every step of backend, Redis and chain is a step of
  the contract or leaves it alone, so the theorems above hold in the composition.
- `RegistrationTypeCorrect`, and `AnswersAreTruthful`, without any proviso: `AnswerInv`
  also says of a mined transaction that its commitment is registered, which is what an
  answer later relies on.
- `RegisteredDocumentsAreClaimed` and, from it, `OneRegistrationPerDocument`, under
  `~Overlap` and `~RpcMayFail`. `ClaimInv` is the argument: a request past its claim finds
  the claim its own (`HoldersAreClaimed`); the request that made it, the only one that may
  give it back, found the document free, so no other transaction for it is on its way and
  none was mined but its own (`ClaimersAreAlone`); and a request gives a claim back only
  when its transaction was never sent or reverted (`Stages`). Each proviso is used once:
  `~Overlap` when a request with the same document and commitment would rely on a claim
  about to be given back, `~RpcMayFail` when the transaction of the request that gives it
  back would still be on its way. Without either, TLC finds the document registered twice
  (`registration` with
  `Overlap = TRUE`, and the run `registration_rpc`).

For any nullifiers, requests and chains (`CrossChainProofs`):

- `ChannelInvariant`: `ChannelInv` is inductive. `RelayInv` says that a request has one
  transaction at most, in the mempool or mined, that a handler which sent one waits for it
  or has lost sight of it, and that the wallet's nonce is the number of transactions in
  mempool and chain together; `CountInv` ties the counted votes to mined transactions and
  executed messages; `ChainInv` ties a nullifier spent on L2 to its message or its vote.
- From it `ChannelTypeCorrect` (`TypeOK`), `RelayAnswersAreTrue` (`AnswersAreTrue`) and
  `ChannelsArriveOnce` (`VotesArriveOnce`). That a refused request will never be counted
  rests on `RelayInv`: nothing of it is in the mempool.

For any policies, options, clients, blocks and restarts (`LiveTallyProofs`):

- `FeedInvariant`: `FeedInv` is inductive; `FeedTypeCorrect`, `SubscribersShowTheTally`
  (`ClientsShowTheTally`) and `CaughtUpOnce` follow. `OnceInv` bounds a tally by the votes
  the process can have passed, all sealed ones before it subscribes and those up to the
  cursor afterwards. That needs `SeenInv`: what the subscription delivered is not after
  the last seen block.
- `FeedCountsFirstVotes`: `TalliesAreRight`, without a proviso on blocks or ledger: a tally is
  the number of the first votes of their blocks (`FirstVotes`) up to the cursor. `CountInv` adds
  that the last seen block is 0 or that of a vote delivered, so that the replay guard drops
  exactly the votes after the first of a block, and replays; of a ledger whose events are not
  matched nothing is delivered.
- `ShownTotalsGrow`: `ShownNeverShrinks`, as an action property. It needs that no client
  shows more than the service has counted, restarts included.

For any users, credentials, processes, proposals and tokens (`AccessProofs`):

- `GovernanceInvariant` and `GovernanceAnswersAreTrue` (`GovernanceSafe`): a transaction is
  pending or has an outcome, and what a successful one did is still there when its call
  is answered and when a later call reads.
- `HardwareKeyInvariant` and `HardwareKeysAreSafe` (`KeysSafe`), of registrations under any
  credential id: `KeyRecordInv` says that a record is whole (its key was made by its user under its
  id, `Whole`) and, of an id only one key has, that its counter is not ahead of the key's
  (`NotAhead`). `HandlerInv` says the same of the copy that a login has read and is about to
  write back over whatever is there by then. No part is inductive without the others, since
  two handlers may hold one challenge and the two writes of a credential land in any order.
- `LimiterInvariant` and `LimiterLetsThroughWhatItShould` (`LimiterSafe`). The bound counts
  not the requests let through but those of a window that are, or will be (`AdmittedInv`):
  when a request counts fewer members than the limit, the admitted ones that have added
  are among those members, and the others are each of another process, since a process
  runs one pipeline. A request stamped later evicts none of them, as the window is shorter by
  `slowest`. That members stay in the set for a window is `WindowInv`, about the key's time to
  live; of those that went with their key `DroppedInv` says that there is one for each process
  at most, because the key that comes after outlives the window.
- `ProvidersGiveToEachTheirOwn` (`ProvidersSafe`), where the United Kingdom is not among the
  configured eIDAS countries, as in the adapter's default list: both adapters hash subject
  and country alike, so an eIDAS identifier of "GB" could meet a subject of GOV.UK.

For any policies, options, submissions, messages and callers (`ClientProofs`):

- `WebPageInvariant` and `WebPageIsSafe` (`WebSafe`): whatever can still bring the options or
  a submission to the screen has a policy (`ScreenInv`), what a submission sends is what
  its closure captured (`AttemptInv`), and a connection that is open is that of a submission
  under way, or one whose close failed, unless two overlapped (`DeviceInv`).
- `PhoneInvariant` and `PhoneServicesAreSafe` (`PhoneSafe`): a number is marked only after a
  vote of it was submitted, and one told so never gets past the check; a session at the
  confirmation is on its caller's screen (`ConfirmInv`), and a request under way holds the
  session as it was when the screen was answered (`RequestInv`), although the one in Redis may
  expire meanwhile. An empty answer leaves the key that the service reads what it was.

For any queries, providers, entries, pages, users and broadcasts (`OperationsProofs`):

- `RecordInvariant` and `RecordsAreKept` (`RecordsKept`, an action property). The reader's
  part is not inductive as it stands, because the list is paged from its end and grows
  meanwhile. `ReaderInv` says that the client has seen every entry from some length the
  list had on (`SeenDownTo`), and pages only move the other way. Whether the service can decode
  entries enters only where something is said to verify.
- `CertificateInvariant` and `CertificatesCanBeReliedOn` (`CertificatesSafe`). `Since` says that
  a tally counts the chain up to some vote and misses only votes cast at a moment or later,
  with a slack; the cache has the slack of a query, an answer that of a query and the
  cache's life, whichever query wrote the cache last. All this is about the events the queries
  match, of the repository's ledger none. An issued certificate is with a provider under the
  node's CID, or among the diverged, which the node's copy alone can answer for.
- `NoteInvariant` and `BroadcastsReachWhomTheyShould` (`BroadcastsSafe`). A registration
  settles when no other call of the user and no broadcast overlaps it; from then on
  every broadcast reads the device's own token, so no clean-up is about it (`RoundInv`).
  Who has left has no record, and no call under way that could make one, for as long as
  a broadcast may still read it.

For any field, curve and generator that meet the assumptions below, any key, voters,
numbers, polls, options, close times and services (`HomomorphicTallyProofs`):

- `ScalarMulIsTimes`: the loop of `bjjScalarMul` computes p + ... + p (`Times`). The loop
  keeps r + s * c as it is (`RoundKeepsGoal`), while s falls to 0 within as many rounds as
  the scalar says. The multiples are the sequence that starts at the neutral element and
  adds p (`AreMultiples`). That such a sequence exists (`Iteration`), that all numbers have
  a property (`AllNumbers`) and that a set of numbers has a least element are proved in
  terms of sets, from the well-founded order of the naturals, so that no induction over an
  operator is needed.
- `SearchIsExact`: `bsgs` returns k for k * G if k is at most `maxK`, and nothing if it is
  larger, provided the multiples it may confuse are told apart. The steps are at least the
  root of `maxK` (`StepsSquare`), so some giant step meets some baby step (`StepsMeet`); a
  hit is k itself, because a hit h has h * G = k * G and h is at most `maxK`.
- `DecryptionUndoesEncryption`: from a ciphertext that encrypts k (`Encrypts`), whatever the
  nonces, `Decrypted` is k or nothing. `SumEncrypted` says that `_babyJubAdd` of two
  ciphertexts encrypts the sum of their numbers: this is where the contract's arithmetic
  meets the service's.
- `TallyInvariant`: `TallyInv` is inductive. `SumsEncrypted` says of each accumulator that it
  encrypts the plain sum, which is at most `MaxPlaintext` times the number of ciphertexts:
  with `OneCiphertextPerNullifier` that bounds the sum by `MaxSum`, below which multiples
  are told apart (a malformed ciphertext adds nothing to the model's sum; `spoiled` has its option).
  `ResultsPlain` and `JobsPlain` are the control: what is posted, or held by
  a job that is about to post it, is the sum of a poll that is closed, and no vote changes
  the sum of a closed poll. `KnownPolls` says that events and timers are about polls the
  contract has: the check of `exists` in `_finaliseAll` (line 261) is never the one that
  ends it, and the model does without.
- From it `TallyTypeCorrect` (`TypeOK`), `ResultsArePlainSums` (`ResultIsThePlainSum`) and
  `SumsDecrypt` (`EverySumDecrypts`: what decryption would yield at any time, before the close
  too; proved only, as no run checks it).
- `TallyImplementsSealedPoll` (`ImplementsSealedPoll`): `submitEncryptedVote` is `Add`, a
  `finaliseDecryption` that does not revert is `Declare`, and every other step closes the
  polls whose time has come, of which there may be none.

Assumptions on the curve, each as strong as the code's own constants justify and each
evaluated by TLC in the run: `FieldAssumption` (P is greater than 1, G is on the curve);
`InversesAgree`: Fermat's little theorem on one side and the extended Euclidean algorithm
on the other compute the same inverse, as they do modulo a prime; `CurveIsAGroup`: the sum
of two points is a point, addition is associative, and `bjjNeg` inverts, which is the
complete addition law of a twisted Edwards curve whose A is a square and whose D is none;
`OrderAssumption`: the order of G is beyond every sum the voters can reach and every number
the search tries (2^251 and ten million, `MAX_VOTERS`, in the code). Commutativity, the neutral element and
that the inverse of a point lies on the curve are proved. `TallyAssumption` gives the other
constants their types: voters are finitely many, and 0, which
stands for an unregistered poll in the model, is no close time.

Assumptions on the other constants: `MaxTime` is a natural number and `NoAccount` is not an account
in the ledger; the threshold is a positive natural number, `MaxProposals` a natural number
and the guardian is none of the target's other owners; the zero country code is no country,
the zero address no account, the relay is an account, and "no commitment" is none. No
request is a chain; clocks, bounds, tokens and pages are natural numbers, the cache's life,
the limiter's window and limits and the length of an audit page positive ones; processes
and requests of the limiter are finitely many; tracked policies are policies, fields are
options, and "nothing selected" is no option; the USSD menu has a policy, its root is no key
and callers have numbers; the configured providers are providers and the certifying queries
queries; "Error" is no audit entry. Otherwise no set needs to be finite. TLC evaluates the
assumptions in the runs.

Model-checked only:

- all liveness properties (`OwnedTargetIsPaused`, `RequestAnswered` of registration and of
  the relay, `VotesAreShown`, `TallySettles`, `ClientsSettle`), since
  the prover does not reason about fairness and enabledness;
- that the two loops for the modular inverse compute one number, and that the points of the
  curve form a group: TLC evaluates both on the small field (`InversesAgree`,
  `CurveIsAGroup`), and for the field of the code they are mathematics the proofs take as
  assumptions.

Models were corrected on the way to these proofs. Redis drops a key with its last
member and a key without a time to live stays: `RateLimit` had kept a stale expiry. And
`LeftInPeace` had held of the run's few requests only: a user who unregisters, registers
and unregisters again while one broadcast runs was counted as having left before it. And
`FinaliseAll` had started a job at the first option of a poll that has none; the loop of
`_finaliseAll` then has no round (`LoopAt`).

## 5. What is not modelled, and the plan

Left out for good: the UUPS upgrades (they replace the code); cryptography (verifiers,
signatures, circuits, encryption: external, reduced to accept or reject, except for the
curve of the homomorphic tally); the OpenZeppelin governor and timelock, and the soulbound
token, beyond what the governance routes ask of them; pure I/O (push services, metrics,
logs); rendering, and the wording of menus, messages and PDFs.

Components without a module, and why:

- QR ballots: the route is a stub that checks a signature and returns a made-up receipt.
- `AnonymityService`: nothing calls it. The erasure route changes nothing. Receipt
  encryption transforms one message and never returns the key that would open it.
- DID documents and gateway manifest: encodings and signatures without state.
- Backend shell: wiring, health checks, static country data.
- Circuits: algebra over a prime field of 254 bits.
- Deployment and migration scripts: run once; what they leave behind is taken as initial
  states (who owns the guardian's target, casters without peers, nodes with or without
  `init`).
- Other web pages, mobile screens, CLI: one-shot calls of the API and the rendering of
  their answer.

What is left: `VoteFlow` and `TallyClient` (mobile), callbacks of the operating system and
of sockets. The hazard at `VoteViewModel.kt:83` waits for it.

Modules that are proved about use no RECURSIVE operators, take their parameters as
constants and have one action per operation. Runs are kept few: a passing run checks
everything its instance can show about its modules, safety and liveness together, and a
counterexample run one statement.

## 6. Running the checks

```
tlc -config MCVoteLedger.cfg MCVoteLedger          # and likewise for the other cfgs
tlapm VoteLedgerProofs.tla                         # and likewise the other *Proofs
```

`PROJECT.json` maps every definition that models code to its lines, lists for each
property of a passing run a mutated definition that violates it, and the theorems.
