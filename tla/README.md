# Verification of the membership card protocol

TLA+ models of the protocol's programs, the TLC runs that check them on small
instances, and theorems checked by TLAPS. The reference is the source in this
repository; where a document and the code disagree, the model follows the code.
Run everything from this directory:

    tlc -workers 2 -config card_registry.cfg MCCardRegistry   # one run of the table below
    tlapm PressProofs.tla                                     # one module of proofs

`PROJECT.json` maps every definition to the lines it models and lists runs,
mutants, hazards, findings and theorems.

## 1. The system

A *card* is a signed document whose updates form a log in a content store
(IPFS). A *registry* on chain stores the CID of each card's latest log entry.
*Presses* write to the registry for issuers and holders; three *governance
bodies* decide which policies and presses are recognised. Holders keep keys in
*wallets* backed by a *wallet service*; messages between cards reach devices
through the wallet service and an anonymising *relay*; *verifiers* read the chain
and the content store to judge a signature; *rooms* on a Matrix homeserver admit
the cards a policy names.

| Part | State it keeps | Operations | Talks to |
|---|---|---|---|
| storage contract (`contracts/storage-contract`) | cards, press authorizations, sub-cards, offer counts, policies, keysets, nonces, pending upgrade, domains, paths, admin keys, address of the logic contract | one setter per table, callable by the logic contract in force | called by logic contracts |
| logic contract (`contracts/logic-contract`) | initialized flag, verifier, its upgrade, protocol version | cards, batches, forwards, offers, sub-cards, policies, presses, keysets, upgrades, domains | storage contract, verifier module; called by anyone |
| verifier module (`contracts/verifier-module`) | none | verify a secp256r1 signature | called by the logic contract |
| press (`press`) | key-value store (offers, log heads, rate windows, gas accounts, checkpoint), pinned content, transactions in flight | issue, finalize, claim, update, register and deregister a sub-card, credit gas, reconcile CIDs | registry through a node, content store, auditors |
| relay (`relay`) | Redis: UUID states, credentials, stored blobs, pending deletes; SQLite: devices; in memory: streams and sockets | register, deliver, notify, stream, socket, pending, ack, delete job, startup scan | wallet service, push services, devices |
| wallet service (`wallet-service`) | Postgres: accounts, sessions, keyrings, backups, recovery windows, message queue, UUID pools, bindings, nonces, rooms, notification jobs | accounts, keyring rotation, backups and recovery, messages and retransmission, UUID registration, federation, rooms | relay, other wallet services, chain, Matrix |
| Matrix policy module (`wallet-service/matrix-policy-module`) | membership registry, revocation cache, last block | gate joins and posts, watch heads, part revoked members | Synapse, chain |
| verifier (`membership_card_verifier`, TypeScript and Python) | none across calls | six stages over chain and content | chain, content store |
| SDKs (`app-sdk`, `wallet-sdk`, `sdk-providers-*`) | device storage: keyring, UUID pools, message history, recovery in progress | set-up, recovery, sub-cards, offers, messaging | all of the above |

What makes each part correct, and what makes that hard:

- **Registry.** Calls come from anyone, in any order, late or twice, between
  two blocks of anyone else. Correct means: a head is replaced only by a write
  that named it, by a press active under the card's policy; a signed payload is
  spent once; identities (policy of a card, master of a sub-card) never change;
  offers stay within their terms; upgrades wait seven days; suspended and handed
  over domains behave; storage protects its audit trail whatever logic contract
  is installed later.
- **Press.** A stateless-looking server with an `await` at every step. Two
  requests read the same sequence number or head, transactions are overtaken,
  answers and receipts get lost, counters are incremented from a copy, the process
  crashes between the chain and its own bookkeeping. Correct means: no request takes
  effect twice, the log that was pinned is the log the chain records, callers learn
  what happened, limits hold, the reconciliation task skips nothing.
- **Relay and wallet service.** At-least-once delivery across two stores with
  no common transaction: a blob must not be lost before the device acknowledged
  it and must eventually be cleared; single-use UUIDs are used once; restarts
  recover. Recovery of a lost wallet waits 72 hours, the holder hears of it, and a
  cancelled one releases nothing; at every moment of set-up and recovery the stored
  backup opens the account. Wallet services that announce bindings to each other
  agree in the end.
- **Policy module and verifier.** They act on what they read a moment ago:
  revocations must win in bounded time, and nobody is accused because the chain
  moved between two reads.
- **SDKs.** Set-up, recovery, offers and sub-cards take several steps, with a crash
  or a lost answer between any two of them.

## 2. Modules

| Module | Models | Extends |
|---|---|---|
| `RegistryStorage` | every table and setter of the storage contract; `StorageSpec`: the tables under *arbitrary* logic contracts | |
| `WriteGate` | `write_gate.rs`: the press write gate, the governance quorum check | `RegistryStorage` |
| `CardRegistry` | `card_ops.rs`, `subcard_ops.rs`, policies and presses of `governance_ops.rs` | `WriteGate` |
| `DnsRegistry` | `dns_ops.rs`, running together with `CardRegistry` | `CardRegistry` |
| `TimelockedUpgrade` | abstract specification: a value changes only by a proposal that waited out its delay | |
| `Governance` | `initialize`, keyset rotation, both two-step upgrades, over several logic contracts; implements `TimelockedUpgrade` twice | `WriteGate` |
| `RegistryClient` | `press/src/chain/registry.ts` and the chain below it: estimate, send, mine, revert, retry, receipt, timeout | `CardRegistry` |
| `Press` | `press/src/handlers` and `functions`: one step per `await`, crashes, other presses, governance | `RegistryClient` |
| `OfferAcceptance` | the wallet's three ways to accept an offer (`wallet-sdk/.../offers`), with the issuer's and the press's answers | |
| `SubCardRegistration` | a request for a sub-card from the app through the wallet to the press and its rate windows (`predicates.ts`, `sub-card.ts`, `kv.ts`) | |
| `SubCardDirectory` | the `active_subcards` directory: who builds an update from which copy, and when it lands | |
| `PressJobs` | `reconcile-cids.ts` and the plugin that starts it | |
| `Relay` | `relay/src`: UUID states in Redis, `POST /deliver`, streams, sockets, pending blobs, acknowledgements, staggered deletes, restarts, losses | |
| `WalletMessages` | the wallet service's message queue, UUID pools, `deliverMessage` and retransmission; a worker is a request being served | `Relay` |
| `MessageDelivery` | `app-sdk/.../messaging` on the devices, and the three together | `WalletMessages` |
| `RecoveryWindows` | recovery windows, notification jobs with retries, cancellation, release | |
| `WalletAccounts` | accounts, login challenges, sessions, keyring rotation, backups | |
| `WalletRecovery` | `wallet-sdk` set-up and recovery on the devices, running with both | `RecoveryWindows`, `WalletAccounts` |
| `FederatedRouting` | binding announcements between wallet services | |
| `SubCardPools` | signed UUID registrations and deregistrations at the wallet service, their nonces, the scheduler of the device | |
| `RoomMembership` | the policy module's registry, its cache and the cards' chain they read; room creation in the wallet service | |
| `RoomPolicy` | discovery and the join in the SDK, the join and post hooks, the two loops of the watcher | `RoomMembership` |
| `VerifierChain` | the chain and the content store a verifier reads, moving | |
| `CardVerifier` | `CardVerifier.ts`, stages 2–6, and the Python `verify_card`, read by read | `VerifierChain` |
| `VerifierPort` | the Python port and the web3 provider of the policy module, next to the original, which it implements | `CardVerifier` |
| `DomainAuthority` | `governance/scripts`: verification of TXT records, deactivation of admins, the task that verifies path entries | |
| `RegistrySetup` | `contracts/scripts`: deployment, redeployment, bootstrap, rotation, `setup_dns.sh` | |
| `ObliviousPath` | the oblivious transport from the device through the relay to the gateways of the wallet service and the press | |
| `CardRegistryProofs`, `GovernanceProofs`, `PressProofs`, `DeliveryProofs`, `WalletProofs`, `ServiceProofs`, `EdgeProofs`, `VerifierProofs` | theorems | the modules they are about |
| `MC…` | small instances for TLC; some hold two or three modules that share nothing, each explored while the others stay put | the modules they check |

How the models correspond to the code:

- *Contracts.* An entry point is one action: a transaction is atomic and a
  failed check reverts all of it, so checks are conjuncts and setters are
  operators that prime one table. A guard of the storage contract stays inside
  its setter, so a logic operation that would be refused by storage is disabled
  as a whole. Tables are functions over all addresses with a value for "absent"
  (`NoCard`, `NoAuth`, …), which is what a zeroed slot is. A signature is the
  key that made it, and a payload is the fields the contract reads from it; the
  contract compares them with nothing else, so payload and arguments are chosen
  independently. The terms of an open offer are among the arguments: the contract keeps a count per
  offer and goes by the limit and the expiry each caller names (`OfferTerms` holds those that callers may
  name, `claims` what each of them named). The press names those of the offer's document
  (`DocumentTerms`, of which the id of the offer is the hash). `block.timestamp` is `now`; `Tick` advances it.
- *Servers, SDKs and the policy module.* Every `await` ends a step: what was read
  before it is kept in the record of the running request or call (`handler[i]`,
  `worker[w]`, `announcing`, `flow[f]`, `seen` …) and may be stale when it is used.
  A crash drops these records and leaves what is stored. A single SQL statement or
  Redis command is one step; two of them are two.
- *History.* `headLog`, `gateLog`, `epoch`, `claims`, `approvals`, `sponsor`, and in the
  other modules the variables introduced as history, record what happened. No guard
  of the code reads them.
- *Press.* `handler[i]` is where request *i* is in its handler, `call[i]` where
  its write is in `submitWithRetry`/`updateCardHead`, `inFlight` the transactions
  handed to the node. All writes come from one gas account, so they are mined in
  the order they were sent (its account nonces). A
  crash turns every running request into `lost` and leaves the key-value store,
  the pinned content and the transactions. `NamedErrors` says which contract errors the
  client recognises by text. In the deployed program it is **empty**: the contract
  reverts with a selector and the client's ABI names no errors. The press run gives the
  client the name it was written for, so that its retry code is exercised; it
  also passes with `NamedErrors = {}`. Requests arrive as admitted: signatures and
  staleness windows choose *which* requests arrive, and the model lets any arrive.
- *Sub-cards at the press.* `SubCardRegistration` takes the admission checks `Press`
  leaves out: the rate windows of holder, app and policy, read by `predicates.ts` and
  incremented after the receipt, each increment a read and a write.
- *Message delivery.* `delivery[u]` is where `POST /deliver/u` is in its handler,
  `socket[s]` where a connection is, `worker[w]` where a request to the wallet service
  is. A step that reaches Redis, the network or the device may be *upset*: it fails
  before or after it took effect, its answer is lost, a key expires early, Redis
  forgets everything, a process restarts, an application ends. `MaxUpsets` bounds how
  often. UUIDs are random and never run out; the model has few, and one that nothing
  refers to any more (`Fresh`) stands for the next. A delete job that fails is put back, and putting it
  back may fail as well (`Requeue`). One that its pool does not need
  expires after its thirty days (`UuidExpires`), when no request is being served.
- *Recovery.* A keyring is named by what it contains and the key it is encrypted with;
  "opens" compares the two. The notification sweep is the job queue with its attempts;
  `RecoveryWindows` also sends inline, as the route does.
- *Federation.* A binding is a service and a stamp; what a service stores is compared
  with the stamp of an announcement in one statement and written in another.
- *Rooms.* An address has a chain of issuers (`ChainOf`) and fields the policy looks at.
  The hooks read the chain ancestor by ancestor (`ReadAncestor`) and may stop short of its end, the
  watcher handles one event at a time, and between any two reads the chain may move. An attestation
  as creator is taken from any card, in the room or not. `Discernible` lets the
  module tell a revocation of an address; as shipped it is FALSE, since the verifier has no content to
  read (section 4). Safety is checked with either outcome possible (`Discernible = TRUE`) and proved for
  both values, liveness is asked of the module as shipped.
- *Verifier.* `v` is one verification: the step it is at, what it has read, the report.
  The chain (`VerifierChain`) offers heads, logs, revocations and what a press signed;
  a provider fails by rejecting.
- *Verifier, in Python.* `port` runs the same stages with the provider of the policy
  module, which answers "absent" where a read failed. `PortConforms` states that it takes
  the reads and gives the answers of `CardVerifier`, with its own chain of steps mapped to `v`.
- *Scripts.* A call to the node or to the chain is a step; a transaction may be pending,
  revert or be reported lost. The operator may stop after any step, and starts with
  addresses of any age. The walk from an old admin card goes one link at a time (`FollowLink`,
  `MeetAdmin`, `LoseTrail`), with `walk[c]` where it is, and anything may happen between two links: a hop
  is a read of the registry and of the log entry it names, and the entry, named by its hash, cannot change. Cards may
  exist and forward to each other before the scripts begin. `Decodes` lets the task that verifies path
  entries read events at all; as shipped it cannot (section 4), and what is checked of it holds either way.
- *Oblivious path.* A sealed message is the key it is sealed to; only who has that key opens
  it. Instances of the wallet service share the database and nothing else: two that find no key
  each make one and store it, and the history variable `rivals` keeps the keys made in such a race.

## 3. Runs

Every passing run but `delivery` sets `CHECK_DEADLOCK FALSE`: nobody is obliged ever to
submit another call, and a bounded instance ends when its nonces, sequence numbers,
requests or time are used up. A device can always go on, so `delivery` checks for deadlock.

| Run | Module | Question | Checked |
|---|---|---|---|
| `card_registry` | `MCCardRegistry` | Can updates, batches, claims, re-authorized presses and policies that come and go lose or fork a head, or break an offer? | `HeadChain`, `SequenceSpentOnce`, `OfferHonoured`, `HeadsWrittenWithAuthority` |
| `governance` | `MCGovernance` | Do both upgrades wait, and are approvals spent once, while boards rotate and logic contracts replace each other? | `ApprovalSpentOnce`, `LogicIsTimelocked`, `VerifierIsTimelocked` |
| `dns` | `MCCardRegistry` | Do domains, admins, keys and paths agree through hand-offs and suspensions? | `DomainTablesAgree`, `PathsWrittenWithAuthority` |
| `press` | `MCPress` | Can a request take effect twice, does the pinned log agree with the chain, is every request answered? | `RetriesAreSafe`, `LogMatchesChain`, `Answered` |
| `delivery` | `MCMessageDelivery` | Whatever goes wrong once: is a message cleared only when stored, a UUID used once, what is held delivered? | `ClearedIsStored`, `UuidUsedOnce`, `HeldIsDelivered` |
| `wallet_recovery` | `MCWalletRecovery` | Does every stored backup open, does a cancelled recovery stay cancelled, do rotations end sessions, is every card's key kept? | `CancelIsFinal`, `BackupsOpen`, `RotationEndsSessions`, `CardsHaveKeys` |
| `press_service` | `MCPressService` | Do the press's rate limits hold, does the directory keep its updates, does reconciliation skip nothing, does everybody in a gated room qualify? | `RateLimited`, `DirectoryKeepsUpdates`, `NothingSkipped`, `MembersQualify` |
| `federation` | `MCServiceEdges` | Do wallet services agree on bindings whatever the order, does a signed envelope take effect once, are pools refilled? | `OrderIndependent`, `RoutesSettle`, `HonouredOnce`, `LowPoolsRefilled` |
| `verifier` | `MCVerifierPort` | Is what the verifier answers true of the moving chain, and does the Python port answer the same? | `SubCardHonoured`, `RevocationsJudged`, `NoFalseAccusation`, `MaskingClearsNobody`, `PortConforms` |
| `operators` | `MCOperators` | Do the scripts of DNS authority and set-up leave the registry as they report it; do requests get through the oblivious path? | `AdminsProven`, `SupersededRevoked`, `VerdictsComplete`, `SetupIsSound`, `PublishedKeysOpen`, `RequestsGetThrough` |
| `revocations_stand` | `MCVerifierPort` | *finding* | `RevocationsStand` |
| `rooms` | `MCRoomPolicy` | *finding* | `RevokedIsParted` |

Each property of a passing run has a mutant: a plausible bug, written next to the
definition it changes and marked as such, that breaks it.

**Bounds, and why they are enough.** *Two of what can be confused, one of the rest.* Two
cards and two CIDs give races, batches with a repeated or foreign item and cross-card
mix-ups; two policies give a card of a foreign policy; two sub-cards under either of two
masters give re-registration; two logic contracts give a replacement that is put back; two
domains that share an admin give every hand-off; two wallet services, two handlers, two
instances and two operators give every race. One press suffices on chain, because the gate
keeps a counter per policy and press and any number of its payloads is around at once; the
second press appears where somebody else moves heads (`press`).

- `MaxSequence` bounds the sequence numbers that payloads name, `Nonce` the governance
  decisions of a behaviour: four recognise two policies, authorize a press and re-authorize
  it; three propose an upgrade, rotate the proposing board and confirm, or replace a logic
  contract that then acts; six register, hand over and suspend domains. `MaxHeadWrites`
  bounds the writes to heads where sub-cards, offers and time are explored.
- `MaxTime` bounds `now`: it reaches past every expiry, suspension and scaled timelock.
  `LogicTimelock = 2` and `VerifierTimelock = 1` stand for seven days, `WindowLength = 1`
  for 72 hours, `Window`, `Stall` and `Retention` for the five minutes, the longest handler
  and the hour of signed envelopes; the theorems hold for any values.
- `MaxUpsets`, `MaxFaults`, `MaxMishaps`, `MaxRestarts`, `MaxJobFaults` count what goes wrong:
  one is enough to meet every state, and what two do together was explored with the
  delivery instance (two upsets, 2.2 million states).
- `MaxEvents`, `MaxChanges`, `MaxCalls`, `MaxContracts`, `MaxRuns`, `MaxSigned`, `MaxLate`,
  `MaxBlock`, `MaxCount`, `MaxAttempts`, `Ttl`: how often the world acts, each the
  smallest number with a change before, during and after what it may disturb.
- `MaxBatchSize = 2`, `MaxUses = 1`, `OneUse = 1`, `MaxClearEntries = 1`, `MaxSigners ≤ 2`,
  `MaxGovernanceKeys = 3`, `MinGovernanceKeys = 1`: the smallest values with a repeated
  item, a last place, a quorum and a duplicate signer.
- `OfferTerms` has two terms in `card_registry` (one use before an expiry, and two uses at any time), so that two
  callers of one offer may differ: a second claim is one too many for a caller that names the first and
  none for one that names the other.
- `MaxHops = 2` is the smallest walk with a link between two others; there a third card, which
  the press made before, leads to the applicant while its links and theirs change.
- The press run has two requests, which is one race; a founding card stands for what was
  issued before, and the boards have authorized everybody (`PressInit`).
- Symmetry is used for values that the modules only compare, never in a run with a
  liveness property.

**Explorations.** Where all of it at once is too much, a run explores parts apart, by
a `CONSTRAINT` or by a next-state relation in which one part stays put while the
other moves: `card_registry` (`HeadsOnly`: heads of two cards under two policies;
`OnePolicy`: offers, sub-cards, forwards and time), `press` (`Bystanders`: two updates with
everyone else acting; `Alone`: requests of every kind with the clock alone),
`press_service`, `operators` and `federation` (modules that share no variable; in `operators`
either two applicants with entries, or one with an old card and its links),
`wallet_recovery` (a recovery, with a second one when the first is over; acceptances of
offers), `verifier` (`ExploredPort`: original and port one at a time).

**Fairness.** Only what the code's scheduling gives:

- `press`: `WF(Proceed(i))`. Node runs every continuation that is ready, and every `await`
  of a handler settles: the node answers or fails, a receipt is awaited for at most 300
  seconds (`registry.ts`), the remaining fetches have time limits. Nothing is assumed of the
  chain: a transaction may stay unmined for ever.
- `delivery`: weak fairness of the steps of running requests, of the delete poll (a timer)
  and of a device that is awake. A wallet service hands a message over again only when the
  device registers UUIDs, so nothing can be promised of a device that stops: the premise of
  `HeldIsDelivered` is that the device registers a UUID that works again and again, which
  the replenishment scheduler and the expiry of UUIDs make it do.
- `federation`: `WF(Handle(n))`, a service that is up works off what arrived; `PoolsFairness`,
  timers fire, handlers go on, the device sends again what it heard nothing of.
- `rooms`: the hourly backstop runs and finishes; the subscription is not relied on. The member stays
  even so.
- `operators`: `PathFairness`, handlers go on and a request once made is pursued. Nothing is assumed of
  the task that verifies path entries: the code has no schedule of it (`policy-address-verifier.ts:22-24`
  defines the task as a plain object), only the document does (`dns_governance_verifier.md:399-405`).

## 4. Findings

- `revocations_stand`: stage 4 looks at the head entry of the log only. A revocation that an
  update follows counts no longer, against `card_protocol_spec.md:236` ("check whether any
  8xx or 9xx entry exists"). TLC shows a card revoked, updated and answered to be valid.
- `rooms`: `verify_card`, by which the policy module asks whether an address is revoked, gives stage 4 a
  card without content (`verifier-py/.../card_verifier.py:223`), so the status is always "unknown" and nobody is
  ever parted. `chain_context.py:10` says it "still correctly reports that *one* address's own revocation
  status", `watcher.py:16` that a revocation has the watcher "force-part every membership that depends on it".
  TLC shows a member whose address is revoked, looked at in every round of the backstop and in the room for good.

Divergences met while modelling that the models contain and no run states:

- *Contracts.* Re-authorizing a press resets `next_sequence`, so that payloads of the earlier
  authorization are accepted again (`storage-contract/src/lib.rs:111`); a card of a deregistered
  policy still accepts a forward, and a deregistered policy can be registered again (against
  `governance_ops.rs:110`); `set_policy_address` called with the zero admin passes the comparison
  with the zeroed admin of a deregistered domain (against `dns_ops.rs:202`); a rotation bounds
  neither quorum nor keyset from above (`governance_ops.rs:383`), so a body can lock itself out;
  deregistering one of two domains of a shared admin clears the key that serves the other
  (`dns_ops.rs:406`); `register_domain` resets the fraud status; `remove_policy_address` ignores
  suspensions; moving the DNS policy keeps the old admins; a rollback to an earlier logic
  contract revives its pending verifier proposal; key-scheme rotation always reverts in phase 1.
- *Press.* `submitWithRetry` ignores the status of the receipt, so a write that reverts is answered
  as done (against `press.md:449`); the retry after `SEQUENCE_MISMATCH` never happens, since the
  client looks for text and the node reports a selector; the retry after a stale head would replace
  `prev_log_cid` while the pinned entry names the old head (`LogMatchesChain` fails once
  `STALE_PREV_CID` is among `NamedErrors`); two finalizations of one offer give two cards
  (`issue.ts:101`); `handleIssue` does not compare its `policy_cid` with the offer's; the counters
  of `kv.ts` are not atomic though its comment says so; rate windows are fixed, not rolling
  (`press.md`); each sub-card registration counts twice against the policy's total, and one whose
  receipt is lost never; `reconcile-cids` starts at the latest block, also after a first run that failed;
  a start-up that fails leaves the press at 503; one funding admits any number of registrations,
  as nothing debits the gas account; `updateLogHead` has no gas check (`press.md:586`).
- *Relay and delivery.* The teardown of an old WebSocket removes the newer one of the same
  credential (`notification_relay.md:250`); an acknowledgement leaves the blob in the store
  (`relay_data_model.md:245`); UUIDs the relay refuses are used up without the device hearing of it
  (`notification_relay.md:397`); a replenishment that fails is not retried.
- *Wallet service.* Two recoveries of one backup that start together both open a window
  (`recovery.post.ts:5`); a release at exactly `expires_at` answers 410 though the window is pending;
  a migration can be superseded by a race between comparing and writing, or by the service's own
  registration (against `message_routing.md`, Binding Conflict Resolution); announcements are not
  retried and start-up synchronisation does not exist; a crash between `createAccount` and the
  announcement leaves a card nobody finds; the gateway's ABI asks for `GetSubCardEntry`, which no
  contract has; two instances that both find no OHTTP key each make one and the one stored last stays,
  so that until the other instance is started again it opens nothing sealed to the stored key
  (`PublishedKeysOpen` says how far this goes: only keys made in that race differ), and a failed first read of the key is kept for good.
- *Policy module.* Its loops are never restarted; a member kicked and joined again during a sweep loses its entry;
  joining does not check revocation; any card may attest as the creator of a room and is registered
  (`module.py:394-404`); after a restart posts are denied until members rejoin;
  `app_certification_root` is a sentinel, with which stage 2 admits nobody.
- *Verifier.* A revocation without a date of its own counts for nothing once the head moved past the
  events that were read; updated cards fail with `DECRYPTION_FAILED`, since the press's entries are
  plain; stage 2 reads `getCardEntry` of a sub-card address, which registration never writes;
  the web3 provider answers None for an inactive press, which is reported against
  `verifier-py/README.md:273`; a root's own revocation is not looked at.
- *Scripts.* As shipped the governance scripts do not start (`config.ts` requires 64 hex digits of an
  address), and the press has none of the two routes they post to; the model assumes both. A
  registration that reverts when mined is answered 200 (`dns_governance_verifier.md:169`); a
  deactivation that overlaps a new verification can revoke the new admin's card; entries
  set between clearing and deregistering stay (`:269`); the walk from an old card to the admin reads one
  link at a time, so that links which never held together may make a card a predecessor, and the
  domain may change hands after it; `fetchPolicyAddressSetEvents` gives the hex strings of viem to
  `TextDecoder.decode` (`registry.ts:414-415`), which throws, so that no run of the verifying task gets past a range that
  holds an event and no entry is ever verified or removed (no liveness of the task is therefore stated); the
  SLA alert never fires. `setup_dns.sh`
  re-authorizes an active press and reports "Complete" for a registry whose pointer is not set; two
  deployments at once leave the wrong verifier in the record.
- *SDKs.* Several paths and shapes of requests do not match the press's routes (the model assumes
  that requests arrive); the keyring is extended without a compare, so that overlapping acceptances
  lose a key (`countersign.ts:23` says it is enforced), and an acceptance begun before a recovery
  overwrites the recovered keyring; a directory update made of an older copy undoes others.

## 5. Theorems

For every value of the constants that satisfies the modules' named assumptions (kinds of the
constants, distinct sentinels, numbers are naturals): any number of cards, policies, presses,
keys, requests, services, devices, any batch size, window or timelock.

| Module | Theorems | State |
|---|---|---|
| `CardRegistryProofs` | `AuditTrailIsPermanent` | under *any* logic contract, what the audit trail rests on is never taken back |
| | `TypeCorrect`, `HeadsFormOneChain`, `SequencesSpentOnce`, `IdentityIsPermanent`, `HeadsHaveAuthority`, `SnapshotsAreHeads`, `OffersAreHonoured` | the card registry |
| | `DnsTypeCorrect`, `DnsSequencesSpentOnce`, `TablesAgree`, `PathsHaveAuthority` | the same with domains acting in between |
| `GovernanceProofs` | `LogicImplementsTimelock`, `VerifierImplementsTimelock` | `Governance` refines `TimelockedUpgrade` |
| | `TheSponsorConfirms`, `ApprovalsSpentOnce`, `ReplacedIsInert` | further properties of both upgrades |
| | `DomainAdminsProven`, `PredecessorsRevoked`, `EntriesJudged`, `SetupsAreSound` | the governance and set-up scripts |
| `PressProofs` | `PressTypeCorrect`, `RetriesNeverDouble`, `LogsMatch` | the press above the card registry |
| `DeliveryProofs` | `UuidsUsedOnce`, `OnlyStoredIsCleared` | relay, wallet service and devices together |
| `WalletProofs` | `CancelledStaysCancelled`, `BackupsAlwaysOpen`, `OldSessionsEnd`, `KeysAreKept` | recovery, accounts, acceptances |
| `ServiceProofs` | `RegistrationsAreLimited`, `DirectoryIsKept`, `NoBlockIsSkipped`, `RoomsTypeCorrect`, `MembersAreQualified`, `DiscoveryIsTrue` | rate limits, directory, reconciliation, rooms |
| `EdgeProofs` | `OrderDoesNotMatter`, `PoolsTypeCorrect`, `EnvelopesTakeEffectOnce`, `WhatIsSealedOpens` | federation, UUID pools, oblivious path |
| `VerifierProofs` | `VerifierTypeCorrect`, `OnlyListedHonoured`, `RevocationsAreJudged`, `NobodyFalselyAccused`, `PortImplements`, `MaskingIsStricter` | the verifier and its port |
How the arguments go (an invariant is seldom inductive as it stands; a strengthening was
checked by TLC on the run first where TLC can enumerate it):

- `TypeCorrect`, `DnsTypeCorrect`, `PressTypeCorrect`: one lemma per setter on the table it
  writes, one per operation. In the press the types rest on `Fitting`: every handler, call and
  transaction in flight, however long, is about cards, content and policies that exist, and a
  handler that has not come to its call has none.
- `HeadsFormOneChain`: `HeadChain` is inductive given types. Registering starts a chain
  (`ChainStart`), an update extends it because the guard compares the stored head
  (`ChainExtended`); for a batch `NoDuplicates` makes `LastItem` the only item of its card,
  which is exactly what the mutant removes.
- `SequencesSpentOnce`: a re-authorization starts an epoch and must find no payload in it.
  `GateInv` adds that no logged payload has an epoch beyond the current one. Domain operations
  pass the same gate, so `DnsSequencesSpentOnce` needs only that they keep `GateInv`.
- `IdentityIsPermanent`: `SubCardInv` adds that an inactive registered sub-card has a non-zero
  time of deregistration, which needs `now > 0`. `SnapshotsAreHeads` uses `HeadChain` and
  that logs only grow. `OffersAreHonoured`: `OfferInv` adds that claimed cards exist, hence no
  card claims twice, and every claim has the next use number when it is made; nothing is assumed of the
  terms that the callers of one offer name, which is why the limit is that of each claim and not of the offer.
- `TablesAgree`: `DomainTablesAgree` is inductive together with types and the facts that cards
  stay once they exist; each operation of `dns_ops.rs` has its lemma.
- Refinements of `TimelockedUpgrade`: the mapping is the identity on the pending record
  and `now`; each action is an abstract action or a stutter.
- `RetriesNeverDouble`: every step of the press is first classified (`StepIs`: a handler goes on,
  publishes, starts a call; a call goes on, sends, is caught; a transaction is mined; a crash).
  `RetryInv` then says of each request: while it may still send, nothing of it was sent or
  written; when a lost race was answered, nothing is in flight; never are two in flight.
- `LogsMatch` has a hypothesis, that the name `STALE_PREV_CID` does not reach the client, which is
  the configuration as shipped. `LogInv`: a call keeps what it is about, the pinned entry names the
  head the call builds on, a transaction is as its call, an event whose CID a request made comes
  from that request. `HeadChain` gives that only a first event has no predecessor. CIDs are
  injective in requests, which is what makes them CIDs.
- `UuidsUsedOnce`: `UsesIInv`, per UUID, that deliveries that hold it and sockets opened with it
  exclude each other and both exclude the state `unused`. `OnlyStoredIsCleared`: `ClearIInv`; a
  message goes to its addressee (`Directed`), a UUID once claimed stands for one message and for
  none before (`Tracked`), what is acknowledged is stored. The run has one message; that two are
  not confused is shown by the proof.
- `CancelledStaysCancelled`: `WindowsIInv`, a window ends once. `BackupsAlwaysOpen`, `OldSessionsEnd`:
  `AccountsIInv`, a request's blob is stored before anything points to it, and a rotation is
  answered only after the sessions were cut at a time when its secret was in place.
  `KeysAreKept`: `OffersIInv`, what an acceptance relies on is in the keyring it last saw stored.
- `RegistrationsAreLimited`: the invariant relates counters, requests under way, their peak and
  the registrations whose count was lost. `DirectoryIsKept`: the copy of an update that is not late agrees
  with the directory on all other devices. `NoBlockIsSkipped`: what is between checkpoint and
  cursor is pinned, or the run has failed and keeps the checkpoint.
- `OrderDoesNotMatter`: what a service holds is the newest of what it heard, or a write is about to make
  it so. `EnvelopesTakeEffectOnce`: a nonce is stored as long as its envelope may be accepted or is
  being handled; `RetentionAssumption` (the hour of retention exceeds twice the window plus the
  longest handler) is used. `WhatIsSealedOpens` is about any number of instances that may look for the key at
  once: as long as none is stored, the keys about to be (`BeingStored`) are one or all rivals, and an instance that
  looks later finds the stored one (`FirstKeyAhead`, `StoresInOrder`).
- `DomainAdminsProven`: `ProvenOnly`, whoever is, or by an application or a transaction in flight may
  become, the admin has had its record found. `PredecessorsRevoked`: `AuthorityLed`, a walk under way has come
  from the card it began at over as many links as it counts hops, each of which the request found or saw set
  (`named`), the cards it is done with lead to the admin, and what a hand-off has left to revoke are such
  cards; a step of the walk adds one link to its path (`PathLonger`), and a link set in between only adds to
  what is named (`MorePaths`). The links need not have held at one moment, and the code does not ask that
  they did. `EntriesJudged`: `VerdictsKept`, what a poll has
  passed by is judged. `SetupsAreSound`: `SetupInv`, each run is sound relative to a chain that only
  grows: what a run did or found stays so, whoever else is at work.
- The verifier reads one card after the other while all of them move. `VerifierInv` says of every read
  that it returned an entry that was the head at some moment since the verification began; logs
  only grow, so this stays true (`SinceStays`), and so do the verdicts derived from it.
  For cards whose logs have not grown the entry is still the head, which makes the verdict exact.
- `MembersAreQualified`: `RoomIInv`, whatever a chain that is cached or carried by a request satisfies its card has
  satisfied (`Known`), although its links are of different moments; a walk stays so with every card it reads (`WalkGoesOn`), and a room that is indexed, joined or asked about exists
  and keeps its policy. `DiscoveryIsTrue`: `IndexIsTrue`, the index tells the policy of a room as Synapse keeps it,
  and a request about to enter a room in the index is the one that made it (no run checks it as it stands,
  but both hold on the instance of rooms in `press_service`).
- The port runs beside the original (`PortImplements`). `PortInv`: what the port holds
  was a head since it began, and its windows add up to the log so far (`WindowEnd`: where a window that is
  full ends; `Reading4Trans`: readings of stage 4 go on from each other). Each step is then a read of the original, a stutter or, where
  the provider hides something, the original's failure. `MaskingIsStricter` follows from the same invariant:
  what a mask hides can only withhold an honour or date a revocation.

Proving corrected the models: `RateLimited` was false for a limit of 0; `OrderIndependent` needed no
idleness; the history variable of `RotationEndsSessions` held its claim only since the run's clock was
too short; the delivery worker's messages became a set, taken oldest first; `PortConforms` was false of a
web3 provider and a card under an authorizer, until `Asked` counted its standing "no" as hidden; and
`MembersQualify`, checked with one room, was false with two, since it asked that the chain had satisfied the
policy while that room was there: a walk made for one room may be cached and answer for a later one.
It now asks, as it says, whether the chain ever satisfied the document.

Only model-checked: all liveness (`Answered`, `HeldIsDelivered`, `RoutesSettle`, `LowPoolsRefilled`,
`RequestsGetThrough`; `RevokedIsParted` is refuted), since fairness and `ENABLED` are beyond the
prover. What a recursive definition computes over a sequence of any length is beyond it
too; the models use folds and quantifiers instead.

## 6. Not modelled, and why

- The key-scheme phases (no reachable state change), the verifier module (perfect
  signatures), gas and fees on chain; `batchUpdateCardHeads` of the press client, which no
  handler calls; reorganisations of the chain.
- Cryptography: a signature is its key, a sealed message the key it is sealed to.
- The relay's SQLite registry of devices, which selects whom to wake; pushes may come at any time.
- The replication of keyring blobs, account deletion, Matrix account tokens, Megolm sessions and bridge
  transactions, the discovery endpoint of the server; content of offers and annotations; the policy match of the verifier.
- Superseded code, hosting scripts, documents, the site: no state of their own. The scripts
  `setup_dev.sh`, `publish_cards.sh` and `read_dev_state.sh` call entry points that no longer exist.
- Two hazards are listed without a property: a rotation that locks a body out
  (`governance_ops.rs:383`), which the contract permits, and two recoveries that
  start together (`server/db/recovery.ts:25`), which the code does not prevent.

## 7. Plan

1. *Done:* all modules of section 2, the runs of section 3, the theorems of section 5.
2. *Next:* the components modelled in part (section 6), each with its proofs beside those of its module.
3. *Beyond the prover:* the liveness properties stay with TLC.
