---------------------------- MODULE CardRegistry ----------------------------
(***************************************************************************)
(* The logic contract's operations on cards, sub-cards, open offers,        *)
(* policies and press authorizations (card_ops.rs, subcard_ops.rs and the   *)
(* policy and press operations of governance_ops.rs).                       *)
(*                                                                         *)
(* Anyone may submit any call at any time with any arguments: calls arrive  *)
(* late, twice, reordered or never.  A call whose guard fails reverts.      *)
(*                                                                         *)
(* Besides storage the module keeps what the chain's event log and a reader *)
(* of its transactions know: the head events of each card, the payloads the *)
(* gate accepted, the authorizations of each press, the claims on an offer. *)
(***************************************************************************)
EXTENDS WriteGate, FiniteSets

CONSTANTS
    OfferTerms,     \* the terms a caller may name for an offer: [max, expires]
    Unlimited,      \* u64::MAX: no limit on acceptances
    MaxBatchSize,   \* MAX_BATCH_SIZE
    BatchItems      \* the items [card, prev, new] a batch may carry

ASSUME RegistryAssumption ==
    /\ OfferTerms \subseteq [max : Nat, expires : Nat]
    /\ Unlimited \in Nat
    /\ MaxBatchSize \in Nat \ {0}
    /\ BatchItems \subseteq [card : Card, prev : Cid, new : Cid]

VARIABLES
    headLog,    \* per card: for each transaction, the head events it emitted
    gateLog,    \* per authorization: the payloads accepted, in order
    epoch,      \* per authorization: how often it was (re-)authorized
    claims      \* per offer: the claims, with the terms named and the use number

historyVars == <<headLog, gateLog, epoch, claims>>
otherVars == <<upgradeVars, domains, policyAddresses, adminKeys, dnsPolicy>>
vars == <<storageVars, now, historyVars>>

HeadEvent == [prev : Cid \cup {Nil}, new : Cid]
GateEvent == [epoch : Nat, signer : Key, op : PressOp, sequence : Nat]
Claim == [card : Card, at : Nat, max : Nat, expires : Nat, use : Nat]
Batch == UNION {[1..n -> BatchItems] : n \in 1..MaxBatchSize}

TypeOK ==
    /\ StorageTypeOK
    /\ now \in Nat
    /\ headLog \in [Card -> Seq(SUBSET HeadEvent)]
    /\ gateLog \in [Policy \X Press -> Seq(GateEvent)]
    /\ epoch \in [Policy \X Press -> Nat]
    /\ claims \in [Offer -> SUBSET Claim]

Init ==
    /\ \E l \in Logic, k \in Key : StorageInit(l, k)
    /\ now = 1
    /\ headLog = [c \in Card |-> <<>>]
    /\ gateLog = [a \in Policy \X Press |-> <<>>]
    /\ epoch = [a \in Policy \X Press |-> 0]
    /\ claims = [o \in Offer |-> {}]

-----------------------------------------------------------------------------
(* Events                                                                   *)

\* The transaction emits for each card c of cs the head events events[c].
EmitHeads(cs, events) ==
    headLog' = [c \in Card |-> IF c \in cs THEN Append(headLog[c], events[c])
                                           ELSE headLog[c]]

EmitHead(card, prev, new) ==
    EmitHeads({card}, [c \in {card} |-> {[prev |-> prev, new |-> new]}])

Accept(policy, press, payload) ==
    gateLog' = [gateLog EXCEPT ![<<policy, press>>] =
        Append(@, [epoch |-> epoch[<<policy, press>>], signer |-> payload.signer,
                   op |-> payload.op, sequence |-> payload.sequence])]

Gate(self, policy, press, payload, op) ==
    /\ RunWriteGate(self, policy, press, payload, op)
    /\ Accept(policy, press, payload)

-----------------------------------------------------------------------------
(* Card operations (card_ops.rs)                                            *)

RegisterCard(self, card, cid, policy, press, payload) ==
    /\ ~cards[card].exists
    /\ Gate(self, policy, press, payload, "register_card")
    /\ SetCardEntry(self, card, cid, policy, press, TRUE)
    /\ EmitHead(card, Nil, cid)
    /\ UNCHANGED <<subCards, offerCounts, policyVars, bodyVars, otherVars,
                   now, epoch, claims>>

UpdateCardHead(self, card, new, prev, press, payload) ==
    /\ cards[card].exists
    /\ Gate(self, cards[card].policy, press, payload, "update_card_head")
    /\ cards[card].head = prev
    /\ UpdateCardHeads(self, [c \in {card} |-> new], press)
    /\ EmitHead(card, prev, new)
    /\ UNCHANGED <<subCards, offerCounts, policyVars, bodyVars, otherVars,
                   now, epoch, claims>>

\* Mutant: the last place is given away twice.
OfferOpenOneMore(offer, max, expires) ==
    /\ expires = 0 \/ now < expires
    /\ max = Unlimited \/ offerCounts[offer] <= max

OfferOpen(offer, max, expires) ==
    /\ expires = 0 \/ now < expires
    /\ max = Unlimited \/ offerCounts[offer] < max

\* The caller passes the terms, which are compared with nothing stored: the
\* contract knows an offer by its count alone.
ClaimOpenOffer(self, offer, max, expires, card, cid, policy, press, payload) ==
    /\ OfferOpen(offer, max, expires)
    /\ ~cards[card].exists
    /\ Gate(self, policy, press, payload, "claim_open_offer")
    /\ SetOpenOfferCount(self, offer, offerCounts[offer] + 1)
    /\ SetCardEntry(self, card, cid, policy, press, TRUE)
    /\ EmitHead(card, Nil, cid)
    /\ claims' = [claims EXCEPT ![offer] = @ \cup
          {[card |-> card, at |-> now, max |-> max, expires |-> expires,
            use |-> offerCounts[offer] + 1]}]
    /\ UNCHANGED <<subCards, policyVars, bodyVars, otherVars, now, epoch>>

\* The press co-signs the holder's payload, which carries no sequence number;
\* whether the old card's policy is still recognized is not asked.
RegisterAddressForward(self, old, new, press, payload) ==
    LET entry == auth[<<cards[old].policy, press>>] IN
    /\ cards[old].exists
    /\ cards[new].exists
    /\ cards[old].forward = Nil
    /\ entry.key # Nil
    /\ entry.active
    /\ payload.op = "register_address_forward"
    /\ payload.signer = entry.key
    /\ SetForwardTo(self, old, new)
    /\ UNCHANGED <<auth, subCards, offerCounts, policyVars, bodyVars, otherVars,
                   now, historyVars>>

BatchCards(items) == {items[i].card : i \in DOMAIN items}

\* The item whose write is the last one to touch the card.
LastItem(items, card) ==
    CHOOSE i \in DOMAIN items : /\ items[i].card = card
                                /\ \A j \in DOMAIN items : items[j].card = card => j <= i

\* Mutant: a batch may name a card twice.
DuplicatesPass(items) == TRUE

NoDuplicates(items) ==
    \A i, j \in DOMAIN items : i # j => items[i].card # items[j].card

\* Mutant: the batch's policy is not compared with the card's.
ItemOfAnyPolicy(item, policy) ==
    /\ cards[item.card].exists
    /\ cards[item.card].head = item.prev

ItemValid(item, policy) ==
    /\ cards[item.card].exists
    /\ cards[item.card].policy = policy
    /\ cards[item.card].head = item.prev

BatchUpdateCardHeads(self, policy, press, items, payload) ==
    /\ ValidateWriteGate(policy, press, payload, "batch_update_card_heads")
    /\ NoDuplicates(items)
    /\ \A i \in DOMAIN items : ItemValid(items[i], policy)
    /\ IncrementPressSequence(self, policy, press)
    /\ Accept(policy, press, payload)
    /\ UpdateCardHeads(self, [c \in BatchCards(items) |-> items[LastItem(items, c)].new], press)
    /\ EmitHeads(BatchCards(items),
                 [c \in BatchCards(items) |->
                    {[prev |-> items[i].prev, new |-> items[i].new] :
                        i \in {j \in DOMAIN items : items[j].card = c}}])
    /\ UNCHANGED <<subCards, offerCounts, policyVars, bodyVars, otherVars,
                   now, epoch, claims>>

-----------------------------------------------------------------------------
(* Sub-card operations (subcard_ops.rs)                                     *)

SnapshotCurrent(master, head) == cards[master].exists /\ cards[master].head = head

\* adminSigner is the key that signed the admin payload, Nil for the zero
\* signature that masters which administer no domain must pass.
RegisterSubCard(self, sub, master, head, press, payload, adminSigner) ==
    /\ SnapshotCurrent(master, head)
    /\ ~subCards[sub].active
    /\ adminSigner = adminKeys[master]
    /\ Gate(self, cards[master].policy, press, payload, "register_sub_card")
    /\ SetSubCardEntry(self, sub, [master |-> master, head |-> head, active |-> TRUE,
                                   deregisteredAt |-> 0])
    /\ UNCHANGED <<cards, offerCounts, policyVars, bodyVars, otherVars,
                   now, headLog, epoch, claims>>

DeregisterSubCard(self, sub, press, payload) ==
    LET master == subCards[sub].master IN
    /\ master # Nil
    /\ subCards[sub].active
    /\ cards[master].exists
    /\ Gate(self, cards[master].policy, press, payload, "deregister_sub_card")
    /\ SetSubCardEntry(self, sub, [subCards[sub] EXCEPT !.active = FALSE,
                                                        !.deregisteredAt = now])
    /\ UNCHANGED <<cards, offerCounts, policyVars, bodyVars, otherVars,
                   now, headLog, epoch, claims>>

-----------------------------------------------------------------------------
(* Policy and press operations (governance_ops.rs)                          *)

RegisterPolicy(self, policy, payload, sigs) ==
    /\ policy \notin policies
    /\ VerifyGovernanceQuorum(self, "Root", payload, sigs)
    /\ SetPolicyAuthorizerKey(self, policy)
    /\ UNCHANGED <<pressVars, deleteDisabled, keysets, otherVars, now, historyVars>>

DeregisterPolicy(self, policy, payload, sigs) ==
    /\ policy \in policies
    /\ VerifyGovernanceQuorum(self, "Root", payload, sigs)
    /\ DeletePolicyAuthorizerKey(self, policy)
    /\ UNCHANGED <<pressVars, deleteDisabled, keysets, otherVars, now, historyVars>>

\* Only the presence of a policy's authorizer key is modelled, never its value.
RotateAuthorizerKey(self, policy, payload, sigs) ==
    /\ policy \in policies
    /\ VerifyGovernanceQuorum(self, "Root", payload, sigs)
    /\ SetPolicyAuthorizerKey(self, policy)
    /\ UNCHANGED <<pressVars, deleteDisabled, keysets, otherVars, now, historyVars>>

AuthorizePress(self, policy, press, key, payload, sigs) ==
    /\ policy \in policies
    /\ VerifyGovernanceQuorum(self, "PressRegistry", payload, sigs)
    /\ SetPressAuthEntry(self, policy, press, [key |-> key, active |-> TRUE, sequence |-> 0])
    /\ epoch' = [epoch EXCEPT ![<<policy, press>>] = @ + 1]
    /\ UNCHANGED <<cards, subCards, offerCounts, policyVars, keysets, otherVars, now,
                   headLog, gateLog, claims>>

RevokePress(self, policy, press, payload, sigs) ==
    /\ auth[<<policy, press>>].key # Nil
    /\ auth[<<policy, press>>].active
    /\ VerifyGovernanceQuorum(self, "PressRegistry", payload, sigs)
    /\ SetPressAuthEntry(self, policy, press, [auth[<<policy, press>>] EXCEPT !.active = FALSE])
    /\ UNCHANGED <<cards, subCards, offerCounts, policyVars, keysets, otherVars, now,
                   historyVars>>

DisablePolicyDeletePermanently(self, payload, sigs) ==
    /\ ~deleteDisabled
    /\ VerifyGovernanceQuorum(self, "Root", payload, sigs)
    /\ DisablePolicyDelete(self)
    /\ UNCHANGED <<pressVars, policies, keysets, otherVars, now, historyVars>>

-----------------------------------------------------------------------------

Tick ==
    /\ now < MaxTime
    /\ now' = now + 1
    /\ UNCHANGED <<storageVars, historyVars>>

\* A payload that names another operation reverts (ValidateWriteGate), so each
\* call is tried with payloads for its own operation.
PressCall(self, press) ==
    \/ \E payload \in PressPayload("register_card"), c \in Card, h \in Cid, p \in Policy :
          RegisterCard(self, c, h, p, press, payload)
    \/ \E payload \in PressPayload("update_card_head"), c \in Card, new, prev \in Cid :
          UpdateCardHead(self, c, new, prev, press, payload)
    \/ \E payload \in PressPayload("claim_open_offer"),
          o \in Offer, t \in OfferTerms, c \in Card, h \in Cid, p \in Policy :
          ClaimOpenOffer(self, o, t.max, t.expires, c, h, p, press, payload)
    \/ \E payload \in PressPayload("register_address_forward"), old, new \in Card :
          RegisterAddressForward(self, old, new, press, payload)
    \/ \E payload \in PressPayload("batch_update_card_heads"), p \in Policy, items \in Batch :
          BatchUpdateCardHeads(self, p, press, items, payload)
    \/ \E payload \in PressPayload("register_sub_card"),
          s \in SubCard, m \in Card, h \in Cid, k \in Key \cup {Nil} :
          RegisterSubCard(self, s, m, h, press, payload, k)
    \/ \E payload \in PressPayload("deregister_sub_card"), s \in SubCard :
          DeregisterSubCard(self, s, press, payload)

GovernanceCall(self, payload, sigs) ==
    \/ \E p \in Policy : \/ RegisterPolicy(self, p, payload, sigs)
                         \/ DeregisterPolicy(self, p, payload, sigs)
                         \/ RotateAuthorizerKey(self, p, payload, sigs)
    \/ \E p \in Policy, r \in Press, k \in Key : AuthorizePress(self, p, r, k, payload, sigs)
    \/ \E p \in Policy, r \in Press : RevokePress(self, p, r, payload, sigs)
    \/ DisablePolicyDeletePermanently(self, payload, sigs)

Next ==
    \/ Tick
    \/ \E self \in Logic, press \in Press : PressCall(self, press)
    \/ \E self \in Logic, payload \in GovernancePayload, sigs \in SignerList :
          GovernanceCall(self, payload, sigs)

Spec == Init /\ [][Next]_vars

-----------------------------------------------------------------------------
(* Safety                                                                   *)

Chained(log, card) ==
    /\ card.exists <=> log # <<>>
    /\ \A i \in 1..Len(log) : \E e \in HeadEvent :
          /\ log[i] = {e}
          /\ i = 1 => e.prev = Nil
          /\ i > 1 => \E f \in log[i - 1] : e.prev = f.new
          /\ i = Len(log) => e.new = card.head

\* The head events of a card form one chain: every transaction moved the head
\* once, from exactly where the transaction before it had left it, and storage
\* holds the end of the chain.  No update is lost, whatever races and whichever
\* of the three operations (register, update, batch) wrote.
HeadChain == \A c \in Card : Chained(headLog[c], cards[c])

SpentOnce(log, current, next) ==
    LET spent == {i \in 1..Len(log) : log[i].epoch = current} IN
    /\ \A i, j \in spent : i < j => log[i].sequence < log[j].sequence
    /\ \A i \in spent : log[i].sequence < next
    /\ \A n \in 0..(next - 1) : \E i \in spent : log[i].sequence = n

\* Since a press was last authorized, the gate accepted no sequence number twice
\* and skipped none: a signed payload is spent by the write it authorized, a batch
\* spends one, and no write of another operation can reuse it.
SequenceSpentOnce ==
    \A a \in Policy \X Press : SpentOnce(gateLog[a], epoch[a], auth[a].sequence)

\* An offer has one count, whichever presses claim through it and whatever terms
\* each of them names: the use numbers 1, 2, ... are given out once each, to a
\* card each, and a claim that named a limit or an expiry got a number within
\* that limit before that expiry.  So presses that race for the last place of an
\* offer get it once, and a number beyond the limit of the offer's document is
\* always the claim of a caller that named another limit.
OfferHonoured ==
    \A o \in Offer :
        /\ \A n \in 1..offerCounts[o] : \E k \in claims[o] : k.use = n
        /\ \A k \in claims[o] :
              /\ k.use \in 1..offerCounts[o]
              /\ k.max # Unlimited => k.use <= k.max
              /\ k.expires # 0 => k.at < k.expires
        /\ \A k, l \in claims[o] : k.use = l.use \/ k.card = l.card => k = l

\* A sub-card's registration snapshot is a head its master card really had: the
\* check against the stored head leaves no window between reading and writing.
SnapshotIsAHead ==
    \A s \in SubCard : subCards[s].master # Nil =>
        \E i \in 1..Len(headLog[subCards[s].master]) :
            \E e \in headLog[subCards[s].master][i] : e.new = subCards[s].head

\* Identity is permanent: a card keeps its policy, a sub-card its master and its
\* snapshot; a forward is final; a sub-card once deregistered is never active
\* again, not even under another master; the master of a sub-card exists.
IdentityPermanent ==
    [][/\ \A c \in Card : cards[c].exists =>
              /\ cards'[c].exists /\ cards'[c].policy = cards[c].policy
              /\ cards[c].forward # Nil => cards'[c].forward = cards[c].forward
       /\ \A s \in SubCard : subCards[s].master # Nil =>
              /\ subCards'[s].master = subCards[s].master
              /\ subCards'[s].head = subCards[s].head
              /\ ~subCards[s].active => subCards'[s] = subCards[s]]_vars

\* Every head a card gets is written by a press that at that moment is active
\* under the card's own recognized policy, and that press is the one recorded:
\* through single updates, batches and claims alike.
HeadsWrittenWithAuthority ==
    [][\A c \in Card : headLog'[c] # headLog[c] =>
          LET p == cards'[c].policy  r == cards'[c].lastPress IN
          /\ p \in policies
          /\ r \in Press /\ auth[<<p, r>>].active
          /\ auth'[<<p, r>>].sequence = auth[<<p, r>>].sequence + 1]_vars

=============================================================================
