------------------------- MODULE CardRegistryProofs -------------------------
(***************************************************************************)
(* What is proved of the registry of cards: the audit trail of RegistryStorage *)
(* and the types and safety properties of CardRegistry.                       *)
(***************************************************************************)
EXTENDS DnsRegistry, FiniteSetTheorems, TLAPS

-----------------------------------------------------------------------------
(* RegistryStorage: what it promises whatever logic contract it is given.     *)
(* StorageSpec runs every setter with any arguments, in any order, under       *)
(* callers that replace each other.                                         *)

AuditType ==
    /\ cards \in [Card -> CardEntry]
    /\ subCards \in [SubCard -> SubCardEntry]
    /\ domains \in [Domain -> DomainEntry]
    /\ deleteDisabled \in BOOLEAN

LEMMA AuditTypeInit ==
    ASSUME NEW l \in Logic, NEW k \in Key, StorageInit(l, k)
    PROVE  AuditType
<1>1. cards \in [Card -> CardEntry]
    BY DEF StorageInit, CardEntry, NoCard
<1>2. subCards \in [SubCard -> SubCardEntry]
    BY DEF StorageInit, SubCardEntry, NoSubCard
<1>3. domains \in [Domain -> DomainEntry]
    BY DEF StorageInit, DomainEntry, NoDomain
<1>4. QED
    BY <1>1, <1>2, <1>3 DEF AuditType, StorageInit

\* A setter of one table leaves the others alone.
CardsAudited ==
    \A c \in Card : /\ cards[c].exists => cards'[c].exists
                    /\ cards[c].forward # Nil => cards'[c].forward = cards[c].forward
SubCardsAudited ==
    \A s \in SubCard : subCards[s].deregisteredAt # 0 => subCards'[s].deregisteredAt # 0
DomainsAudited == \A d \in Domain : domains[d].exists => domains'[d].exists
PoliciesAudited == deleteDisabled => deleteDisabled' /\ policies \subseteq policies'

LEMMA CardSetters ==
    ASSUME AuditType, NEW caller, AnyCardSetter(caller)
    PROVE  AuditType' /\ CardsAudited
<1>1. UNCHANGED <<subCards, domains, deleteDisabled>>
    BY DEF AnyCardSetter, policyVars, dnsVars
<1>2. CASE \E c \in Card, h \in Cid, p \in Policy, r \in Press, e \in BOOLEAN :
              SetCardEntry(caller, c, h, p, r, e)
    BY <1>1, <1>2 DEF AuditType, CardsAudited, SetCardEntry, CardEntry
<1>3. CASE \E c \in Card, n \in Card \cup {Nil} : SetForwardTo(caller, c, n)
    BY <1>1, <1>3 DEF AuditType, CardsAudited, SetForwardTo, CardEntry
<1>4. CASE \E c \in Card, h \in Cid, r \in Press :
              UpdateCardHeads(caller, [x \in {c} |-> h], r)
  <2>1. PICK c \in Card, h \in Cid, r \in Press : UpdateCardHeads(caller, [x \in {c} |-> h], r)
      BY <1>4
  <2>2. cards' = [d \in Card |-> IF d = c THEN [cards[d] EXCEPT !.head = h, !.lastPress = r]
                                          ELSE cards[d]]
      BY <2>1 DEF UpdateCardHeads
  <2>3. \A d \in Card : cards'[d] \in CardEntry
      BY <2>2 DEF AuditType, CardEntry
  <2>4. QED
      BY <1>1, <2>2, <2>3 DEF AuditType, CardsAudited, CardEntry
<1>5. QED
    BY <1>2, <1>3, <1>4 DEF AnyCardSetter

LEMMA SubCardSetters ==
    ASSUME AuditType, NEW caller, AnySubCardSetter(caller)
    PROVE  AuditType' /\ SubCardsAudited
<1>1. UNCHANGED <<cards, domains, deleteDisabled>>
    BY DEF AnySubCardSetter, policyVars, dnsVars
<1>2. PICK s \in SubCard, m \in Card, h \in Cid, on \in BOOLEAN, t \in 0..MaxTime :
          SetSubCardEntry(caller, s, [master |-> m, head |-> h, active |-> on,
                                      deregisteredAt |-> t])
    BY DEF AnySubCardSetter
<1>3. [master |-> m, head |-> h, active |-> on, deregisteredAt |-> t] \in SubCardEntry
    BY StorageAssumption DEF SubCardEntry
<1>4. QED
    BY <1>1, <1>2, <1>3 DEF AuditType, SubCardsAudited, SetSubCardEntry

LEMMA DomainSetters ==
    ASSUME AuditType, NEW caller, AnyDnsSetter(caller)
    PROVE  AuditType' /\ DomainsAudited
<1>1. UNCHANGED <<cards, subCards, deleteDisabled>>
    BY DEF AnyDnsSetter, pressVars, policyVars
<1>2. CASE UNCHANGED domains
    BY <1>1, <1>2 DEF AuditType, DomainsAudited
<1>3. CASE \E d \in Domain, a \in Card \cup {Nil}, r \in 0..2, t \in 0..MaxTime, e \in BOOLEAN :
              SetDomainEntry(caller, d, [exists |-> e, admin |-> a, risk |-> r,
                                         suspendedUntil |-> t])
  <2>1. PICK d \in Domain, a \in Card \cup {Nil}, r \in 0..2, t \in 0..MaxTime, e \in BOOLEAN :
            SetDomainEntry(caller, d, [exists |-> e, admin |-> a, risk |-> r,
                                       suspendedUntil |-> t])
      BY <1>3
  <2>2. [exists |-> e, admin |-> a, risk |-> r, suspendedUntil |-> t] \in DomainEntry
      BY StorageAssumption DEF DomainEntry
  <2>3. QED
      BY <1>1, <2>1, <2>2 DEF AuditType, DomainsAudited, SetDomainEntry
<1>4. QED
    BY <1>2, <1>3 DEF AnyDnsSetter

LEMMA PolicySetters ==
    ASSUME AuditType, NEW caller, AnyPolicySetter(caller)
    PROVE  AuditType' /\ PoliciesAudited
<1>1. UNCHANGED <<cards, subCards, domains>>
    BY DEF AnyPolicySetter, pressVars, dnsVars
<1>2. QED
    BY <1>1 DEF AuditType, PoliciesAudited, AnyPolicySetter, SetPolicyAuthorizerKey,
                DeletePolicyAuthorizerKey, DisablePolicyDelete

LEMMA StepAudited ==
    ASSUME AuditType, [StorageNext]_storageVars
    PROVE  AuditType' /\ AuditTrail
<1> USE DEF CardsAudited, SubCardsAudited, DomainsAudited, PoliciesAudited
<1>1. ASSUME NEW caller \in Logic, AnyCardSetter(caller)
      PROVE  AuditType' /\ AuditTrail
    BY <1>1, CardSetters DEF AnyCardSetter, policyVars, dnsVars, AuditTrail
<1>2. ASSUME NEW caller \in Logic, AnySubCardSetter(caller)
      PROVE  AuditType' /\ AuditTrail
    BY <1>2, SubCardSetters DEF AnySubCardSetter, policyVars, dnsVars, AuditTrail
<1>3. ASSUME NEW caller \in Logic, AnyDnsSetter(caller)
      PROVE  AuditType' /\ AuditTrail
    BY <1>3, DomainSetters DEF AnyDnsSetter, policyVars, pressVars, AuditTrail
<1>4. ASSUME NEW caller \in Logic, AnyPolicySetter(caller)
      PROVE  AuditType' /\ AuditTrail
    BY <1>4, PolicySetters DEF AnyPolicySetter, dnsVars, pressVars, AuditTrail
<1>5. ASSUME UNCHANGED <<cards, subCards, domains, policyVars>>
      PROVE  AuditType' /\ AuditTrail
    BY <1>5 DEF AuditType, AuditTrail, policyVars
<1>6. QED
    BY <1>1, <1>2, <1>3, <1>4, <1>5
    DEF StorageNext, AnyPressSetter, AnyOfferSetter, AnyBodySetter, AnyUpgradeSetter,
        storageVars, pressVars, policyVars, dnsVars

\* registry_contract.md, the table of unconditional storage invariants: no logic
\* contract, present or future, can take a card, a forward, a deregistration, a
\* domain or the policy-delete switch back.
THEOREM AuditTrailIsPermanent == StorageSpec => AuditTrailPermanent
<1>1. ASSUME \E l \in Logic, k \in Key : StorageInit(l, k) PROVE AuditType
    BY <1>1, AuditTypeInit
<1>2. AuditType /\ [StorageNext]_storageVars => AuditType'
    BY StepAudited
<1>3. AuditType /\ [StorageNext]_storageVars => [AuditTrail]_storageVars
    BY StepAudited
<1>4. QED
    BY <1>1, <1>2, <1>3, PTL DEF StorageSpec, AuditTrailPermanent

-----------------------------------------------------------------------------
(* CardRegistry: the types                                                  *)

\* What a call can never disturb is grouped, so that each step of a proof
\* expands only the variables it is about.
LEMMA InitTypeOK == Init => TypeOK
<1> SUFFICES ASSUME Init PROVE TypeOK
    OBVIOUS
<1>1. PICK l \in Logic, k \in Key : StorageInit(l, k)
    BY DEF Init
<1>2. [keys |-> <<k>>, quorum |-> 1, version |-> 0] \in Keyset
    BY DEF Keyset
<1>3. StorageTypeOK
  <2>1. cards \in [Card -> CardEntry]
    BY <1>1 DEF StorageInit, NoCard, CardEntry
  <2>2. auth \in [Policy \X Press -> PressAuthEntry]
    BY <1>1 DEF StorageInit, NoAuth, PressAuthEntry
  <2>3. subCards \in [SubCard -> SubCardEntry]
    BY <1>1 DEF StorageInit, NoSubCard, SubCardEntry
  <2>4. keysets \in [Body -> Keyset]
    BY <1>1, <1>2 DEF StorageInit
  <2>5. pendingLogic \in PendingUpgrade
    BY <1>1 DEF StorageInit, NoUpgrade, PendingUpgrade
  <2>6. domains \in [Domain -> DomainEntry]
    BY <1>1 DEF StorageInit, NoDomain, DomainEntry
  <2>7. QED
    BY <1>1, <2>1, <2>2, <2>3, <2>4, <2>5, <2>6 DEF StorageInit, StorageTypeOK
<1>4. QED
    BY <1>3 DEF Init, TypeOK

-----------------------------------------------------------------------------
(* Setters and events keep the type of the variable they write.             *)

CardsType == cards \in [Card -> CardEntry]
AuthType == auth \in [Policy \X Press -> PressAuthEntry]
HeadLogType == headLog \in [Card -> Seq(SUBSET HeadEvent)]
GateLogType == gateLog \in [Policy \X Press -> Seq(GateEvent)]

LEMMA SetCardEntryType ==
    ASSUME CardsType, NEW self, NEW c \in Card, NEW h \in Cid, NEW p \in Policy,
           NEW r \in Press, SetCardEntry(self, c, h, p, r, TRUE)
    PROVE  CardsType'
BY DEF CardsType, SetCardEntry, CardEntry

LEMMA SetForwardToType ==
    ASSUME CardsType, NEW self, NEW c \in Card, NEW n \in Card, SetForwardTo(self, c, n)
    PROVE  CardsType'
BY DEF CardsType, SetForwardTo, CardEntry

LEMMA UpdateCardHeadsType ==
    ASSUME CardsType, NEW self, NEW r \in Press, NEW heads,
           \A c \in DOMAIN heads : heads[c] \in Cid, UpdateCardHeads(self, heads, r)
    PROVE  CardsType'
BY ZenonT(60) DEF CardsType, UpdateCardHeads, CardEntry

LEMMA IncrementType ==
    ASSUME AuthType, NEW self, NEW p \in Policy, NEW r \in Press,
           IncrementPressSequence(self, p, r)
    PROVE  AuthType'
BY DEF AuthType, IncrementPressSequence, PressAuthEntry

LEMMA EmitHeadsType ==
    ASSUME HeadLogType, NEW cs, NEW events, \A c \in cs : events[c] \in SUBSET HeadEvent,
           EmitHeads(cs, events)
    PROVE  HeadLogType'
BY DEF HeadLogType, EmitHeads

LEMMA EmitHeadType ==
    ASSUME HeadLogType, NEW c \in Card, NEW prev \in Cid \cup {Nil}, NEW new \in Cid,
           EmitHead(c, prev, new)
    PROVE  HeadLogType'
BY EmitHeadsType DEF EmitHead, HeadEvent

\* A payload as a press may sign one: PressPayload bounds the sequence number.
SignedPayload(op) == [signer : Key, op : {op}, sequence : Nat]

LEMMA PayloadsAreSigned == \A op \in PressOp : PressPayload(op) \subseteq SignedPayload(op)
BY StorageAssumption DEF PressPayload, SignedPayload

LEMMA AcceptType ==
    ASSUME GateLogType, epoch \in [Policy \X Press -> Nat], NEW p \in Policy, NEW r \in Press,
           NEW op \in PressOp, NEW payload \in SignedPayload(op), Accept(p, r, payload)
    PROVE  GateLogType'
<1> DEFINE e == [epoch |-> epoch[<<p, r>>], signer |-> payload.signer,
                 op |-> payload.op, sequence |-> payload.sequence]
<1>1. e \in GateEvent
    BY DEF GateEvent, SignedPayload
<1>2. gateLog' = [gateLog EXCEPT ![<<p, r>>] = Append(@, e)]
    BY DEF Accept
<1>3. QED
    BY <1>1, <1>2 DEF GateLogType
-----------------------------------------------------------------------------
(* Each operation keeps the type invariant.                                 *)

\* The gate's two effects: the sequence number moves, the payload is logged.
LEMMA GateType ==
    ASSUME TypeOK, NEW self, NEW p, NEW r \in Press,
           NEW op \in PressOp, NEW payload \in SignedPayload(op), Gate(self, p, r, payload, op)
    PROVE  AuthType' /\ GateLogType'
<1>1. p \in Policy
    BY DEF TypeOK, StorageTypeOK, Gate, RunWriteGate, ValidateWriteGate
<1>2. QED
    BY <1>1, IncrementType, AcceptType
       DEF TypeOK, StorageTypeOK, AuthType, GateLogType, Gate, RunWriteGate

\* A step that moves only these four variables, each to a value of its type.
LEMMA PressStepType ==
    ASSUME TypeOK, CardsType', AuthType', HeadLogType', GateLogType',
           subCards' \in [SubCard -> SubCardEntry], offerCounts' \in [Offer -> Nat],
           claims' \in [Offer -> SUBSET Claim],
           UNCHANGED <<policyVars, bodyVars, otherVars, now, epoch>>
    PROVE  TypeOK'
BY DEF TypeOK, StorageTypeOK, CardsType, AuthType, GateLogType, HeadLogType,
       policyVars, bodyVars, otherVars, upgradeVars

LEMMA GovernanceStepType ==
    ASSUME TypeOK, NEW self, NEW body, NEW payload \in GovernancePayload, NEW sigs,
           VerifyGovernanceQuorum(self, body, payload, sigs),
           AuthType', policies' \subseteq Policy, deleteDisabled' \in BOOLEAN,
           epoch' \in [Policy \X Press -> Nat],
           UNCHANGED <<cards, subCards, offerCounts, keysets, otherVars, now,
                       headLog, gateLog, claims>>
    PROVE  TypeOK'
<1>1. usedNonces' \subseteq Nonce
    BY DEF TypeOK, StorageTypeOK, VerifyGovernanceQuorum, MarkNonceUsed, GovernancePayload
<1>2. QED
    BY <1>1 DEF TypeOK, StorageTypeOK, AuthType, otherVars, upgradeVars

LEMMA RegisterCardType ==
    ASSUME TypeOK, NEW self \in Logic,
           NEW r \in Press, NEW payload \in SignedPayload("register_card"),
           NEW c \in Card, NEW h \in Cid, NEW p \in Policy,
           RegisterCard(self, c, h, p, r, payload)
    PROVE  TypeOK'
<1>1. CardsType'
    BY SetCardEntryType DEF TypeOK, StorageTypeOK, CardsType, RegisterCard
<1>2. AuthType' /\ GateLogType'
    BY GateType DEF RegisterCard, PressOp
<1>3. HeadLogType'
    BY EmitHeadType DEF TypeOK, HeadLogType, RegisterCard
<1>4. QED
    BY <1>1, <1>2, <1>3, PressStepType DEF TypeOK, StorageTypeOK, RegisterCard

LEMMA UpdateCardHeadType ==
    ASSUME TypeOK, NEW self \in Logic,
           NEW r \in Press, NEW payload \in SignedPayload("update_card_head"),
           NEW c \in Card, NEW new \in Cid, NEW prev \in Cid \cup {Nil},
           UpdateCardHead(self, c, new, prev, r, payload)
    PROVE  TypeOK'
<1>1. CardsType'
    BY UpdateCardHeadsType DEF TypeOK, StorageTypeOK, CardsType, UpdateCardHead
<1>2. AuthType' /\ GateLogType'
    BY GateType DEF UpdateCardHead, PressOp
<1>3. HeadLogType'
    BY EmitHeadType DEF TypeOK, HeadLogType, UpdateCardHead
<1>4. QED
    BY <1>1, <1>2, <1>3, PressStepType DEF TypeOK, StorageTypeOK, UpdateCardHead

LEMMA ClaimOpenOfferType ==
    ASSUME TypeOK, NEW self \in Logic,
           NEW r \in Press, NEW payload \in SignedPayload("claim_open_offer"), NEW o \in Offer,
           NEW max \in Nat, NEW expires \in Nat,
           NEW c \in Card, NEW h \in Cid, NEW p \in Policy,
           ClaimOpenOffer(self, o, max, expires, c, h, p, r, payload)
    PROVE  TypeOK'
<1>1. CardsType'
    BY SetCardEntryType DEF TypeOK, StorageTypeOK, CardsType, ClaimOpenOffer
<1>2. AuthType' /\ GateLogType'
    BY GateType DEF ClaimOpenOffer, PressOp
<1>3. HeadLogType'
    BY EmitHeadType DEF TypeOK, HeadLogType, ClaimOpenOffer
<1>4. offerCounts' \in [Offer -> Nat]
    BY DEF TypeOK, StorageTypeOK, ClaimOpenOffer, SetOpenOfferCount
<1>5. claims' \in [Offer -> SUBSET Claim]
  <2> DEFINE k == [card |-> c, at |-> now, max |-> max, expires |-> expires,
                   use |-> offerCounts[o] + 1]
  <2>1. k \in Claim
    BY DEF TypeOK, StorageTypeOK, Claim
  <2>2. claims' = [claims EXCEPT ![o] = @ \cup {k}]
    BY DEF ClaimOpenOffer
  <2> HIDE DEF k
  <2>3. QED
    BY <2>1, <2>2 DEF TypeOK
<1>6. QED
    BY <1>1, <1>2, <1>3, <1>4, <1>5, PressStepType DEF TypeOK, StorageTypeOK, ClaimOpenOffer

LEMMA RegisterAddressForwardType ==
    ASSUME TypeOK, NEW self \in Logic,
           NEW r \in Press, NEW payload, NEW old \in Card, NEW new \in Card,
           RegisterAddressForward(self, old, new, r, payload)
    PROVE  TypeOK'
<1>1. CardsType'
    BY SetForwardToType DEF TypeOK, StorageTypeOK, CardsType, RegisterAddressForward
<1>2. QED
    BY <1>1, PressStepType DEF TypeOK, StorageTypeOK, AuthType, GateLogType, HeadLogType,
       RegisterAddressForward, historyVars

LEMMA BatchUpdateCardHeadsType ==
    ASSUME TypeOK, NEW self \in Logic,
           NEW r \in Press, NEW payload \in SignedPayload("batch_update_card_heads"),
           NEW p \in Policy, NEW items \in Batch,
           BatchUpdateCardHeads(self, p, r, items, payload)
    PROVE  TypeOK'
<1>1. \A i \in DOMAIN items : items[i] \in [card : Card, prev : Cid, new : Cid]
    BY RegistryAssumption DEF Batch
<1>2. \A c \in BatchCards(items) : LastItem(items, c) \in DOMAIN items
  <2> SUFFICES ASSUME NEW i \in DOMAIN items
               PROVE  LastItem(items, items[i].card) = i
    BY DEF BatchCards
  <2>1. \A j \in DOMAIN items : j \in Int
    BY DEF Batch
  <2>2. \A j \in DOMAIN items : items[j].card = items[i].card => j = i
    BY DEF BatchUpdateCardHeads, NoDuplicates
  <2>3. QED
    BY <2>1, <2>2 DEF LastItem
<1>3. CardsType'
    BY <1>1, <1>2, UpdateCardHeadsType
    DEF TypeOK, StorageTypeOK, CardsType, BatchUpdateCardHeads
<1>4. AuthType' /\ GateLogType'
    BY IncrementType, AcceptType
       DEF TypeOK, StorageTypeOK, AuthType, GateLogType, BatchUpdateCardHeads, PressOp
<1>5. HeadLogType'
    BY <1>1, EmitHeadsType DEF TypeOK, HeadLogType, BatchUpdateCardHeads, HeadEvent
<1>6. QED
    BY <1>3, <1>4, <1>5, PressStepType DEF TypeOK, StorageTypeOK, BatchUpdateCardHeads

LEMMA RegisterSubCardType ==
    ASSUME TypeOK, NEW self \in Logic,
           NEW r \in Press, NEW payload \in SignedPayload("register_sub_card"),
           NEW s \in SubCard, NEW m \in Card, NEW h \in Cid \cup {Nil}, NEW k,
           RegisterSubCard(self, s, m, h, r, payload, k)
    PROVE  TypeOK'
<1>1. AuthType' /\ GateLogType'
    BY GateType DEF RegisterSubCard, PressOp
<1>2. subCards' \in [SubCard -> SubCardEntry]
    BY DEF TypeOK, StorageTypeOK, RegisterSubCard, SetSubCardEntry, SubCardEntry
<1>3. QED
    BY <1>1, <1>2, PressStepType
    DEF TypeOK, StorageTypeOK, CardsType, HeadLogType, RegisterSubCard

LEMMA DeregisterSubCardType ==
    ASSUME TypeOK, NEW self \in Logic,
           NEW r \in Press, NEW payload \in SignedPayload("deregister_sub_card"), NEW s \in SubCard,
           DeregisterSubCard(self, s, r, payload)
    PROVE  TypeOK'
<1>1. AuthType' /\ GateLogType'
    BY GateType DEF DeregisterSubCard, PressOp
<1>2. subCards' \in [SubCard -> SubCardEntry]
    BY ZenonT(60) DEF TypeOK, StorageTypeOK, DeregisterSubCard, SetSubCardEntry, SubCardEntry
<1>3. QED
    BY <1>1, <1>2, PressStepType
    DEF TypeOK, StorageTypeOK, CardsType, HeadLogType, DeregisterSubCard

LEMMA GovernanceCallType ==
    ASSUME TypeOK, NEW self \in Logic, NEW payload \in GovernancePayload, NEW sigs,
           GovernanceCall(self, payload, sigs)
    PROVE  TypeOK'
<1>1. CASE \E p \in Policy : RegisterPolicy(self, p, payload, sigs)
    BY <1>1, GovernanceStepType DEF TypeOK, StorageTypeOK, AuthType, RegisterPolicy,
       SetPolicyAuthorizerKey, pressVars, historyVars
<1>2. CASE \E p \in Policy : DeregisterPolicy(self, p, payload, sigs)
    BY <1>2, GovernanceStepType DEF TypeOK, StorageTypeOK, AuthType, DeregisterPolicy,
       DeletePolicyAuthorizerKey, pressVars, historyVars
<1>3. CASE \E p \in Policy : RotateAuthorizerKey(self, p, payload, sigs)
    BY <1>3, GovernanceStepType DEF TypeOK, StorageTypeOK, AuthType, RotateAuthorizerKey,
       SetPolicyAuthorizerKey, pressVars, historyVars
<1>4. CASE \E p \in Policy, r \in Press, k \in Key : AuthorizePress(self, p, r, k, payload, sigs)
  <2>1. PICK p \in Policy, r \in Press, k \in Key : AuthorizePress(self, p, r, k, payload, sigs)
    BY <1>4
  <2>2. AuthType'
    BY <2>1 DEF TypeOK, StorageTypeOK, AuthType, AuthorizePress, SetPressAuthEntry,
       PressAuthEntry
  <2>3. epoch' \in [Policy \X Press -> Nat]
    BY <2>1 DEF TypeOK, AuthorizePress
  <2>4. QED
    BY <2>1, <2>2, <2>3, GovernanceStepType
    DEF TypeOK, StorageTypeOK, AuthorizePress, policyVars
<1>5. CASE \E p \in Policy, r \in Press : RevokePress(self, p, r, payload, sigs)
  <2>1. PICK p \in Policy, r \in Press : RevokePress(self, p, r, payload, sigs)
    BY <1>5
  <2>2. AuthType'
    BY <2>1, ZenonT(60)
    DEF TypeOK, StorageTypeOK, AuthType, RevokePress, SetPressAuthEntry, PressAuthEntry
  <2>3. QED
    BY <2>1, <2>2, GovernanceStepType DEF TypeOK, StorageTypeOK, RevokePress, policyVars,
       historyVars
<1>6. CASE DisablePolicyDeletePermanently(self, payload, sigs)
    BY <1>6, GovernanceStepType DEF TypeOK, StorageTypeOK, AuthType,
       DisablePolicyDeletePermanently, DisablePolicyDelete, pressVars, historyVars
<1>7. QED
    BY <1>1, <1>2, <1>3, <1>4, <1>5, <1>6 DEF GovernanceCall

LEMMA PressCallType ==
    ASSUME TypeOK, NEW self \in Logic, NEW r \in Press, PressCall(self, r)
    PROVE  TypeOK'
<1>1. \A op \in PressOp : \A payload \in PressPayload(op) : payload \in SignedPayload(op)
    BY PayloadsAreSigned
<1>2. \A t \in OfferTerms : t.max \in Nat /\ t.expires \in Nat
    BY RegistryAssumption
<1>3. QED
    BY <1>1, <1>2, RegisterCardType, UpdateCardHeadType, ClaimOpenOfferType,
       RegisterAddressForwardType,
       BatchUpdateCardHeadsType, RegisterSubCardType, DeregisterSubCardType DEF PressCall, PressOp

LEMMA NextType ==
    ASSUME TypeOK, [Next]_vars
    PROVE  TypeOK'
<1>1. CASE Tick
    BY <1>1
    DEF TypeOK, StorageTypeOK, Tick, storageVars, historyVars, pressVars, policyVars,
       bodyVars, upgradeVars, dnsVars
<1>2. CASE \E self \in Logic, r \in Press : PressCall(self, r)
    BY <1>2, PressCallType
<1>3. CASE \E self \in Logic, payload \in GovernancePayload, sigs \in SignerList :
              GovernanceCall(self, payload, sigs)
    BY <1>3, GovernanceCallType
<1>4. CASE UNCHANGED vars
    BY <1>4
    DEF TypeOK, StorageTypeOK, vars, storageVars, historyVars, pressVars, policyVars,
       bodyVars, upgradeVars, dnsVars
<1>5. QED
    BY <1>1, <1>2, <1>3, <1>4 DEF Next

\* Type correctness: whatever calls arrive, every mapping of storage and every
\* log keeps values of its type (in particular no card, sub-card or forward ever
\* names something that is no address).
THEOREM TypeCorrect == Spec => []TypeOK
BY InitTypeOK, NextType, PTL DEF Spec

-----------------------------------------------------------------------------
(* HeadChain                                                                *)

LEMMA ChainStart ==
    ASSUME NEW log, NEW card, ~card.exists, Chained(log, card), NEW card2, card2.exists,
           NEW new \in Cid, card2.head = new
    PROVE  Chained(Append(log, {[prev |-> Nil, new |-> new]}), card2)
<1>1. log = <<>>
    BY DEF Chained
<1> DEFINE e == [prev |-> Nil, new |-> new]
<1>2. e \in HeadEvent
    BY DEF HeadEvent
<1>3. Append(log, {e}) = <<{e}>>
    BY <1>1
<1>4. QED
    BY <1>2, <1>3 DEF Chained

LEMMA ChainExtended ==
    ASSUME NEW log \in Seq(SUBSET HeadEvent), NEW card, card.exists, Chained(log, card),
           NEW card2, card2.exists, NEW new \in Cid, card2.head = new, card.head \in Cid
    PROVE  Chained(Append(log, {[prev |-> card.head, new |-> new]}), card2)
<1> DEFINE e == [prev |-> card.head, new |-> new]
           log2 == Append(log, {e})
<1>1. e \in HeadEvent
    BY DEF HeadEvent
<1>2. Len(log) \in Nat /\ Len(log) > 0 /\ Len(log2) = Len(log) + 1 /\ log2[Len(log) + 1] = {e}
    BY DEF Chained
<1>3. \A i \in 1..Len(log) : log2[i] = log[i]
    OBVIOUS
<1>4. \E f \in log[Len(log)] : e.prev = f.new
    BY <1>2 DEF Chained
<1>5. ASSUME NEW i \in 1..Len(log2)
      PROVE  \E d \in HeadEvent : /\ log2[i] = {d}
                                  /\ i = 1 => d.prev = Nil
                                  /\ i > 1 => \E f \in log2[i - 1] : d.prev = f.new
                                  /\ i = Len(log2) => d.new = card2.head
  <2>1. CASE i \in 1..Len(log)
    <3>1. PICK d \in HeadEvent : /\ log[i] = {d}
                                 /\ i = 1 => d.prev = Nil
                                 /\ i > 1 => \E f \in log[i - 1] : d.prev = f.new
      BY <2>1 DEF Chained
    <3>2. log2[i] = {d}
      BY <1>3, <2>1, <3>1
    <3>3. i > 1 => log2[i - 1] = log[i - 1]
      BY <1>2, <1>3, <2>1
    <3>4. i # Len(log2)
      BY <1>2, <2>1
    <3>5. QED
      BY <3>1, <3>2, <3>3, <3>4
  <2>2. CASE i = Len(log) + 1
    <3>1. i > 1 /\ i - 1 = Len(log) /\ log2[i] = {e} /\ log2[i - 1] = log[Len(log)]
      BY <1>2, <1>3, <2>2
    <3>2. QED
      BY <1>1, <1>4, <3>1
  <2>3. QED
    BY <1>2, <2>1, <2>2
<1>6. log2 # <<>>
    BY <1>2
<1>7. QED
    BY <1>5, <1>6 DEF Chained

\* A step that emits no head event and moves no head.
LEMMA ChainFrame ==
    ASSUME HeadChain, headLog' = headLog,
           \A c \in Card : cards'[c].exists = cards[c].exists /\ cards'[c].head = cards[c].head
    PROVE  HeadChain'
BY DEF HeadChain, Chained

\* A step that registers one card.
LEMMA ChainRegister ==
    ASSUME TypeOK, HeadChain, NEW self, NEW c \in Card, NEW h \in Cid, NEW p, NEW r,
           ~cards[c].exists, SetCardEntry(self, c, h, p, r, TRUE), EmitHead(c, Nil, h)
    PROVE  HeadChain'
<1> SUFFICES ASSUME NEW d \in Card PROVE Chained(headLog'[d], cards'[d])
    BY DEF HeadChain
<1>1. Chained(headLog[d], cards[d])
    BY DEF HeadChain
<1>2. CASE d = c
  <2>1. cards'[c].exists /\ cards'[c].head = h
    BY DEF TypeOK, StorageTypeOK, SetCardEntry
  <2>2. headLog'[c] = Append(headLog[c], {[prev |-> Nil, new |-> h]})
    BY DEF EmitHead, EmitHeads
  <2>3. QED
    BY <1>1, <1>2, <2>1, <2>2, ChainStart
<1>3. CASE d # c
    BY <1>1, <1>3 DEF TypeOK, StorageTypeOK, SetCardEntry, EmitHead, EmitHeads
<1>4. QED
    BY <1>2, <1>3

\* A step that moves the heads of the cards of cs, each from where it is.
LEMMA ChainUpdate ==
    ASSUME TypeOK, HeadChain, NEW self, NEW r, NEW heads, NEW events,
           DOMAIN heads \subseteq Card,
           \A c \in DOMAIN heads : /\ cards[c].exists
                                   /\ heads[c] \in Cid
                                   /\ events[c] = {[prev |-> cards[c].head, new |-> heads[c]]},
           UpdateCardHeads(self, heads, r), EmitHeads(DOMAIN heads, events)
    PROVE  HeadChain'
<1> SUFFICES ASSUME NEW d \in Card PROVE Chained(headLog'[d], cards'[d])
    BY DEF HeadChain
<1>1. Chained(headLog[d], cards[d])
    BY DEF HeadChain
<1>2. CASE d \in DOMAIN heads
  <2>1. cards'[d].exists /\ cards'[d].head = heads[d]
    BY <1>2, ZenonT(60) DEF TypeOK, StorageTypeOK, CardEntry, UpdateCardHeads
  <2>2. headLog'[d] = Append(headLog[d], {[prev |-> cards[d].head, new |-> heads[d]]})
    BY <1>2 DEF EmitHeads
  <2>3. headLog[d] \in Seq(SUBSET HeadEvent)
    BY DEF TypeOK
  <2>4. cards[d].head \in Cid
    BY <1>1, <1>2, <2>3 DEF Chained, HeadEvent
  <2>5. QED
    BY <1>1, <1>2, <2>1, <2>2, <2>3, <2>4, ChainExtended, SMTT(40)
<1>3. CASE d \notin DOMAIN heads
    BY <1>1, <1>3 DEF UpdateCardHeads, EmitHeads
<1>4. QED
    BY <1>2, <1>3

\* An update names the card's stored head as the head it replaces.
LEMMA UpdateKeepsChain ==
    ASSUME TypeOK, HeadChain, NEW self \in Logic, NEW r \in Press, NEW payload,
           NEW c \in Card, NEW new \in Cid, NEW prev, UpdateCardHead(self, c, new, prev, r, payload)
    PROVE  HeadChain'
<1> DEFINE heads == [x \in {c} |-> new]
           events == [x \in {c} |-> {[prev |-> prev, new |-> new]}]
<1>1. DOMAIN heads = {c} /\ heads[c] = new /\ events[c] = {[prev |-> prev, new |-> new]}
    OBVIOUS
<1>2. UpdateCardHeads(self, heads, r) /\ EmitHeads(DOMAIN heads, events)
    BY <1>1 DEF UpdateCardHead, EmitHead
<1>3. cards[c].exists /\ cards[c].head = prev
    BY DEF UpdateCardHead
<1> HIDE DEF heads, events
<1>4. QED
    BY <1>1, <1>2, <1>3, ChainUpdate

\* In a batch without duplicates each card is touched by one item only.
LEMMA LastItemIs ==
    ASSUME NEW items \in Batch, NoDuplicates(items), NEW i \in DOMAIN items
    PROVE  LastItem(items, items[i].card) = i
<1>1. \A j \in DOMAIN items : j \in Int
    BY DEF Batch
<1>2. \A j \in DOMAIN items : items[j].card = items[i].card => j = i
    BY DEF NoDuplicates
<1>3. QED
    BY <1>1, <1>2 DEF LastItem

LEMMA BatchKeepsChain ==
    ASSUME TypeOK, HeadChain, NEW self \in Logic, NEW r \in Press, NEW payload,
           NEW p \in Policy, NEW items \in Batch, BatchUpdateCardHeads(self, p, r, items, payload)
    PROVE  HeadChain'
<1> DEFINE heads == [c \in BatchCards(items) |-> items[LastItem(items, c)].new]
           events == [c \in BatchCards(items) |->
                        {[prev |-> items[i].prev, new |-> items[i].new] :
                            i \in {j \in DOMAIN items : items[j].card = c}}]
<1>1. \A i \in DOMAIN items : items[i] \in [card : Card, prev : Cid, new : Cid]
    BY RegistryAssumption DEF Batch
<1>2. DOMAIN heads = BatchCards(items) /\ DOMAIN heads \subseteq Card
    BY <1>1 DEF BatchCards
<1>3. UpdateCardHeads(self, heads, r) /\ EmitHeads(DOMAIN heads, events)
    BY <1>2 DEF BatchUpdateCardHeads
<1>4. ASSUME NEW c \in DOMAIN heads
      PROVE  /\ cards[c].exists
             /\ heads[c] \in Cid
             /\ events[c] = {[prev |-> cards[c].head, new |-> heads[c]]}
  <2>1. PICK i \in DOMAIN items : items[i].card = c
    BY <1>2, <1>4 DEF BatchCards
  <2>2. LastItem(items, c) = i
    BY <2>1, LastItemIs DEF BatchUpdateCardHeads
  <2>3. {j \in DOMAIN items : items[j].card = c} = {i}
    BY <2>1 DEF BatchUpdateCardHeads, NoDuplicates
  <2>4. heads[c] = items[i].new
    BY <1>2, <1>4, <2>2
  <2>5. events[c] = {[prev |-> items[i].prev, new |-> items[i].new]}
    BY <1>2, <1>4, <2>3
  <2>6. cards[c].exists /\ cards[c].head = items[i].prev
    BY <2>1 DEF BatchUpdateCardHeads, ItemValid
  <2>7. QED
    BY <1>1, <2>4, <2>5, <2>6
<1> HIDE DEF heads, events
<1>5. QED
    BY <1>2, <1>3, <1>4, ChainUpdate

LEMMA PressCallKeepsChain ==
    ASSUME TypeOK, HeadChain, NEW self \in Logic, NEW r \in Press, PressCall(self, r)
    PROVE  HeadChain'
<1>1. ASSUME NEW payload, NEW c \in Card, NEW h \in Cid, NEW p \in Policy,
             RegisterCard(self, c, h, p, r, payload)
      PROVE  HeadChain'
    BY <1>1, ChainRegister DEF RegisterCard
<1>2. ASSUME NEW payload, NEW o \in Offer, NEW t \in OfferTerms,
             NEW c \in Card, NEW h \in Cid, NEW p \in Policy,
             ClaimOpenOffer(self, o, t.max, t.expires, c, h, p, r, payload)
      PROVE  HeadChain'
    BY <1>2, ChainRegister DEF ClaimOpenOffer
<1>3. ASSUME NEW payload, NEW old \in Card, NEW new \in Card,
             RegisterAddressForward(self, old, new, r, payload)
      PROVE  HeadChain'
    BY <1>3, ChainFrame DEF TypeOK, StorageTypeOK, CardEntry, RegisterAddressForward,
       SetForwardTo, historyVars
<1>4. ASSUME NEW payload, NEW s \in SubCard, NEW m \in Card, NEW h \in Cid, NEW k,
             RegisterSubCard(self, s, m, h, r, payload, k)
      PROVE  HeadChain'
    BY <1>4, ChainFrame DEF RegisterSubCard
<1>5. ASSUME NEW payload, NEW s \in SubCard, DeregisterSubCard(self, s, r, payload)
      PROVE  HeadChain'
    BY <1>5, ChainFrame DEF DeregisterSubCard
<1>6. QED
    BY <1>1, <1>2, <1>3, <1>4, <1>5, UpdateKeepsChain, BatchKeepsChain DEF PressCall

\* Governance calls and the clock leave cards and their events alone.
LEMMA OtherStepFrame ==
    ASSUME NEW self, NEW payload, NEW sigs,
           GovernanceCall(self, payload, sigs) \/ Tick \/ UNCHANGED vars
    PROVE  UNCHANGED <<cards, subCards, offerCounts, headLog, gateLog, claims>>
BY DEF GovernanceCall, RegisterPolicy, DeregisterPolicy, RotateAuthorizerKey,
   AuthorizePress,
   RevokePress, DisablePolicyDeletePermanently, Tick, vars, storageVars, pressVars, historyVars

LEMMA InitChain == Init => HeadChain
<1> SUFFICES ASSUME Init, NEW c \in Card PROVE Chained(headLog[c], cards[c])
    BY DEF HeadChain
<1>1. cards[c] = NoCard /\ headLog[c] = <<>>
    BY DEF Init, StorageInit
<1>2. ~NoCard.exists
    BY DEF NoCard
<1>3. QED
    BY <1>1, <1>2 DEF Chained

LEMMA NextKeepsChain ==
    ASSUME TypeOK, HeadChain, [Next]_vars
    PROVE  HeadChain'
<1>1. CASE \E self \in Logic, r \in Press : PressCall(self, r)
    BY <1>1, PressCallKeepsChain
<1>2. CASE (\E self \in Logic, payload \in GovernancePayload, sigs \in SignerList :
                GovernanceCall(self, payload, sigs)) \/ Tick \/ UNCHANGED vars
    BY <1>2, OtherStepFrame, ChainFrame
<1>3. QED
    BY <1>1, <1>2 DEF Next

\* No update is ever lost: for any number of cards, presses and keys, any batch
\* size and any interleaving of calls, each card's events form one chain that ends
\* in its stored head.
THEOREM HeadsFormOneChain == Spec => []HeadChain
BY InitChain, NextKeepsChain, TypeCorrect, PTL DEF Spec

-----------------------------------------------------------------------------
(* SequenceSpentOnce.  The strengthening: no logged payload is of a later    *)
(* authorization than the current one.                                      *)

LoggedInThePast(log, current) == \A i \in 1..Len(log) : log[i].epoch <= current

GateInv ==
    \A a \in Policy \X Press : /\ SpentOnce(gateLog[a], epoch[a], auth[a].sequence)
                               /\ LoggedInThePast(gateLog[a], epoch[a])

LEMMA SpendNext ==
    ASSUME NEW log \in Seq(GateEvent), NEW current \in Nat, NEW next \in Nat,
           SpentOnce(log, current, next), LoggedInThePast(log, current),
           NEW e \in GateEvent, e.epoch = current, e.sequence = next
    PROVE  /\ SpentOnce(Append(log, e), current, next + 1)
           /\ LoggedInThePast(Append(log, e), current)
<1> DEFINE log2 == Append(log, e)
           spent == {i \in 1..Len(log) : log[i].epoch = current}
           spent2 == {i \in 1..Len(log2) : log2[i].epoch = current}
<1>1. /\ Len(log) \in Nat /\ Len(log2) = Len(log) + 1
      /\ log2[Len(log) + 1] = e
      /\ \A i \in 1..Len(log) : log2[i] = log[i] /\ log[i] \in GateEvent
    OBVIOUS
<1>2. \A i \in 1..Len(log) : log[i].sequence \in Nat
    BY <1>1 DEF GateEvent
<1>3. /\ \A i \in spent : i \in 1..Len(log)
      /\ \A i, j \in spent : i < j => log[i].sequence < log[j].sequence
      /\ \A i \in spent : log[i].sequence < next
      /\ \A n \in 0..(next - 1) : \E i \in spent : log[i].sequence = n
    BY DEF SpentOnce
<1>4. \A i : i \in spent2 <=> i \in spent \/ i = Len(log) + 1
  <2>1. \A i : i \in 1..Len(log2) <=> i \in 1..Len(log) \/ i = Len(log) + 1
    BY <1>1
  <2>2. QED
    BY <1>1, <2>1
<1> HIDE DEF log2, spent, spent2
<1>5. \A i, j \in spent2 : i < j => log2[i].sequence < log2[j].sequence
  <2> SUFFICES ASSUME NEW i \in spent2, NEW j \in spent2, i < j
               PROVE  log2[i].sequence < log2[j].sequence
    OBVIOUS
  <2>1. i \in spent
    BY <1>1, <1>3, <1>4
  <2>2. CASE j \in spent
    BY <1>1, <1>3, <2>1, <2>2
  <2>3. CASE j = Len(log) + 1
    BY <1>1, <1>3, <2>1, <2>3
  <2>4. QED
    BY <1>4, <2>2, <2>3
<1>6. ASSUME NEW i \in spent2 PROVE log2[i].sequence < next + 1
  <2>1. CASE i \in spent
    BY <1>1, <1>2, <1>3, <2>1, SMTT(30)
  <2>2. CASE i = Len(log) + 1
    BY <1>1, <2>2
  <2>3. QED
    BY <1>4, <2>1, <2>2
<1>7. ASSUME NEW n \in 0..(next + 1 - 1) PROVE \E i \in spent2 : log2[i].sequence = n
  <2>1. CASE n = next
    BY <1>1, <1>4, <2>1
  <2>2. CASE n # next
    <3>1. PICK i \in spent : log[i].sequence = n
      BY <1>3, <2>2
    <3>2. QED
      BY <1>1, <1>3, <1>4, <3>1
  <2>3. QED
    BY <2>1, <2>2
<1>8. SpentOnce(log2, current, next + 1)
    BY <1>5, <1>6, <1>7 DEF SpentOnce, spent2
<1>9. LoggedInThePast(log2, current)
  <2> SUFFICES ASSUME NEW i \in 1..Len(log2) PROVE log2[i].epoch <= current
    BY DEF LoggedInThePast
  <2>1. CASE i \in 1..Len(log)
    BY <1>1, <2>1 DEF LoggedInThePast
  <2>2. CASE i = Len(log) + 1
    BY <1>1, <2>2
  <2>3. QED
    BY <1>1, <2>1, <2>2
<1>10. QED
    BY <1>8, <1>9 DEF log2

\* A new authorization starts with nothing spent.
LEMMA SpendAfresh ==
    ASSUME NEW log \in Seq(GateEvent), NEW current \in Nat, LoggedInThePast(log, current)
    PROVE  /\ SpentOnce(log, current + 1, 0)
           /\ LoggedInThePast(log, current + 1)
<1>1. \A i \in 1..Len(log) : log[i] \in GateEvent
    OBVIOUS
<1>2. \A i \in 1..Len(log) : log[i].epoch \in Nat
    BY <1>1 DEF GateEvent
<1>3. \A i \in 1..Len(log) : log[i].epoch # current + 1 /\ log[i].epoch <= current + 1
    BY <1>2 DEF LoggedInThePast
<1>4. QED
    BY <1>3 DEF SpentOnce, LoggedInThePast

LEMMA GateKeepsInv ==
    ASSUME TypeOK, GateInv, NEW self, NEW p, NEW r \in Press, NEW op \in PressOp,
           NEW payload \in SignedPayload(op), ValidateWriteGate(p, r, payload, op),
           IncrementPressSequence(self, p, r), Accept(p, r, payload), epoch' = epoch
    PROVE  GateInv'
<1>1. p \in Policy
    BY DEF TypeOK, StorageTypeOK, ValidateWriteGate
<1> DEFINE a == <<p, r>>
           e == [epoch |-> epoch[a], signer |-> payload.signer,
                 op |-> payload.op, sequence |-> payload.sequence]
<1>2. a \in Policy \X Press /\ epoch[a] \in Nat /\ gateLog[a] \in Seq(GateEvent)
    BY <1>1 DEF TypeOK
<1>3. e \in GateEvent /\ e.epoch = epoch[a] /\ e.sequence = auth[a].sequence
    BY <1>2 DEF GateEvent, SignedPayload, ValidateWriteGate
<1>4. gateLog' = [gateLog EXCEPT ![a] = Append(@, e)]
    BY DEF Accept
<1>5. auth[a].sequence \in Nat
    BY <1>2 DEF TypeOK, StorageTypeOK, PressAuthEntry
<1>6. /\ auth'[a].sequence = auth[a].sequence + 1
      /\ \A b \in Policy \X Press : b # a => auth'[b] = auth[b]
    BY <1>2 DEF TypeOK, StorageTypeOK, PressAuthEntry, IncrementPressSequence
<1>7. /\ gateLog'[a] = Append(gateLog[a], e)
      /\ \A b \in Policy \X Press : b # a => gateLog'[b] = gateLog[b]
    BY <1>2, <1>4 DEF TypeOK
<1> HIDE DEF a, e
<1>8. SpentOnce(gateLog'[a], epoch[a], auth'[a].sequence) /\ LoggedInThePast(gateLog'[a], epoch[a])
    BY <1>2, <1>3, <1>5, <1>6, <1>7, SpendNext DEF GateInv
<1>9. ASSUME NEW b \in Policy \X Press
      PROVE  /\ SpentOnce(gateLog'[b], epoch'[b], auth'[b].sequence)
             /\ LoggedInThePast(gateLog'[b], epoch'[b])
    BY <1>6, <1>7, <1>8 DEF GateInv
<1>10. QED
    BY <1>9 DEF GateInv

LEMMA GateFrame ==
    ASSUME GateInv, UNCHANGED <<gateLog, epoch>>,
           \A a \in Policy \X Press : auth'[a].sequence = auth[a].sequence
    PROVE  GateInv'
BY DEF GateInv, SpentOnce, LoggedInThePast

LEMMA PressCallKeepsGateInv ==
    ASSUME TypeOK, GateInv, NEW self \in Logic, NEW r \in Press, PressCall(self, r)
    PROVE  GateInv'
<1>1. ASSUME NEW payload \in PressPayload("register_card"), NEW c \in Card, NEW h \in Cid,
             NEW p \in Policy, RegisterCard(self, c, h, p, r, payload)
      PROVE  GateInv'
    BY <1>1, GateKeepsInv, PayloadsAreSigned DEF RegisterCard, Gate, RunWriteGate, PressOp
<1>2. ASSUME NEW payload \in PressPayload("update_card_head"), NEW c \in Card, NEW new, NEW prev,
             UpdateCardHead(self, c, new, prev, r, payload)
      PROVE  GateInv'
    BY <1>2, GateKeepsInv, PayloadsAreSigned DEF UpdateCardHead, Gate, RunWriteGate, PressOp
<1>3. ASSUME NEW payload \in PressPayload("claim_open_offer"), NEW o \in Offer,
             NEW t \in OfferTerms, NEW c \in Card, NEW h \in Cid, NEW p \in Policy,
             ClaimOpenOffer(self, o, t.max, t.expires, c, h, p, r, payload)
      PROVE  GateInv'
    BY <1>3, GateKeepsInv, PayloadsAreSigned DEF ClaimOpenOffer, Gate, RunWriteGate, PressOp
<1>4. ASSUME NEW payload, NEW old, NEW new, RegisterAddressForward(self, old, new, r, payload)
      PROVE  GateInv'
    BY <1>4, GateFrame DEF RegisterAddressForward, historyVars
<1>5. ASSUME NEW payload \in PressPayload("batch_update_card_heads"), NEW p \in Policy,
             NEW items \in Batch, BatchUpdateCardHeads(self, p, r, items, payload)
      PROVE  GateInv'
    BY <1>5, GateKeepsInv, PayloadsAreSigned DEF BatchUpdateCardHeads, PressOp
<1>6. ASSUME NEW payload \in PressPayload("register_sub_card"), NEW s, NEW m, NEW h, NEW k,
             RegisterSubCard(self, s, m, h, r, payload, k)
      PROVE  GateInv'
    BY <1>6, GateKeepsInv, PayloadsAreSigned
    DEF RegisterSubCard, Gate, RunWriteGate, PressOp
<1>7. ASSUME NEW payload \in PressPayload("deregister_sub_card"), NEW s,
             DeregisterSubCard(self, s, r, payload)
      PROVE  GateInv'
    BY <1>7, GateKeepsInv, PayloadsAreSigned
    DEF DeregisterSubCard, Gate, RunWriteGate, PressOp
<1>8. QED
    BY <1>1, <1>2, <1>3, <1>4, <1>5, <1>6, <1>7 DEF PressCall

LEMMA GovernanceCallKeepsGateInv ==
    ASSUME TypeOK, GateInv, NEW self, NEW payload, NEW sigs, GovernanceCall(self, payload, sigs)
    PROVE  GateInv'
<1>1. CASE \E p \in Policy, r \in Press, k \in Key : AuthorizePress(self, p, r, k, payload, sigs)
  <2>1. PICK p \in Policy, r \in Press, k \in Key : AuthorizePress(self, p, r, k, payload, sigs)
    BY <1>1
  <2> DEFINE a == <<p, r>>
  <2>2. a \in Policy \X Press
    OBVIOUS
  <2>3. /\ epoch'[a] = epoch[a] + 1 /\ epoch[a] \in Nat
        /\ \A b \in Policy \X Press : b # a => epoch'[b] = epoch[b]
    BY <2>1, <2>2 DEF TypeOK, AuthorizePress
  <2>4. /\ auth'[a].sequence = 0
        /\ \A b \in Policy \X Press : b # a => auth'[b] = auth[b]
    BY <2>1, <2>2 DEF TypeOK, StorageTypeOK, AuthorizePress, SetPressAuthEntry
  <2>5. gateLog' = gateLog /\ gateLog[a] \in Seq(GateEvent)
    BY <2>1, <2>2 DEF TypeOK, AuthorizePress
  <2> HIDE DEF a
  <2>6. SpentOnce(gateLog[a], epoch'[a], 0) /\ LoggedInThePast(gateLog[a], epoch'[a])
    BY <2>2, <2>3, <2>5, SpendAfresh DEF GateInv
  <2>7. ASSUME NEW b \in Policy \X Press
        PROVE  /\ SpentOnce(gateLog'[b], epoch'[b], auth'[b].sequence)
               /\ LoggedInThePast(gateLog'[b], epoch'[b])
    BY <2>3, <2>4, <2>5, <2>6 DEF GateInv
  <2>8. QED
    BY <2>7 DEF GateInv
<1>2. CASE \E p \in Policy, r \in Press : RevokePress(self, p, r, payload, sigs)
  <2>1. PICK p \in Policy, r \in Press : RevokePress(self, p, r, payload, sigs)
    BY <1>2
  <2>2. \A b \in Policy \X Press : auth'[b].sequence = auth[b].sequence
    BY <2>1 DEF TypeOK, StorageTypeOK, PressAuthEntry, RevokePress, SetPressAuthEntry
  <2>3. QED
    BY <2>1, <2>2, GateFrame DEF RevokePress, historyVars
<1>3. CASE \/ \E p \in Policy : \/ RegisterPolicy(self, p, payload, sigs)
                                \/ DeregisterPolicy(self, p, payload, sigs)
                                \/ RotateAuthorizerKey(self, p, payload, sigs)
           \/ DisablePolicyDeletePermanently(self, payload, sigs)
    BY <1>3, GateFrame DEF RegisterPolicy, DeregisterPolicy, RotateAuthorizerKey,
       DisablePolicyDeletePermanently, pressVars, historyVars
<1>4. QED
    BY <1>1, <1>2, <1>3 DEF GovernanceCall

LEMMA InitGateInv == Init => GateInv
<1> SUFFICES ASSUME Init, NEW a \in Policy \X Press
             PROVE  /\ SpentOnce(gateLog[a], epoch[a], auth[a].sequence)
                    /\ LoggedInThePast(gateLog[a], epoch[a])
    BY DEF GateInv
<1>1. gateLog[a] = <<>> /\ auth[a] = NoAuth
    BY DEF Init, StorageInit
<1>2. auth[a].sequence = 0
    BY <1>1 DEF NoAuth
<1>3. QED
    BY <1>1, <1>2 DEF SpentOnce, LoggedInThePast

LEMMA NextKeepsGateInv ==
    ASSUME TypeOK, GateInv, [Next]_vars
    PROVE  GateInv'
<1>1. CASE \E self \in Logic, r \in Press : PressCall(self, r)
    BY <1>1, PressCallKeepsGateInv
<1>2. CASE \E self \in Logic, payload \in GovernancePayload, sigs \in SignerList :
              GovernanceCall(self, payload, sigs)
    BY <1>2, GovernanceCallKeepsGateInv
<1>3. CASE Tick \/ UNCHANGED vars
    BY <1>3, GateFrame DEF Tick, vars, storageVars, pressVars, historyVars
<1>4. QED
    BY <1>1, <1>2, <1>3 DEF Next

\* Replay protection within one authorization: whatever operation a payload was
\* signed for and however calls of several presses interleave, its sequence number
\* is accepted once, and the accepted numbers are exactly those below the counter.
THEOREM SequencesSpentOnce == Spec => []SequenceSpentOnce
<1>1. GateInv => SequenceSpentOnce
    BY DEF GateInv, SequenceSpentOnce
<1>2. QED
    BY <1>1, InitGateInv, NextKeepsGateInv, TypeCorrect, PTL DEF Spec

-----------------------------------------------------------------------------
(* IdentityPermanent.  The strengthening: a sub-card that has a master and   *)
(* is not active carries the time of its deregistration, which no setter    *)
(* lets a registration erase.                                               *)

SubCardInv ==
    /\ now > 0
    /\ \A s \in SubCard : subCards[s].master # Nil /\ ~subCards[s].active
                             => subCards[s].deregisteredAt # 0

SubCardsKept ==
    \A s \in SubCard : subCards[s].master # Nil =>
              /\ subCards'[s].master = subCards[s].master
              /\ subCards'[s].head = subCards[s].head
              /\ ~subCards[s].active => subCards'[s] = subCards[s]

CardsKept ==
    \A c \in Card : cards[c].exists =>
              /\ cards'[c].exists /\ cards'[c].policy = cards[c].policy
              /\ cards[c].forward # Nil => cards'[c].forward = cards[c].forward

LEMMA RegistrationKeepsCards ==
    ASSUME TypeOK, NEW self, NEW c \in Card, NEW h, NEW p, NEW r, ~cards[c].exists,
           SetCardEntry(self, c, h, p, r, TRUE)
    PROVE  CardsKept
BY DEF TypeOK, StorageTypeOK, CardsKept, SetCardEntry

LEMMA UpdateKeepsCards ==
    ASSUME TypeOK, NEW self, NEW heads, NEW r, UpdateCardHeads(self, heads, r)
    PROVE  CardsKept
<1> SUFFICES ASSUME NEW c \in Card, cards[c].exists
             PROVE  /\ cards'[c].exists /\ cards'[c].policy = cards[c].policy
                    /\ cards'[c].forward = cards[c].forward
    BY DEF CardsKept
<1>1. cards[c] \in CardEntry
    BY DEF TypeOK, StorageTypeOK
<1>2. cards'[c] = cards[c] \/ cards'[c] = [cards[c] EXCEPT !.head = heads[c], !.lastPress = r]
    BY DEF UpdateCardHeads
<1>3. QED
    BY <1>1, <1>2 DEF CardEntry

LEMMA ForwardKeepsCards ==
    ASSUME TypeOK, NEW self, NEW c \in Card, NEW n, SetForwardTo(self, c, n)
    PROVE  CardsKept
BY DEF TypeOK, StorageTypeOK, CardEntry, CardsKept, SetForwardTo

\* The three operations that touch sub-cards.
LEMMA RegisterSubCardKept ==
    ASSUME TypeOK, SubCardInv, NEW self \in Logic, NEW r \in Press, NEW payload,
           NEW s \in SubCard, NEW m \in Card, NEW h \in Cid, NEW k,
           RegisterSubCard(self, s, m, h, r, payload, k)
    PROVE  SubCardsKept /\ SubCardInv'
<1> DEFINE e == [master |-> m, head |-> h, active |-> TRUE, deregisteredAt |-> 0]
<1>1. /\ ~subCards[s].active
      /\ subCards[s].deregisteredAt # 0 => e.deregisteredAt # 0
      /\ subCards' = [subCards EXCEPT ![s] = e]
      /\ now' = now
    BY DEF RegisterSubCard, SetSubCardEntry
<1>2. e.deregisteredAt = 0 /\ e.active
    OBVIOUS
<1>3. subCards[s].master = Nil
    BY <1>1, <1>2 DEF SubCardInv
<1>4. subCards'[s] = e /\ \A t \in SubCard : t # s => subCards'[t] = subCards[t]
    BY <1>1 DEF TypeOK, StorageTypeOK
<1> HIDE DEF e
<1>5. SubCardsKept
    BY <1>3, <1>4 DEF SubCardsKept
<1>6. SubCardInv'
    BY <1>1, <1>2, <1>4 DEF SubCardInv
<1>7. QED
    BY <1>5, <1>6

LEMMA DeregisterSubCardKept ==
    ASSUME TypeOK, SubCardInv, NEW self \in Logic, NEW r \in Press, NEW payload, NEW s \in SubCard,
           DeregisterSubCard(self, s, r, payload)
    PROVE  SubCardsKept /\ SubCardInv'
<1> DEFINE e == [subCards[s] EXCEPT !.active = FALSE, !.deregisteredAt = now]
<1>1. subCards[s].active /\ subCards' = [subCards EXCEPT ![s] = e] /\ now' = now
    BY DEF DeregisterSubCard, SetSubCardEntry
<1>2. subCards[s] \in SubCardEntry
    BY DEF TypeOK, StorageTypeOK
<1>3. e.deregisteredAt = now /\ e.master = subCards[s].master /\ e.head = subCards[s].head
    BY <1>2 DEF SubCardEntry
<1>4. subCards'[s] = e /\ \A t \in SubCard : t # s => subCards'[t] = subCards[t]
    BY <1>1 DEF TypeOK, StorageTypeOK
<1>5. now # 0
    BY DEF SubCardInv, TypeOK
<1> HIDE DEF e
<1>6. SubCardsKept
    BY <1>1, <1>3, <1>4 DEF SubCardsKept
<1>7. SubCardInv'
    BY <1>1, <1>3, <1>4, <1>5 DEF SubCardInv
<1>8. QED
    BY <1>6, <1>7

LEMMA SubCardsFrame ==
    ASSUME SubCardInv, subCards' = subCards, now' > 0
    PROVE  SubCardsKept /\ SubCardInv'
BY DEF SubCardInv, SubCardsKept

LEMMA CardsFrame ==
    ASSUME cards' = cards
    PROVE  CardsKept
BY DEF CardsKept

LEMMA PressCallKept ==
    ASSUME TypeOK, SubCardInv, NEW self \in Logic, NEW r \in Press, PressCall(self, r)
    PROVE  CardsKept /\ SubCardsKept /\ SubCardInv'
<1>1. ASSUME NEW payload, NEW c \in Card, NEW h \in Cid, NEW p \in Policy,
             RegisterCard(self, c, h, p, r, payload)
      PROVE  CardsKept /\ SubCardsKept /\ SubCardInv'
    BY <1>1, RegistrationKeepsCards, SubCardsFrame DEF RegisterCard, SubCardInv
<1>2. ASSUME NEW payload, NEW c \in Card, NEW new \in Cid, NEW prev \in Cid,
             UpdateCardHead(self, c, new, prev, r, payload)
      PROVE  CardsKept /\ SubCardsKept /\ SubCardInv'
    BY <1>2, UpdateKeepsCards, SubCardsFrame DEF UpdateCardHead, SubCardInv
<1>3. ASSUME NEW payload, NEW o \in Offer, NEW t \in OfferTerms,
             NEW c \in Card, NEW h \in Cid, NEW p \in Policy,
             ClaimOpenOffer(self, o, t.max, t.expires, c, h, p, r, payload)
      PROVE  CardsKept /\ SubCardsKept /\ SubCardInv'
    BY <1>3, RegistrationKeepsCards, SubCardsFrame DEF ClaimOpenOffer, SubCardInv
<1>4. ASSUME NEW payload, NEW old \in Card, NEW new \in Card,
             RegisterAddressForward(self, old, new, r, payload)
      PROVE  CardsKept /\ SubCardsKept /\ SubCardInv'
    BY <1>4, ForwardKeepsCards, SubCardsFrame DEF RegisterAddressForward, SubCardInv
<1>5. ASSUME NEW payload, NEW p \in Policy, NEW items \in Batch,
             BatchUpdateCardHeads(self, p, r, items, payload)
      PROVE  CardsKept /\ SubCardsKept /\ SubCardInv'
    BY <1>5, UpdateKeepsCards, SubCardsFrame DEF BatchUpdateCardHeads, SubCardInv
<1>6. ASSUME NEW payload, NEW s \in SubCard, NEW m \in Card, NEW h \in Cid, NEW k,
             RegisterSubCard(self, s, m, h, r, payload, k)
      PROVE  CardsKept /\ SubCardsKept /\ SubCardInv'
    BY <1>6, CardsFrame, RegisterSubCardKept DEF RegisterSubCard
<1>7. ASSUME NEW payload, NEW s \in SubCard, DeregisterSubCard(self, s, r, payload)
      PROVE  CardsKept /\ SubCardsKept /\ SubCardInv'
    BY <1>7, CardsFrame, DeregisterSubCardKept DEF DeregisterSubCard
<1>8. QED
    BY <1>1, <1>2, <1>3, <1>4, <1>5, <1>6, <1>7 DEF PressCall

LEMMA GovernanceKeepsTime ==
    ASSUME NEW self, NEW payload, NEW sigs, GovernanceCall(self, payload, sigs)
    PROVE  now' = now
BY DEF GovernanceCall, RegisterPolicy, DeregisterPolicy, RotateAuthorizerKey,
   AuthorizePress,
   RevokePress, DisablePolicyDeletePermanently

LEMMA NextKept ==
    ASSUME TypeOK, SubCardInv, [Next]_vars
    PROVE  CardsKept /\ SubCardsKept /\ SubCardInv'
<1>1. CASE \E self \in Logic, r \in Press : PressCall(self, r)
    BY <1>1, PressCallKept
<1>2. CASE \E self \in Logic, payload \in GovernancePayload, sigs \in SignerList :
              GovernanceCall(self, payload, sigs)
  <2>1. now' = now
    BY <1>2, GovernanceKeepsTime
  <2>2. cards' = cards /\ subCards' = subCards /\ now' > 0
    BY <1>2, <2>1, OtherStepFrame DEF SubCardInv
  <2>3. QED
    BY <2>2, CardsFrame, SubCardsFrame
<1>3. CASE Tick \/ UNCHANGED vars
  <2>1. now' = now \/ now' = now + 1
    BY <1>3 DEF Tick, vars
  <2>2. now' > 0
    BY <2>1 DEF SubCardInv, TypeOK
  <2>3. QED
    BY <1>3, <2>2, OtherStepFrame, CardsFrame, SubCardsFrame
<1>4. QED
    BY <1>1, <1>2, <1>3 DEF Next

LEMMA InitSubCardInv == Init => SubCardInv
<1> SUFFICES ASSUME Init PROVE SubCardInv
    OBVIOUS
<1>1. \A s \in SubCard : subCards[s] = NoSubCard
    BY DEF Init, StorageInit
<1>2. NoSubCard.master = Nil
    BY DEF NoSubCard
<1>3. QED
    BY <1>1, <1>2 DEF Init, SubCardInv

\* Identity is permanent for any number of cards and sub-cards.  Its heart is that
\* a sub-card cannot come back: the registration handler only asks that it is not
\* active, and it is storage's guard on the deregistration time that refuses it.
THEOREM IdentityIsPermanent == Spec => IdentityPermanent
<1>1. TypeOK /\ SubCardInv /\ [Next]_vars => SubCardInv'
    BY NextKept
<1>2. TypeOK /\ SubCardInv /\ [Next]_vars => CardsKept /\ SubCardsKept
    BY NextKept
<1>3. CardsKept /\ SubCardsKept =>
        /\ \A c \in Card : cards[c].exists =>
              /\ cards'[c].exists /\ cards'[c].policy = cards[c].policy
              /\ cards[c].forward # Nil => cards'[c].forward = cards[c].forward
        /\ \A s \in SubCard : subCards[s].master # Nil =>
              /\ subCards'[s].master = subCards[s].master
              /\ subCards'[s].head = subCards[s].head
              /\ ~subCards[s].active => subCards'[s] = subCards[s]
    BY DEF CardsKept, SubCardsKept
<1>4. QED
    BY InitSubCardInv, <1>1, <1>2, <1>3, TypeCorrect, PTL DEF Spec, IdentityPermanent

-----------------------------------------------------------------------------
(* HeadsWrittenWithAuthority                                                *)

WrittenWithAuthority(c) ==
    LET p == cards'[c].policy  r == cards'[c].lastPress IN
    /\ p \in policies
    /\ r \in Press /\ auth[<<p, r>>].active
    /\ auth'[<<p, r>>].sequence = auth[<<p, r>>].sequence + 1

\* What the gate vouches for.
LEMMA GateAuthority ==
    ASSUME TypeOK, NEW self, NEW p, NEW r \in Press, NEW payload, NEW op,
           ValidateWriteGate(p, r, payload, op), IncrementPressSequence(self, p, r)
    PROVE  /\ p \in policies /\ auth[<<p, r>>].active
           /\ auth'[<<p, r>>].sequence = auth[<<p, r>>].sequence + 1
<1>1. p \in policies /\ p \in Policy /\ auth[<<p, r>>].active
    BY DEF ValidateWriteGate, TypeOK, StorageTypeOK
<1>2. auth'[<<p, r>>] = [auth[<<p, r>>] EXCEPT !.sequence = @ + 1]
    BY <1>1 DEF TypeOK, StorageTypeOK, IncrementPressSequence
<1>3. auth[<<p, r>>] \in PressAuthEntry
    BY <1>1 DEF TypeOK, StorageTypeOK
<1>4. QED
    BY <1>1, <1>2, <1>3 DEF PressAuthEntry

LEMMA RegistrationAuthority ==
    ASSUME TypeOK, NEW self, NEW c \in Card, NEW h, NEW p, NEW r \in Press, NEW payload, NEW op,
           ValidateWriteGate(p, r, payload, op), IncrementPressSequence(self, p, r),
           SetCardEntry(self, c, h, p, r, TRUE), EmitHead(c, Nil, h),
           NEW d \in Card, headLog'[d] # headLog[d]
    PROVE  WrittenWithAuthority(d)
<1>1. d = c
    BY DEF EmitHead, EmitHeads
<1>2. cards'[d].policy = p /\ cards'[d].lastPress = r
    BY <1>1 DEF TypeOK, StorageTypeOK, SetCardEntry
<1>3. QED
    BY <1>2, GateAuthority DEF WrittenWithAuthority

LEMMA UpdateAuthority ==
    ASSUME TypeOK, NEW self, NEW heads, NEW events, NEW p, NEW r \in Press, NEW payload, NEW op,
           ValidateWriteGate(p, r, payload, op), IncrementPressSequence(self, p, r),
           \A c \in DOMAIN heads : cards[c].policy = p,
           UpdateCardHeads(self, heads, r), EmitHeads(DOMAIN heads, events),
           NEW d \in Card, headLog'[d] # headLog[d]
    PROVE  WrittenWithAuthority(d)
<1>1. d \in DOMAIN heads
    BY DEF EmitHeads
<1>2. cards[d] \in CardEntry
    BY DEF TypeOK, StorageTypeOK
<1>3. cards'[d].policy = p /\ cards'[d].lastPress = r
    BY <1>1, <1>2 DEF UpdateCardHeads, CardEntry
<1>4. QED
    BY <1>3, GateAuthority DEF WrittenWithAuthority

LEMMA PressCallAuthority ==
    ASSUME TypeOK, NEW self \in Logic, NEW r \in Press, PressCall(self, r),
           NEW d \in Card, headLog'[d] # headLog[d]
    PROVE  WrittenWithAuthority(d)
<1>1. ASSUME NEW payload, NEW c \in Card, NEW h \in Cid, NEW p \in Policy,
             RegisterCard(self, c, h, p, r, payload)
      PROVE  WrittenWithAuthority(d)
    BY <1>1, RegistrationAuthority DEF RegisterCard, Gate, RunWriteGate
<1>2. ASSUME NEW payload, NEW c \in Card, NEW new \in Cid, NEW prev \in Cid,
             UpdateCardHead(self, c, new, prev, r, payload)
      PROVE  WrittenWithAuthority(d)
  <2> DEFINE heads == [x \in {c} |-> new]
             events == [x \in {c} |-> {[prev |-> prev, new |-> new]}]
  <2>1. DOMAIN heads = {c}
    OBVIOUS
  <2>2. UpdateCardHeads(self, heads, r) /\ EmitHeads(DOMAIN heads, events)
    BY <1>2, <2>1 DEF UpdateCardHead, EmitHead
  <2> HIDE DEF heads, events
  <2>3. QED
    BY <1>2, <2>1, <2>2, UpdateAuthority DEF UpdateCardHead, Gate, RunWriteGate
<1>3. ASSUME NEW payload, NEW o \in Offer, NEW t \in OfferTerms,
             NEW c \in Card, NEW h \in Cid, NEW p \in Policy,
             ClaimOpenOffer(self, o, t.max, t.expires, c, h, p, r, payload)
      PROVE  WrittenWithAuthority(d)
    BY <1>3, RegistrationAuthority DEF ClaimOpenOffer, Gate, RunWriteGate
<1>4. ASSUME NEW payload, NEW p \in Policy, NEW items \in Batch,
             BatchUpdateCardHeads(self, p, r, items, payload)
      PROVE  WrittenWithAuthority(d)
  <2> DEFINE heads == [c \in BatchCards(items) |-> items[LastItem(items, c)].new]
             events == [c \in BatchCards(items) |->
                          {[prev |-> items[i].prev, new |-> items[i].new] :
                              i \in {j \in DOMAIN items : items[j].card = c}}]
  <2>1. DOMAIN heads = BatchCards(items)
    OBVIOUS
  <2>2. UpdateCardHeads(self, heads, r) /\ EmitHeads(DOMAIN heads, events)
    BY <1>4, <2>1 DEF BatchUpdateCardHeads
  <2>3. \A c \in BatchCards(items) : cards[c].policy = p
    BY <1>4 DEF BatchUpdateCardHeads, BatchCards, ItemValid
  <2> HIDE DEF heads, events
  <2>4. QED
    BY <1>4, <2>1, <2>2, <2>3, UpdateAuthority DEF BatchUpdateCardHeads
<1>5. QED
    BY <1>1, <1>2, <1>3, <1>4
       DEF PressCall, RegisterAddressForward, RegisterSubCard, DeregisterSubCard,
           historyVars

\* Authority over heads: for every card and every way a head can move, the press
\* that moved it was active under the card's own recognized policy at that moment
\* and spent one of its sequence numbers on it.
THEOREM HeadsHaveAuthority == Spec => HeadsWrittenWithAuthority
<1>1. ASSUME TypeOK, [Next]_vars, NEW d \in Card, headLog'[d] # headLog[d]
      PROVE  WrittenWithAuthority(d)
  <2>1. CASE \E self \in Logic, r \in Press : PressCall(self, r)
    BY <1>1, <2>1, PressCallAuthority
  <2>2. CASE (\E self \in Logic, payload \in GovernancePayload, sigs \in SignerList :
                  GovernanceCall(self, payload, sigs)) \/ Tick \/ UNCHANGED vars
    BY <1>1, <2>2, OtherStepFrame
  <2>3. QED
    BY <1>1, <2>1, <2>2 DEF Next
<1>2. TypeOK /\ [Next]_vars =>
        \A c \in Card : headLog'[c] # headLog[c] =>
            LET p == cards'[c].policy  r == cards'[c].lastPress IN
            /\ p \in policies
            /\ r \in Press /\ auth[<<p, r>>].active
            /\ auth'[<<p, r>>].sequence = auth[<<p, r>>].sequence + 1
    BY <1>1 DEF WrittenWithAuthority
<1>3. QED
    BY <1>2, TypeCorrect, PTL DEF Spec, HeadsWrittenWithAuthority

-----------------------------------------------------------------------------
(* SnapshotIsAHead                                                          *)

\* The head h once belonged to the log of a card.
InLog(log, h) == \E i \in 1..Len(log) : \E e \in log[i] : e.new = h

\* Logs of head events only grow.
LEMMA LogsGrow ==
    ASSUME TypeOK, NEW cs, NEW events, EmitHeads(cs, events), NEW c \in Card, NEW h,
           InLog(headLog[c], h)
    PROVE  InLog(headLog'[c], h)
<1>1. PICK i \in 1..Len(headLog[c]) : \E e \in headLog[c][i] : e.new = h
    BY DEF InLog
<1>2. headLog[c] \in Seq(SUBSET HeadEvent)
    BY DEF TypeOK
<1>3. CASE headLog'[c] = headLog[c]
    BY <1>3
<1>4. CASE headLog'[c] = Append(headLog[c], events[c])
  <2>1. i \in 1..Len(headLog'[c]) /\ headLog'[c][i] = headLog[c][i]
    BY <1>1, <1>2, <1>4
  <2>2. QED
    BY <1>1, <2>1, SMTT(30) DEF InLog
<1>5. QED
    BY <1>3, <1>4 DEF EmitHeads

LEMMA PressCallEmits ==
    ASSUME NEW self, NEW r, PressCall(self, r)
    PROVE  headLog' = headLog \/ \E cs, events : EmitHeads(cs, events)
<1>1. ASSUME NEW c, NEW p, NEW h, EmitHead(c, p, h)
      PROVE  \E cs, events : EmitHeads(cs, events)
    BY <1>1 DEF EmitHead
<1>2. QED
    BY <1>1, ZenonT(60)
    DEF PressCall, RegisterCard, UpdateCardHead, ClaimOpenOffer, RegisterAddressForward,
       BatchUpdateCardHeads, RegisterSubCard, DeregisterSubCard, historyVars

LEMMA NextGrows ==
    ASSUME TypeOK, [Next]_vars, NEW c \in Card, NEW h, InLog(headLog[c], h)
    PROVE  InLog(headLog'[c], h)
<1>1. CASE \E self \in Logic, r \in Press : PressCall(self, r)
    BY <1>1, PressCallEmits, LogsGrow
<1>2. CASE (\E self \in Logic, payload \in GovernancePayload, sigs \in SignerList :
              GovernanceCall(self, payload, sigs)) \/ Tick \/ UNCHANGED vars
    BY <1>2, OtherStepFrame
<1>3. QED
    BY <1>1, <1>2 DEF Next

\* The head in storage is in the log.
LEMMA StoredHeadInLog ==
    ASSUME TypeOK, HeadChain, NEW c \in Card, cards[c].exists
    PROVE  InLog(headLog[c], cards[c].head)
<1>1. headLog[c] \in Seq(SUBSET HeadEvent) /\ headLog[c] # <<>>
    BY DEF TypeOK, HeadChain, Chained
<1>2. Len(headLog[c]) \in 1..Len(headLog[c])
    BY <1>1
<1>3. QED
    BY <1>2 DEF HeadChain, Chained, InLog

LEMMA NextKeepsSnapshots ==
    ASSUME TypeOK, HeadChain, SnapshotIsAHead, [Next]_vars
    PROVE  SnapshotIsAHead'
<1> SUFFICES ASSUME NEW s \in SubCard, subCards'[s].master # Nil
             PROVE  InLog(headLog'[subCards'[s].master], subCards'[s].head)
    BY DEF SnapshotIsAHead, InLog
<1>1. subCards[s] \in SubCardEntry
    BY DEF TypeOK, StorageTypeOK
<1>2. CASE /\ subCards'[s].master = subCards[s].master
           /\ subCards'[s].head = subCards[s].head
  <2>1. InLog(headLog[subCards[s].master], subCards[s].head)
    BY <1>2 DEF SnapshotIsAHead, InLog
  <2>2. subCards[s].master \in Card
    BY <1>1, <1>2 DEF SubCardEntry
  <2>3. QED
    BY <1>2, <2>1, <2>2, NextGrows
<1>3. ASSUME NEW self, NEW m \in Card, NEW t \in SubCard, NEW h, NEW r, NEW payload, NEW k,
             RegisterSubCard(self, t, m, h, r, payload, k)
      PROVE  InLog(headLog'[subCards'[s].master], subCards'[s].head)
  <2>1. /\ subCards' = [subCards EXCEPT ![t] = [master |-> m, head |-> h, active |-> TRUE,
                                               deregisteredAt |-> 0]]
        /\ cards[m].exists /\ cards[m].head = h /\ headLog' = headLog
    BY <1>3 DEF RegisterSubCard, SnapshotCurrent, SetSubCardEntry
  <2>2. CASE s = t
    <3>1. subCards'[s].master = m /\ subCards'[s].head = h
      BY <2>1, <2>2 DEF TypeOK, StorageTypeOK
    <3>2. QED
      BY <2>1, <3>1, StoredHeadInLog
  <2>3. CASE s # t
    BY <1>2, <2>1, <2>3 DEF TypeOK, StorageTypeOK
  <2>4. QED
    BY <2>2, <2>3
<1>4. ASSUME NEW self, NEW t \in SubCard, NEW r, NEW payload, DeregisterSubCard(self, t, r, payload)
      PROVE  InLog(headLog'[subCards'[s].master], subCards'[s].head)
  <2>1. subCards' = [subCards EXCEPT ![t] = [subCards[t] EXCEPT !.active = FALSE,
                                                               !.deregisteredAt = now]]
    BY <1>4 DEF DeregisterSubCard, SetSubCardEntry
  <2>2. subCards'[s].master = subCards[s].master /\ subCards'[s].head = subCards[s].head
    BY <1>1, <2>1 DEF TypeOK, StorageTypeOK, SubCardEntry
  <2>3. QED
    BY <1>2, <2>2
<1>5. CASE subCards' = subCards
    BY <1>2, <1>5
<1>6. CASE \E self \in Logic, r \in Press : PressCall(self, r)
  <2>1. PICK self \in Logic, r \in Press : PressCall(self, r)
    BY <1>6
  <2>2. CASE \E payload \in PressPayload("register_sub_card"), t \in SubCard, m \in Card,
                  h \in Cid, k \in Key \cup {Nil} : RegisterSubCard(self, t, m, h, r, payload, k)
    BY <1>3, <2>2
  <2>3. CASE \E payload \in PressPayload("deregister_sub_card"), t \in SubCard :
                  DeregisterSubCard(self, t, r, payload)
    BY <1>4, <2>3
  <2>4. \/ subCards' = subCards
        \/ \E payload \in PressPayload("register_sub_card"), t \in SubCard, m \in Card,
                  h \in Cid, k \in Key \cup {Nil} : RegisterSubCard(self, t, m, h, r, payload, k)
        \/ \E payload \in PressPayload("deregister_sub_card"), t \in SubCard :
                  DeregisterSubCard(self, t, r, payload)
    <3>1. \A payload, c, h, p : RegisterCard(self, c, h, p, r, payload) => subCards' = subCards
      BY DEF RegisterCard
    <3>2. \A payload, c, new, prev :
            UpdateCardHead(self, c, new, prev, r, payload) => subCards' = subCards
      BY DEF UpdateCardHead
    <3>3. \A payload, o, max, expires, c, h, p :
            ClaimOpenOffer(self, o, max, expires, c, h, p, r, payload) => subCards' = subCards
      BY DEF ClaimOpenOffer
    <3>4. \A payload, old, new :
            RegisterAddressForward(self, old, new, r, payload) => subCards' = subCards
      BY DEF RegisterAddressForward
    <3>5. \A payload, p, items :
            BatchUpdateCardHeads(self, p, r, items, payload) => subCards' = subCards
      BY DEF BatchUpdateCardHeads
    <3>6. QED
      BY <2>1, <3>1, <3>2, <3>3, <3>4, <3>5 DEF PressCall
  <2>5. QED
    BY <1>5, <2>2, <2>3, <2>4
<1>7. CASE (\E self \in Logic, payload \in GovernancePayload, sigs \in SignerList :
              GovernanceCall(self, payload, sigs)) \/ Tick \/ UNCHANGED vars
    BY <1>5, <1>7, OtherStepFrame
<1>8. QED
    BY <1>6, <1>7 DEF Next

\* A registration snapshot is never invented: it was the stored head of the master
\* at the registration, and logs of heads only grow.
THEOREM SnapshotsAreHeads == Spec => []SnapshotIsAHead
<1>1. Init => SnapshotIsAHead
  <2> SUFFICES ASSUME Init, NEW s \in SubCard PROVE subCards[s].master = Nil
    BY DEF SnapshotIsAHead
  <2>1. subCards[s] = NoSubCard
    BY DEF Init, StorageInit
  <2>2. QED
    BY <2>1 DEF NoSubCard
<1>2. QED
    BY <1>1, NextKeepsSnapshots, TypeCorrect, HeadsFormOneChain, PTL DEF Spec

-----------------------------------------------------------------------------
(* OfferHonoured.  The strengthening: each claim is for a card that exists,  *)
(* so that the card of the next claim is not among them.                    *)

OfferOK(o) ==
    /\ \A k \in claims[o] : cards[k.card].exists
    /\ \A n \in 1..offerCounts[o] : \E k \in claims[o] : k.use = n
    /\ \A k \in claims[o] :
          /\ k.use \in 1..offerCounts[o]
          /\ k.max # Unlimited => k.use <= k.max
          /\ k.expires # 0 => k.at < k.expires
    /\ \A k, l \in claims[o] : k.use = l.use \/ k.card = l.card => k = l

OfferInv == \A o \in Offer : OfferOK(o)

\* An offer no claim was made through in this step.
LEMMA OfferFrame ==
    ASSUME TypeOK, CardsKept, NEW o \in Offer, OfferOK(o),
           claims'[o] = claims[o], offerCounts'[o] = offerCounts[o]
    PROVE  OfferOK(o)'
<1>1. \A k \in claims[o] : k.card \in Card
    BY DEF TypeOK, Claim
<1>2. \A k \in claims[o] : cards'[k.card].exists
    BY <1>1 DEF OfferOK, CardsKept
<1>3. QED
    BY <1>2 DEF OfferOK

LEMMA ClaimKeepsOffers ==
    ASSUME TypeOK, OfferInv, NEW self, NEW r, NEW payload, NEW o \in Offer,
           NEW max \in Nat, NEW expires \in Nat, NEW c \in Card, NEW h, NEW p,
           ClaimOpenOffer(self, o, max, expires, c, h, p, r, payload)
    PROVE  OfferInv'
<1> DEFINE n == offerCounts[o]
<1> DEFINE k == [card |-> c, at |-> now, max |-> max, expires |-> expires, use |-> n + 1]
<1>1. /\ ~cards[c].exists
      /\ SetCardEntry(self, c, h, p, r, TRUE)
      /\ offerCounts' = [offerCounts EXCEPT ![o] = n + 1]
      /\ claims' = [claims EXCEPT ![o] = @ \cup {k}]
      /\ expires = 0 \/ now < expires
      /\ max = Unlimited \/ n < max
    BY DEF ClaimOpenOffer, OfferOpen, SetOpenOfferCount
<1>2. /\ k.card = c /\ k.at = now /\ k.use = n + 1
      /\ k.max = max /\ k.expires = expires
    OBVIOUS
<1>3. CardsKept
    BY <1>1, RegistrationKeepsCards
<1>4. cards'[c].exists
    BY <1>1 DEF TypeOK, StorageTypeOK, SetCardEntry
<1>5. n \in Nat /\ \A l \in claims[o] : l.use \in Nat /\ l.card \in Card
    BY DEF TypeOK, StorageTypeOK, Claim
<1>6. claims'[o] = claims[o] \cup {k} /\ offerCounts'[o] = n + 1
    BY <1>1 DEF TypeOK, StorageTypeOK
<1>7. \A q \in Offer : q # o => claims'[q] = claims[q] /\ offerCounts'[q] = offerCounts[q]
    BY <1>1 DEF TypeOK, StorageTypeOK
<1>8. OfferOK(o) /\ n = offerCounts[o]
    BY DEF OfferInv
<1> HIDE DEF k, n
<1>9. \A l \in claims[o] : l.card # c /\ l.use \in 1..n
    BY <1>1, <1>8 DEF OfferOK
<1>10. OfferOK(o)'
  <2>1. \A l \in claims'[o] : cards'[l.card].exists
    BY <1>2, <1>3, <1>4, <1>5, <1>6, <1>8 DEF OfferOK, CardsKept
  <2>2. \A m \in 1..offerCounts'[o] : \E l \in claims'[o] : l.use = m
    <3> SUFFICES ASSUME NEW m \in 1..(n + 1) PROVE \E l \in claims'[o] : l.use = m
      BY <1>6
    <3>1. m \in 1..n \/ m = n + 1
      BY <1>5
    <3>2. QED
      BY <1>2, <1>6, <1>8, <3>1 DEF OfferOK
  <2>3. \A l \in claims'[o] :
          /\ l.use \in 1..offerCounts'[o]
          /\ l.max # Unlimited => l.use <= l.max
          /\ l.expires # 0 => l.at < l.expires
    <3>1. ASSUME NEW l \in claims[o]
          PROVE  /\ l.use \in 1..(n + 1)
                 /\ l.max # Unlimited => l.use <= l.max
                 /\ l.expires # 0 => l.at < l.expires
      BY <1>5, <1>8, <1>9, <3>1 DEF OfferOK
    <3>2. /\ k.use \in 1..(n + 1)
          /\ k.max # Unlimited => k.use <= k.max
          /\ k.expires # 0 => k.at < k.expires
      BY <1>1, <1>2, <1>5
    <3>3. QED
      BY <1>6, <3>1, <3>2
  <2>4. \A l, m \in claims'[o] : l.use = m.use \/ l.card = m.card => l = m
    <3>1. \A l \in claims[o] : l.use # k.use /\ l.card # k.card
      BY <1>2, <1>5, <1>9
    <3>2. QED
      BY <1>6, <1>8, <3>1 DEF OfferOK
  <2>5. QED
    BY <2>1, <2>2, <2>3, <2>4 DEF OfferOK
<1>11. ASSUME NEW q \in Offer, q # o PROVE OfferOK(q)'
  <2>1. OfferOK(q) /\ claims'[q] = claims[q] /\ offerCounts'[q] = offerCounts[q]
    BY <1>7, <1>11 DEF OfferInv
  <2>2. QED
    BY <1>3, <2>1, OfferFrame
<1>12. QED
    BY <1>10, <1>11 DEF OfferInv

\* Claiming is the only operation on offers.
LEMMA OfferSteps ==
    ASSUME [Next]_vars
    PROVE  \/ claims' = claims /\ offerCounts' = offerCounts
           \/ \E self \in Logic, r \in Press, payload \in PressPayload("claim_open_offer"),
                 o \in Offer, t \in OfferTerms, c \in Card, h \in Cid, p \in Policy :
                 ClaimOpenOffer(self, o, t.max, t.expires, c, h, p, r, payload)
<1>1. CASE \E self \in Logic, r \in Press : PressCall(self, r)
  <2>1. PICK self \in Logic, r \in Press : PressCall(self, r)
    BY <1>1
  <2> DEFINE Still == claims' = claims /\ offerCounts' = offerCounts
  <2>2. \A payload, c, h, p : RegisterCard(self, c, h, p, r, payload) => Still
    BY DEF RegisterCard
  <2>3. \A payload, c, new, prev : UpdateCardHead(self, c, new, prev, r, payload) => Still
    BY DEF UpdateCardHead
  <2>4. \A payload, old, new : RegisterAddressForward(self, old, new, r, payload) => Still
    BY DEF RegisterAddressForward, historyVars
  <2>5. \A payload, p, items : BatchUpdateCardHeads(self, p, r, items, payload) => Still
    BY DEF BatchUpdateCardHeads
  <2>6. \A payload, s, m, h, k : RegisterSubCard(self, s, m, h, r, payload, k) => Still
    BY DEF RegisterSubCard
  <2>7. \A payload, s : DeregisterSubCard(self, s, r, payload) => Still
    BY DEF DeregisterSubCard
  <2> HIDE DEF Still
  <2>8. Still \/ \E payload \in PressPayload("claim_open_offer"),
                    o \in Offer, t \in OfferTerms, c \in Card, h \in Cid, p \in Policy :
                    ClaimOpenOffer(self, o, t.max, t.expires, c, h, p, r, payload)
    BY <2>1, <2>2, <2>3, <2>4, <2>5, <2>6, <2>7 DEF PressCall
  <2>9. QED
    BY <2>8 DEF Still
<1>2. CASE (\E self \in Logic, payload \in GovernancePayload, sigs \in SignerList :
              GovernanceCall(self, payload, sigs)) \/ Tick \/ UNCHANGED vars
    BY <1>2, OtherStepFrame
<1>3. QED
    BY <1>1, <1>2 DEF Next

\* For any number of offers, presses and callers, each naming terms of its own: the
\* use numbers of an offer are given out once each, and a claim gets one within the
\* terms it named.  A second claim of the same card reverts because the card exists.
THEOREM OffersAreHonoured == Spec => []OfferHonoured
<1>1. Init => OfferInv
  <2> SUFFICES ASSUME Init, NEW o \in Offer PROVE OfferOK(o)
    BY DEF OfferInv
  <2>1. claims[o] = {} /\ offerCounts[o] = 0
    BY DEF Init, StorageInit
  <2>2. QED
    BY <2>1 DEF OfferOK
<1>2. TypeOK /\ SubCardInv /\ OfferInv /\ [Next]_vars => OfferInv'
  <2> SUFFICES ASSUME TypeOK, SubCardInv, OfferInv, [Next]_vars PROVE OfferInv'
    OBVIOUS
  <2>1. CASE claims' = claims /\ offerCounts' = offerCounts
    BY <2>1, NextKept, OfferFrame DEF OfferInv
  <2>2. \A t \in OfferTerms : t.max \in Nat /\ t.expires \in Nat
    BY RegistryAssumption
  <2>3. QED
    BY <2>1, <2>2, OfferSteps, ClaimKeepsOffers
<1>3. TypeOK /\ SubCardInv /\ [Next]_vars => SubCardInv'
    BY NextKept
<1>4. OfferInv => OfferHonoured
    BY DEF OfferInv, OfferOK, OfferHonoured
<1>5. QED
    BY <1>1, <1>2, <1>3, <1>4, InitSubCardInv, TypeCorrect, PTL DEF Spec

-----------------------------------------------------------------------------
(* DnsRegistry: the DNS operations beside those of CardRegistry.  What was    *)
(* proved of the cards and the gate holds with them too, since they leave the  *)
(* cards alone and spend sequence numbers through the same gate.              *)

DnsTypes ==
    /\ domains \in [Domain -> DomainEntry]
    /\ policyAddresses \in [Domain \X Path -> Card \cup {Nil}]
    /\ adminKeys \in [Card -> Key \cup {Nil}]
    /\ dnsPolicy \in Policy \cup {Nil}

LEMMA DnsGateType ==
    ASSUME TypeOK, NEW self, NEW r \in Press, NEW op \in PressOp,
           NEW payload \in PressPayload(op), DnsGate(self, r, payload, op), DnsTypes'
    PROVE  TypeOK'
<1>1. AuthType' /\ GateLogType'
    BY GateType, PayloadsAreSigned DEF DnsGate
<1>2. QED
    BY <1>1 DEF TypeOK, StorageTypeOK, AuthType, GateLogType, DnsTypes, DnsGate, dnsFrame,
       policyVars, upgradeVars

LEMMA DnsBoardType ==
    ASSUME TypeOK, NEW self, NEW payload \in GovernancePayload, NEW sigs,
           DnsBoard(self, payload, sigs), DnsTypes'
    PROVE  TypeOK'
<1>1. usedNonces' \subseteq Nonce
    BY DEF TypeOK, StorageTypeOK, DnsBoard, VerifyGovernanceQuorum, MarkNonceUsed,
       GovernancePayload
<1>2. QED
    BY <1>1
    DEF TypeOK, StorageTypeOK, DnsTypes, DnsBoard, dnsFrame, policyVars, upgradeVars,
       historyVars

\* What each call writes to the DNS tables, whoever approved it.
LEMMA SetDomainType ==
    ASSUME DnsTypes, NEW self, NEW d \in Domain, NEW entry \in DomainEntry,
           SetDomainEntry(self, d, entry)
    PROVE  domains' \in [Domain -> DomainEntry]
BY DEF DnsTypes, SetDomainEntry

LEMMA SetPathsType ==
    ASSUME DnsTypes, NEW self, NEW d, NEW ps, NEW v \in Card \cup {Nil},
           SetPolicyAddresses(self, d, ps, v)
    PROVE  policyAddresses' \in [Domain \X Path -> Card \cup {Nil}]
BY DEF DnsTypes, SetPolicyAddresses

LEMMA DnsPressCallType ==
    ASSUME TypeOK, NEW self \in Logic, NEW r \in Press, DnsPressCall(self, r)
    PROVE  TypeOK'
<1>1. DnsTypes
    BY DEF TypeOK, StorageTypeOK, DnsTypes
<1>2. ASSUME NEW payload \in PressPayload("set_policy_address"), NEW d \in Domain, NEW p \in Path,
             NEW v \in Card, NEW a, NEW s, SetPolicyAddress(self, d, p, v, a, s, r, payload)
      PROVE  TypeOK'
  <2>1. DnsGate(self, r, payload, "set_policy_address")
    BY <1>2 DEF SetPolicyAddress
  <2>2. DnsTypes'
    BY <1>1, <1>2, SetPathsType DEF SetPolicyAddress, DnsTypes
  <2>3. QED
    BY <2>1, <2>2, DnsGateType DEF PressOp
<1>3. ASSUME NEW payload \in PressPayload("remove_policy_address"), NEW d \in Domain,
             NEW p \in Path, NEW c, RemovePolicyAddressByPress(self, d, p, c, r, payload)
      PROVE  TypeOK'
  <2>1. DnsGate(self, r, payload, "remove_policy_address")
    BY <1>3 DEF RemovePolicyAddressByPress
  <2>2. DnsTypes'
    BY <1>1, <1>3, SetPathsType DEF RemovePolicyAddressByPress, DnsTypes
  <2>3. QED
    BY <2>1, <2>2, DnsGateType DEF PressOp
<1>4. QED
    BY <1>2, <1>3 DEF DnsPressCall

\* The calls of the DNS body, told apart by the tables they write.
LEMMA DnsBoardCallIs ==
    ASSUME NEW self, NEW payload, NEW sigs, DnsBoardCall(self, payload, sigs)
    PROVE  \/ \E d \in Domain, a \in Card, k \in Key : RegisterDomain(self, d, a, k, payload, sigs)
           \/ \E d \in Domain : DeregisterDomain(self, d, payload, sigs)
           \/ \E d \in Domain, risk \in 0..3, until \in 0..MaxTime :
                  FlagDomainFraudRisk(self, d, risk, until, payload, sigs)
           \/ /\ UNCHANGED <<domains, adminKeys, dnsPolicy>>
              /\ DnsBoard(self, payload, sigs)
              /\ \E d \in Domain, ps \in SUBSET Path, v \in Card \cup {Nil} :
                    /\ domains[d].exists
                    /\ v # Nil => cards[v].exists
                    /\ SetPolicyAddresses(self, d, ps, v)
           \/ \E p \in Policy : SetDnsGovernancePolicyAddress(self, p, payload, sigs)
<1>1. ASSUME NEW d \in Domain, NEW ps \in SUBSET Path,
             ClearDomainEntries(self, d, ps, payload, sigs)
      PROVE  /\ UNCHANGED <<domains, adminKeys, dnsPolicy>>
             /\ DnsBoard(self, payload, sigs)
             /\ domains[d].exists
             /\ SetPolicyAddresses(self, d, ps, Nil)
    BY <1>1 DEF ClearDomainEntries
<1>2. ASSUME NEW d \in Domain, NEW p \in Path, RemovePolicyAddressByBoard(self, d, p, payload, sigs)
      PROVE  /\ UNCHANGED <<domains, adminKeys, dnsPolicy>>
             /\ DnsBoard(self, payload, sigs)
             /\ domains[d].exists
             /\ SetPolicyAddresses(self, d, {p}, Nil)
    BY <1>2 DEF RemovePolicyAddressByBoard, PolicyAddressToRemove
<1>3. ASSUME NEW d \in Domain, NEW p \in Path, NEW v \in Card \cup {Nil},
             GovernanceSetPolicyAddress(self, d, p, v, payload, sigs)
      PROVE  /\ UNCHANGED <<domains, adminKeys, dnsPolicy>>
             /\ DnsBoard(self, payload, sigs)
             /\ domains[d].exists
             /\ v # Nil => cards[v].exists
             /\ SetPolicyAddresses(self, d, {p}, v)
    BY <1>3 DEF GovernanceSetPolicyAddress
<1> DEFINE Written == \E d \in Domain, ps \in SUBSET Path, v \in Card \cup {Nil} :
                         /\ domains[d].exists
                         /\ v # Nil => cards[v].exists
                         /\ SetPolicyAddresses(self, d, ps, v)
           Frame == UNCHANGED <<domains, adminKeys, dnsPolicy>> /\ DnsBoard(self, payload, sigs)
<1>4. ASSUME NEW d \in Domain, NEW ps \in SUBSET Path, NEW v \in Card \cup {Nil}, domains[d].exists,
             v # Nil => cards[v].exists, SetPolicyAddresses(self, d, ps, v)
      PROVE  Written
    BY <1>4
<1>5. Nil \in Card \cup {Nil}
    OBVIOUS
<1> HIDE DEF Written
<1>6. ASSUME NEW d \in Domain, NEW ps \in SUBSET Path,
             ClearDomainEntries(self, d, ps, payload, sigs)
      PROVE  Frame /\ Written
    BY <1>1, <1>4, <1>5, <1>6
<1>7. ASSUME NEW d \in Domain, NEW p \in Path, RemovePolicyAddressByBoard(self, d, p, payload, sigs)
      PROVE  Frame /\ Written
    BY <1>2, <1>4, <1>5, <1>7
<1>8. ASSUME NEW d \in Domain, NEW p \in Path, NEW v \in Card \cup {Nil},
             GovernanceSetPolicyAddress(self, d, p, v, payload, sigs)
      PROVE  Frame /\ Written
    BY <1>3, <1>4, <1>8
<1> HIDE DEF Frame
<1>9. \/ \E d \in Domain, a \in Card, k \in Key : RegisterDomain(self, d, a, k, payload, sigs)
      \/ \E d \in Domain : DeregisterDomain(self, d, payload, sigs)
      \/ \E d \in Domain, risk \in 0..3, until \in 0..MaxTime :
             FlagDomainFraudRisk(self, d, risk, until, payload, sigs)
      \/ Frame /\ Written
      \/ \E p \in Policy : SetDnsGovernancePolicyAddress(self, p, payload, sigs)
    BY <1>6, <1>7, <1>8 DEF DnsBoardCall
<1>10. QED
    BY <1>9 DEF Frame, Written

LEMMA DnsBoardCallType ==
    ASSUME TypeOK, NEW self \in Logic, NEW payload \in GovernancePayload, NEW sigs,
           DnsBoardCall(self, payload, sigs)
    PROVE  TypeOK'
<1>1. DnsTypes
    BY DEF TypeOK, StorageTypeOK, DnsTypes
<1> SUFFICES ASSUME DnsBoard(self, payload, sigs) PROVE DnsTypes'
    BY DnsBoardType, DnsBoardCallIs
       DEF RegisterDomain, DeregisterDomain, FlagDomainFraudRisk,
           SetDnsGovernancePolicyAddress
<1>2. CASE \E d \in Domain, a \in Card, k \in Key : RegisterDomain(self, d, a, k, payload, sigs)
  <2>1. PICK d \in Domain, a \in Card, k \in Key : RegisterDomain(self, d, a, k, payload, sigs)
    BY <1>2
  <2>2. [exists |-> TRUE, admin |-> a, risk |-> 0, suspendedUntil |-> 0] \in DomainEntry
    BY DEF DomainEntry
  <2>3. domains' \in [Domain -> DomainEntry]
    BY <1>1, <2>1, <2>2, SetDomainType DEF RegisterDomain
  <2>4. adminKeys' \in [Card -> Key \cup {Nil}]
    BY <1>1, <2>1 DEF RegisterDomain, SetDnsAdminCardKey, DnsTypes
  <2>5. QED
    BY <1>1, <2>1, <2>3, <2>4 DEF RegisterDomain, DnsTypes
<1>3. CASE \E d \in Domain : DeregisterDomain(self, d, payload, sigs)
  <2>1. PICK d \in Domain : DeregisterDomain(self, d, payload, sigs)
    BY <1>3
  <2>2. [domains[d] EXCEPT !.admin = Nil] \in DomainEntry
    BY <1>1 DEF DomainEntry, DnsTypes
  <2>3. domains' \in [Domain -> DomainEntry]
    BY <1>1, <2>1, <2>2, SetDomainType DEF DeregisterDomain
  <2>4. adminKeys' \in [Card -> Key \cup {Nil}]
    BY <1>1, <2>1 DEF DeregisterDomain, ClearAdminKey, SetDnsAdminCardKey, DnsTypes
  <2>5. QED
    BY <1>1, <2>1, <2>3, <2>4 DEF DeregisterDomain, DnsTypes
<1>4. CASE \E d \in Domain, risk \in 0..3, until \in 0..MaxTime :
              FlagDomainFraudRisk(self, d, risk, until, payload, sigs)
  <2>1. PICK d \in Domain, risk \in 0..3, until \in 0..MaxTime :
            FlagDomainFraudRisk(self, d, risk, until, payload, sigs)
    BY <1>4
  <2>2. risk \in 0..255 /\ until \in Nat
    BY <2>1, StorageAssumption DEF FlagDomainFraudRisk
  <2>3. [domains[d] EXCEPT !.risk = risk, !.suspendedUntil = until] \in DomainEntry
    <3>1. domains[d] \in DomainEntry
      BY <1>1 DEF DnsTypes
    <3>2. QED
      BY <2>2, <3>1 DEF DomainEntry
  <2>4. domains' \in [Domain -> DomainEntry]
    BY <1>1, <2>1, <2>3, SetDomainType DEF FlagDomainFraudRisk
  <2>5. QED
    BY <1>1, <2>1, <2>4 DEF FlagDomainFraudRisk, DnsTypes
<1>5. CASE /\ UNCHANGED <<domains, adminKeys, dnsPolicy>>
           /\ \E d \in Domain, ps \in SUBSET Path, v \in Card \cup {Nil} :
                 SetPolicyAddresses(self, d, ps, v)
    BY <1>1, <1>5, SetPathsType DEF DnsTypes
<1>6. CASE \E p \in Policy : SetDnsGovernancePolicyAddress(self, p, payload, sigs)
    BY <1>1, <1>6 DEF SetDnsGovernancePolicyAddress, SetDnsGovernancePolicy, DnsTypes
<1>7. QED
    BY <1>2, <1>3, <1>4, <1>5, <1>6, DnsBoardCallIs

LEMMA DnsNextType ==
    ASSUME TypeOK, [DnsNext]_vars
    PROVE  TypeOK'
BY NextType, DnsPressCallType, DnsBoardCallType DEF DnsNext

\* Type correctness with the DNS operations: a domain's admin and the card at a
\* path are always addresses, and a risk level one of the 256 a byte holds.
THEOREM DnsTypeCorrect == DnsSpec => []TypeOK
BY InitTypeOK, DnsNextType, PTL DEF DnsSpec

-----------------------------------------------------------------------------
(* The gate under DNS operations                                            *)

LEMMA DnsPressCallGate ==
    ASSUME NEW self, NEW r \in Press, DnsPressCall(self, r)
    PROVE  \E op \in {"set_policy_address", "remove_policy_address"} :
              \E payload \in PressPayload(op) : DnsGate(self, r, payload, op)
BY DEF DnsPressCall, SetPolicyAddress, RemovePolicyAddressByPress

LEMMA DnsBoardCallQuorum ==
    ASSUME NEW self, NEW payload, NEW sigs, DnsBoardCall(self, payload, sigs)
    PROVE  DnsBoard(self, payload, sigs)
BY DnsBoardCallIs DEF RegisterDomain, DeregisterDomain, FlagDomainFraudRisk,
   SetDnsGovernancePolicyAddress

LEMMA DnsNextKeepsGateInv ==
    ASSUME TypeOK, GateInv, [DnsNext]_vars
    PROVE  GateInv'
<1>1. ASSUME NEW self \in Logic, NEW r \in Press, DnsPressCall(self, r)
      PROVE  GateInv'
  <2>1. PICK op \in {"set_policy_address", "remove_policy_address"} :
            \E payload \in PressPayload(op) : DnsGate(self, r, payload, op)
    BY <1>1, DnsPressCallGate
  <2>2. QED
    BY <2>1, GateKeepsInv, PayloadsAreSigned DEF DnsGate, Gate, RunWriteGate, PressOp
<1>2. ASSUME NEW self, NEW payload, NEW sigs, DnsBoardCall(self, payload, sigs)
      PROVE  GateInv'
    BY <1>2, DnsBoardCallQuorum, GateFrame DEF DnsBoard, historyVars
<1>3. QED
    BY <1>1, <1>2, NextKeepsGateInv DEF DnsNext

\* Replay protection over all operations of the contract: a payload signed for a
\* DNS operation and one signed for a card operation spend the same counter, and
\* no number of it is spent twice.
THEOREM DnsSequencesSpentOnce == DnsSpec => []SequenceSpentOnce
<1>1. GateInv => SequenceSpentOnce
    BY DEF GateInv, SequenceSpentOnce
<1>2. QED
    BY <1>1, InitGateInv, DnsNextKeepsGateInv, DnsTypeCorrect, PTL DEF DnsSpec

-----------------------------------------------------------------------------
(* DomainTablesAgree.  It is inductive, given that a registered card stays    *)
(* registered (CardsKept, which SubCardInv carries through NextKept).         *)

LEMMA NextKeepsTables ==
    ASSUME TypeOK, DomainTablesAgree, CardsKept, UNCHANGED dnsVars
    PROVE  DomainTablesAgree'
<1> USE DEF dnsVars
<1>1. (\A c \in Card : adminKeys[c] # Nil => \E d \in Domain : domains[d].admin = c)'
    BY DEF DomainTablesAgree
<1>2. ASSUME NEW d \in Domain, domains[d].admin # Nil
      PROVE  cards'[domains[d].admin].exists
    BY <1>2, ZenonT(60) DEF DomainTablesAgree, CardsKept, TypeOK, StorageTypeOK, DomainEntry
<1>3. ASSUME NEW e \in Domain \X Path, policyAddresses[e] # Nil
      PROVE  domains[e[1]].exists /\ cards'[policyAddresses[e]].exists
  <2>1. policyAddresses[e] \in Card
    BY <1>3 DEF TypeOK, StorageTypeOK
  <2>2. domains[e[1]].exists /\ cards[policyAddresses[e]].exists
    BY <1>3 DEF DomainTablesAgree
  <2>3. QED
    BY <2>1, <2>2 DEF CardsKept
<1>4. (\A d \in Domain : ~domains[d].exists => domains[d] = NoDomain)'
    BY DEF DomainTablesAgree
<1>5. QED
    BY <1>1, <1>2, <1>3, <1>4 DEF DomainTablesAgree

\* A call that writes paths writes them under a registered domain.
LEMMA PathsKeepTables ==
    ASSUME TypeOK, DomainTablesAgree, NEW self, NEW d \in Domain, NEW ps,
           NEW v \in Card \cup {Nil}, domains[d].exists, v # Nil => cards[v].exists,
           SetPolicyAddresses(self, d, ps, v), UNCHANGED <<cards, domains, adminKeys>>
    PROVE  DomainTablesAgree'
<1>1. ASSUME NEW e \in Domain \X Path, policyAddresses'[e] # Nil
      PROVE  domains[e[1]].exists /\ cards[policyAddresses'[e]].exists
  <2>1. policyAddresses'[e] = IF e[1] = d /\ e[2] \in ps THEN v ELSE policyAddresses[e]
    BY DEF SetPolicyAddresses
  <2>2. QED
    BY <1>1, <2>1 DEF DomainTablesAgree
<1>2. QED
    BY <1>1 DEF DomainTablesAgree

LEMMA RegisterDomainKeepsTables ==
    ASSUME TypeOK, DomainTablesAgree, NEW self, NEW d \in Domain, NEW a \in Card, NEW k \in Key,
           NEW payload, NEW sigs, RegisterDomain(self, d, a, k, payload, sigs)
    PROVE  DomainTablesAgree'
<1> DEFINE new == [exists |-> TRUE, admin |-> a, risk |-> 0, suspendedUntil |-> 0]
<1>1. new.exists = TRUE /\ new.admin = a
    OBVIOUS
<1>2. /\ domains'[d] = new
      /\ \A o \in Domain \ {d} : domains'[o] = domains[o]
    BY DEF TypeOK, StorageTypeOK, RegisterDomain, SetDomainEntry
<1>3. \A c \in Card \ {a} : adminKeys'[c] = adminKeys[c]
    BY DEF TypeOK, StorageTypeOK, RegisterDomain, SetDnsAdminCardKey
<1>4. UNCHANGED <<cards, policyAddresses>> /\ cards[a].exists
    BY DEF RegisterDomain, DnsBoard, dnsFrame
<1>5. domains[d].admin = Nil
    BY DEF RegisterDomain, DomainTablesAgree, NoDomain
<1> HIDE DEF new
<1>6. ASSUME NEW c \in Card, adminKeys'[c] # Nil
      PROVE  \E o \in Domain : domains'[o].admin = c
  <2>1. CASE c = a
    BY <1>1, <1>2, <2>1
  <2>2. CASE c # a
    <3>1. PICK o \in Domain : domains[o].admin = c
      BY <1>3, <1>6, <2>2 DEF DomainTablesAgree
    <3>2. o # d
      BY <1>5, <3>1, StorageAssumption
    <3>3. QED
      BY <1>2, <3>1, <3>2
  <2>3. QED
    BY <2>1, <2>2
<1>7. ASSUME NEW o \in Domain
      PROVE  /\ domains'[o].admin # Nil => cards'[domains'[o].admin].exists
             /\ ~domains'[o].exists => domains'[o] = NoDomain
             /\ domains[o].exists => domains'[o].exists
    BY <1>1, <1>2, <1>4 DEF DomainTablesAgree
<1>8. ASSUME NEW e \in Domain \X Path, policyAddresses'[e] # Nil
      PROVE  domains'[e[1]].exists /\ cards'[policyAddresses'[e]].exists
    BY <1>4, <1>7, <1>8 DEF DomainTablesAgree
<1>9. QED
    BY <1>6, <1>7, <1>8 DEF DomainTablesAgree

LEMMA DeregisterDomainKeepsTables ==
    ASSUME TypeOK, DomainTablesAgree, NEW self, NEW d \in Domain, NEW payload, NEW sigs,
           DeregisterDomain(self, d, payload, sigs)
    PROVE  DomainTablesAgree'
<1> DEFINE new == [domains[d] EXCEPT !.admin = Nil]
<1>1. domains[d] \in DomainEntry
    BY DEF TypeOK, StorageTypeOK
<1>2. new.exists = domains[d].exists /\ new.admin = Nil
    BY <1>1 DEF DomainEntry
<1>3. /\ domains'[d] = new
      /\ \A o \in Domain \ {d} : domains'[o] = domains[o]
    BY DEF TypeOK, StorageTypeOK, DeregisterDomain, SetDomainEntry
<1>4. UNCHANGED <<cards, policyAddresses>> /\ domains[d].exists
    BY DEF DeregisterDomain, DnsBoard, dnsFrame
<1>5. \A c \in Card : adminKeys'[c] # Nil => adminKeys[c] # Nil /\ c # domains[d].admin
  <2>1. CASE domains[d].admin = Nil
    BY <2>1, StorageAssumption DEF DeregisterDomain, ClearAdminKey
  <2>2. CASE domains[d].admin # Nil
    <3>1. adminKeys' = [adminKeys EXCEPT ![domains[d].admin] = Nil]
      BY <2>2 DEF DeregisterDomain, ClearAdminKey, SetDnsAdminCardKey
    <3>2. domains[d].admin \in Card /\ adminKeys \in [Card -> Key \cup {Nil}]
      BY <1>1, <2>2 DEF TypeOK, StorageTypeOK, DomainEntry
    <3>3. QED
      BY <3>1, <3>2
  <2>3. QED
    BY <2>1, <2>2
<1> HIDE DEF new
<1>6. ASSUME NEW c \in Card, adminKeys'[c] # Nil
      PROVE  \E o \in Domain : domains'[o].admin = c
    BY <1>3, <1>5, <1>6 DEF DomainTablesAgree
<1>7. ASSUME NEW o \in Domain
      PROVE  /\ domains'[o].admin # Nil => cards'[domains'[o].admin].exists
             /\ ~domains'[o].exists => domains'[o] = NoDomain
             /\ domains[o].exists => domains'[o].exists
    BY <1>2, <1>3, <1>4, ZenonT(60) DEF DomainTablesAgree
<1>8. ASSUME NEW e \in Domain \X Path, policyAddresses'[e] # Nil
      PROVE  domains'[e[1]].exists /\ cards'[policyAddresses'[e]].exists
    BY <1>4, <1>7, <1>8 DEF DomainTablesAgree
<1>9. QED
    BY <1>6, <1>7, <1>8 DEF DomainTablesAgree

LEMMA FlagKeepsTables ==
    ASSUME TypeOK, DomainTablesAgree, NEW self, NEW d \in Domain, NEW risk, NEW until,
           NEW payload, NEW sigs, FlagDomainFraudRisk(self, d, risk, until, payload, sigs)
    PROVE  DomainTablesAgree'
<1> DEFINE new == [domains[d] EXCEPT !.risk = risk, !.suspendedUntil = until]
<1>1. domains[d] \in DomainEntry
    BY DEF TypeOK, StorageTypeOK
<1>2. new.exists = domains[d].exists /\ new.admin = domains[d].admin
    BY <1>1 DEF DomainEntry
<1>3. /\ domains'[d] = new
      /\ \A o \in Domain \ {d} : domains'[o] = domains[o]
    BY DEF TypeOK, StorageTypeOK, FlagDomainFraudRisk, SetDomainEntry
<1>4. UNCHANGED <<cards, policyAddresses, adminKeys>> /\ domains[d].exists
    BY DEF FlagDomainFraudRisk, DnsBoard, dnsFrame
<1> HIDE DEF new
<1>5. \A o \in Domain : /\ domains'[o].admin = domains[o].admin
                        /\ domains'[o].exists = domains[o].exists
                        /\ ~domains[o].exists => domains'[o] = domains[o]
    BY <1>2, <1>3, <1>4
<1>6. ASSUME NEW e \in Domain \X Path, policyAddresses'[e] # Nil
      PROVE  domains'[e[1]].exists /\ cards'[policyAddresses'[e]].exists
    BY <1>4, <1>5, <1>6 DEF DomainTablesAgree
<1>7. QED
    BY <1>4, <1>5, <1>6 DEF DomainTablesAgree

LEMMA DnsPressCallKeepsTables ==
    ASSUME TypeOK, DomainTablesAgree, NEW self, NEW r, DnsPressCall(self, r)
    PROVE  DomainTablesAgree'
<1>1. ASSUME NEW payload, NEW d \in Domain, NEW p, NEW v \in Card, NEW a, NEW s,
             SetPolicyAddress(self, d, p, v, a, s, r, payload)
      PROVE  DomainTablesAgree'
    BY <1>1, PathsKeepTables DEF SetPolicyAddress, DnsGate, dnsFrame
<1>2. ASSUME NEW payload, NEW d \in Domain, NEW p, NEW c,
             RemovePolicyAddressByPress(self, d, p, c, r, payload)
      PROVE  DomainTablesAgree'
    BY <1>2, PathsKeepTables
       DEF RemovePolicyAddressByPress, PolicyAddressToRemove, DnsGate, dnsFrame
<1>3. QED
    BY <1>1, <1>2 DEF DnsPressCall

LEMMA DnsBoardCallKeepsTables ==
    ASSUME TypeOK, DomainTablesAgree, NEW self, NEW payload, NEW sigs,
           DnsBoardCall(self, payload, sigs)
    PROVE  DomainTablesAgree'
<1>1. UNCHANGED cards
    BY DnsBoardCallQuorum DEF DnsBoard, dnsFrame
<1>2. CASE \E p \in Policy : SetDnsGovernancePolicyAddress(self, p, payload, sigs)
    BY <1>1, <1>2 DEF SetDnsGovernancePolicyAddress, DomainTablesAgree
<1>3. QED
    BY <1>1, <1>2, RegisterDomainKeepsTables, DeregisterDomainKeepsTables, FlagKeepsTables,
       PathsKeepTables, DnsBoardCallIs

\* DNS calls move neither cards, sub-cards nor time.
LEMMA DnsCallFrame ==
    ASSUME NEW self, NEW r \in Press, NEW payload, NEW sigs,
           DnsPressCall(self, r) \/ DnsBoardCall(self, payload, sigs)
    PROVE  UNCHANGED <<cards, subCards, headLog, now>>
BY DnsPressCallGate, DnsBoardCallQuorum DEF DnsGate, DnsBoard, dnsFrame, historyVars

LEMMA NextLeavesDns ==
    ASSUME [Next]_vars
    PROVE  UNCHANGED dnsVars
<1>1. ASSUME NEW self, NEW r, PressCall(self, r) PROVE UNCHANGED otherVars
    BY <1>1, ZenonT(60)
    DEF PressCall, RegisterCard, UpdateCardHead, ClaimOpenOffer, RegisterAddressForward,
       BatchUpdateCardHeads, RegisterSubCard, DeregisterSubCard
<1>2. ASSUME NEW self, NEW payload, NEW sigs, GovernanceCall(self, payload, sigs)
      PROVE  UNCHANGED otherVars
    BY <1>2 DEF GovernanceCall, RegisterPolicy, DeregisterPolicy, RotateAuthorizerKey,
       AuthorizePress, RevokePress, DisablePolicyDeletePermanently
<1>3. CASE Tick \/ UNCHANGED vars
    BY <1>3 DEF Tick, vars, storageVars
<1>4. QED
    BY <1>1, <1>2, <1>3, SMTT(30) DEF Next, otherVars, dnsVars

DnsInv == SubCardInv /\ DomainTablesAgree

LEMMA InitDnsInv == Init => DnsInv
<1> SUFFICES ASSUME Init PROVE DomainTablesAgree
    BY InitSubCardInv DEF DnsInv
<1>1. /\ \A d \in Domain : domains[d] = NoDomain
      /\ \A e \in Domain \X Path : policyAddresses[e] = Nil
      /\ \A c \in Card : adminKeys[c] = Nil
    BY DEF Init, StorageInit
<1>2. NoDomain.admin = Nil
    BY DEF NoDomain
<1>3. QED
    BY <1>1, <1>2 DEF DomainTablesAgree

LEMMA DnsNextKeepsInv ==
    ASSUME TypeOK, DnsInv, [DnsNext]_vars
    PROVE  DnsInv'
<1>1. ASSUME [Next]_vars PROVE DnsInv'
    BY <1>1, NextKept, NextLeavesDns, NextKeepsTables DEF DnsInv
<1>2. ASSUME NEW self \in Logic, NEW r \in Press, DnsPressCall(self, r) PROVE DnsInv'
    BY <1>2, DnsCallFrame, SubCardsFrame, DnsPressCallKeepsTables DEF DnsInv, SubCardInv
<1>3. ASSUME NEW self \in Logic, NEW payload \in GovernancePayload, NEW sigs \in SignerList,
             DnsBoardCall(self, payload, sigs)
      PROVE  DnsInv'
  <2>1. UNCHANGED <<subCards, now>>
    BY <1>3, DnsBoardCallQuorum DEF DnsBoard, dnsFrame
  <2>2. QED
    BY <1>3, <2>1, DnsBoardCallKeepsTables DEF DnsInv, SubCardInv
<1>4. QED
    BY <1>1, <1>2, <1>3 DEF DnsNext

\* For any number of domains, paths and cards and any order of card, governance
\* and DNS calls: a key the sub-card check accepts belongs to the admin of a
\* registered domain, a path never leads to a card that does not exist, and a
\* domain nobody registered is blank.
THEOREM TablesAgree == DnsSpec => []DomainTablesAgree
<1>1. DnsInv => DomainTablesAgree
    BY DEF DnsInv
<1>2. QED
    BY <1>1, InitDnsInv, DnsNextKeepsInv, DnsTypeCorrect, PTL DEF DnsSpec

-----------------------------------------------------------------------------
(* PathsWrittenWithAuthority                                                *)

PathAuthority ==
    \/ usedNonces' # usedNonces
    \/ \E r \in Press :
          /\ dnsPolicy \in policies
          /\ auth[<<dnsPolicy, r>>].active
          /\ auth'[<<dnsPolicy, r>>].sequence = auth[<<dnsPolicy, r>>].sequence + 1

LEMMA DnsGateAuthority ==
    ASSUME TypeOK, NEW self, NEW r \in Press, DnsPressCall(self, r)
    PROVE  PathAuthority
BY DnsPressCallGate, GateAuthority DEF DnsGate, Gate, RunWriteGate, PathAuthority

LEMMA DnsBoardAuthority ==
    ASSUME NEW self, NEW payload, NEW sigs, DnsBoardCall(self, payload, sigs)
    PROVE  PathAuthority
BY DnsBoardCallQuorum DEF DnsBoard, VerifyGovernanceQuorum, MarkNonceUsed, PathAuthority

\* Every change of a path, whichever of the five calls that write paths made it,
\* spends a nonce of the DNS body or a sequence number of a press that is active
\* under the DNS policy: the payload behind it cannot change a path again.
THEOREM PathsHaveAuthority == DnsSpec => PathsWrittenWithAuthority
<1>1. ASSUME TypeOK, [DnsNext]_vars, policyAddresses' # policyAddresses
      PROVE  PathAuthority
  <2>1. ~[Next]_vars
    BY <1>1, NextLeavesDns DEF dnsVars
  <2>2. QED
    BY <1>1, <2>1, DnsGateAuthority, DnsBoardAuthority DEF DnsNext
<1>2. TypeOK /\ [DnsNext]_vars =>
        (policyAddresses' # policyAddresses =>
            \/ usedNonces' # usedNonces
            \/ \E r \in Press :
                  /\ dnsPolicy \in policies
                  /\ auth[<<dnsPolicy, r>>].active
                  /\ auth'[<<dnsPolicy, r>>].sequence = auth[<<dnsPolicy, r>>].sequence + 1)
    BY <1>1 DEF PathAuthority
<1>3. QED
    BY <1>2, DnsTypeCorrect, PTL DEF DnsSpec, PathsWrittenWithAuthority
=============================================================================
