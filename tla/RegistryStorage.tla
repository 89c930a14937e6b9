-------------------------- MODULE RegistryStorage --------------------------
(***************************************************************************)
(* The storage contract of the registry (contracts/storage-contract): every *)
(* mapping the protocol keeps on chain and the permissioned setters through  *)
(* which the logic contract writes them.                                     *)
(*                                                                         *)
(* Each setter is an operator that states its guard and the next value of   *)
(* the one mapping it writes.  The logic contract's modules conjoin setters *)
(* into handlers; a transaction is atomic, so a handler whose guard fails   *)
(* reverts and leaves no step.                                              *)
(*                                                                         *)
(* StorageSpec is the storage contract on its own: ANY logic contract, good *)
(* or bad, may call any setter with any arguments.  It states what no       *)
(* upgrade can take away.                                                   *)
(***************************************************************************)
EXTENDS Naturals, Sequences

CONSTANTS
    Card,           \* addresses of cards
    SubCard,        \* addresses of sub-cards
    Policy,         \* addresses of policies
    Press,          \* addresses of presses
    Key,            \* 64-byte secp256r1 public keys
    Cid,            \* content identifiers
    Offer,          \* open offer identifiers
    Nonce,          \* governance nonces
    Logic,          \* logic contract addresses
    Domain, Path,   \* DNS names and the paths under them
    Keysets,        \* keysets a governance body may install
    MaxTime,        \* bound on block timestamps
    MaxSequence,    \* bound on press sequence numbers
    MaxUses,        \* bound on open offer use counts
    Nil             \* the zero address, the empty byte string

Body == {"Root", "PressRegistry", "Dns"}
Keyset == [keys : Seq(Key), quorum : Nat, version : Nat]

ASSUME StorageAssumption ==
    /\ Nil \notin Card \cup SubCard \cup Policy \cup Press \cup Key \cup Cid \cup Logic
    /\ Keysets \subseteq Keyset
    /\ MaxTime \in Nat /\ MaxSequence \in Nat /\ MaxUses \in Nat

VARIABLES
    cards,              \* card_entries
    policies,           \* the keys of policy_authorizer_keys
    deleteDisabled,     \* policy_delete_disabled
    auth,               \* press_authorizations
    subCards,           \* sub_card_registrations
    offerCounts,        \* open_offer_use_counts
    keysets,            \* governance_keysets
    usedNonces,         \* used_nonces
    logic,              \* logic_contract
    pendingLogic,       \* pending_logic_upgrade
    domains,            \* domain_registrations
    policyAddresses,    \* policy_addresses
    adminKeys,          \* dns_admin_card_keys
    dnsPolicy           \* dns_governance_policy_address

pressVars == <<cards, auth, subCards, offerCounts>>
policyVars == <<policies, deleteDisabled>>
bodyVars == <<keysets, usedNonces>>
upgradeVars == <<logic, pendingLogic>>
dnsVars == <<domains, policyAddresses, adminKeys, dnsPolicy>>
storageVars == <<pressVars, policyVars, bodyVars, upgradeVars, dnsVars>>

CardEntry ==
    [exists : BOOLEAN, head : Cid \cup {Nil}, policy : Policy \cup {Nil},
     lastPress : Press \cup {Nil}, forward : Card \cup {Nil}]
PressAuthEntry == [key : Key \cup {Nil}, active : BOOLEAN, sequence : Nat]
SubCardEntry ==
    [master : Card \cup {Nil}, head : Cid \cup {Nil}, active : BOOLEAN,
     deregisteredAt : Nat]
PendingUpgrade == [address : Logic \cup {Nil}, at : Nat, version : Nat]
DomainEntry ==
    [exists : BOOLEAN, admin : Card \cup {Nil}, risk : 0..255, suspendedUntil : Nat]

NoCard == [exists |-> FALSE, head |-> Nil, policy |-> Nil, lastPress |-> Nil,
           forward |-> Nil]
NoAuth == [key |-> Nil, active |-> FALSE, sequence |-> 0]
NoSubCard == [master |-> Nil, head |-> Nil, active |-> FALSE, deregisteredAt |-> 0]
NoUpgrade == [address |-> Nil, at |-> 0, version |-> 0]
NoDomain == [exists |-> FALSE, admin |-> Nil, risk |-> 0, suspendedUntil |-> 0]

StorageTypeOK ==
    /\ cards \in [Card -> CardEntry]
    /\ policies \subseteq Policy
    /\ deleteDisabled \in BOOLEAN
    /\ auth \in [Policy \X Press -> PressAuthEntry]
    /\ subCards \in [SubCard -> SubCardEntry]
    /\ offerCounts \in [Offer -> Nat]
    /\ keysets \in [Body -> Keyset]
    /\ usedNonces \subseteq Nonce
    /\ logic \in Logic
    /\ pendingLogic \in PendingUpgrade
    /\ domains \in [Domain -> DomainEntry]
    /\ policyAddresses \in [Domain \X Path -> Card \cup {Nil}]
    /\ adminKeys \in [Card -> Key \cup {Nil}]
    /\ dnsPolicy \in Policy \cup {Nil}

-----------------------------------------------------------------------------
(* Setters.  caller is msg.sender: only the current logic contract passes.  *)

RequireLogicContract(caller) == caller = logic

SetCardEntry(caller, card, head, policy, press, exists) ==
    /\ RequireLogicContract(caller)
    /\ cards[card].exists => exists
    /\ cards' = [cards EXCEPT ![card] =
          [exists |-> exists, head |-> head, policy |-> policy, lastPress |-> press,
           forward |-> @.forward]]

SetForwardTo(caller, card, new) ==
    /\ RequireLogicContract(caller)
    /\ cards[card].forward = Nil
    /\ cards' = [cards EXCEPT ![card].forward = new]

\* heads maps each card to be updated to its new head: one call per card.
UpdateCardHeads(caller, heads, press) ==
    /\ RequireLogicContract(caller)
    /\ cards' = [c \in Card |->
                    IF c \in DOMAIN heads
                    THEN [cards[c] EXCEPT !.head = heads[c], !.lastPress = press]
                    ELSE cards[c]]

SetPressAuthEntry(caller, policy, press, entry) ==
    /\ RequireLogicContract(caller)
    /\ auth' = [auth EXCEPT ![<<policy, press>>] = entry]

IncrementPressSequence(caller, policy, press) ==
    /\ RequireLogicContract(caller)
    /\ auth' = [auth EXCEPT ![<<policy, press>>].sequence = @ + 1]

SetSubCardEntry(caller, sub, entry) ==
    /\ RequireLogicContract(caller)
    /\ subCards[sub].deregisteredAt # 0 => entry.deregisteredAt # 0
    /\ subCards' = [subCards EXCEPT ![sub] = entry]

SetOpenOfferCount(caller, offer, count) ==
    /\ RequireLogicContract(caller)
    /\ offerCounts' = [offerCounts EXCEPT ![offer] = count]

SetPolicyAuthorizerKey(caller, policy) ==
    /\ RequireLogicContract(caller)
    /\ policies' = policies \cup {policy}

DeletePolicyAuthorizerKey(caller, policy) ==
    /\ RequireLogicContract(caller)
    /\ ~deleteDisabled
    /\ policies' = policies \ {policy}

DisablePolicyDelete(caller) ==
    /\ RequireLogicContract(caller)
    /\ ~deleteDisabled
    /\ deleteDisabled' = TRUE

SetGovernanceKeyset(caller, body, keyset) ==
    /\ RequireLogicContract(caller)
    /\ keysets' = [keysets EXCEPT ![body] = keyset]

MarkNonceUsed(caller, nonce) ==
    /\ RequireLogicContract(caller)
    /\ usedNonces' = usedNonces \cup {nonce}


SetLogicContract(caller, new) ==
    /\ RequireLogicContract(caller)
    /\ new # Nil
    /\ logic' = new

SetPendingLogicUpgrade(caller, proposal) ==
    /\ RequireLogicContract(caller)
    /\ pendingLogic' = proposal

ClearPendingLogicUpgrade(caller) ==
    /\ RequireLogicContract(caller)
    /\ pendingLogic' = NoUpgrade

SetDomainEntry(caller, domain, entry) ==
    /\ RequireLogicContract(caller)
    /\ domains[domain].exists => entry.exists
    /\ domains' = [domains EXCEPT ![domain] = entry]

\* paths is the set of paths of the domain to be written: one call per path.
SetPolicyAddresses(caller, domain, paths, value) ==
    /\ RequireLogicContract(caller)
    /\ policyAddresses' = [e \in Domain \X Path |->
                              IF e[1] = domain /\ e[2] \in paths
                              THEN value ELSE policyAddresses[e]]

SetDnsAdminCardKey(caller, card, key) ==
    /\ RequireLogicContract(caller)
    /\ adminKeys' = [adminKeys EXCEPT ![card] = key]

SetDnsGovernancePolicy(caller, policy) ==
    /\ RequireLogicContract(caller)
    /\ dnsPolicy' = policy

-----------------------------------------------------------------------------
(* initialize: the deployer's key is the only key of all three bodies.      *)

StorageInit(initialLogic, deployer) ==
    /\ cards = [c \in Card |-> NoCard]
    /\ policies = {}
    /\ deleteDisabled = FALSE
    /\ auth = [a \in Policy \X Press |-> NoAuth]
    /\ subCards = [s \in SubCard |-> NoSubCard]
    /\ offerCounts = [o \in Offer |-> 0]
    /\ keysets = [b \in Body |-> [keys |-> <<deployer>>, quorum |-> 1, version |-> 0]]
    /\ usedNonces = {}
    /\ logic = initialLogic
    /\ pendingLogic = NoUpgrade
    /\ domains = [d \in Domain |-> NoDomain]
    /\ policyAddresses = [e \in Domain \X Path |-> Nil]
    /\ adminKeys = [c \in Card |-> Nil]
    /\ dnsPolicy = Nil

(* Any logic contract: every setter, with any arguments.                    *)

AnyCardSetter(caller) ==
    /\ \/ \E c \in Card, h \in Cid, p \in Policy, r \in Press, e \in BOOLEAN :
              SetCardEntry(caller, c, h, p, r, e)
       \/ \E c \in Card, n \in Card \cup {Nil} : SetForwardTo(caller, c, n)
       \/ \E c \in Card, h \in Cid, r \in Press :
              UpdateCardHeads(caller, [x \in {c} |-> h], r)
    /\ UNCHANGED <<auth, subCards, offerCounts, policyVars, bodyVars, upgradeVars, dnsVars>>

AnyPressSetter(caller) ==
    /\ \/ \E p \in Policy, r \in Press, k \in Key, on \in BOOLEAN, n \in 0..MaxSequence :
              SetPressAuthEntry(caller, p, r, [key |-> k, active |-> on, sequence |-> n])
       \/ \E p \in Policy, r \in Press :
              /\ auth[<<p, r>>].sequence < MaxSequence
              /\ IncrementPressSequence(caller, p, r)
    /\ UNCHANGED <<cards, subCards, offerCounts, policyVars, bodyVars, upgradeVars, dnsVars>>

AnySubCardSetter(caller) ==
    /\ \E s \in SubCard, m \in Card, h \in Cid, on \in BOOLEAN, t \in 0..MaxTime :
          SetSubCardEntry(caller, s, [master |-> m, head |-> h, active |-> on,
                                      deregisteredAt |-> t])
    /\ UNCHANGED <<cards, auth, offerCounts, policyVars, bodyVars, upgradeVars, dnsVars>>

AnyOfferSetter(caller) ==
    /\ \E o \in Offer, n \in 0..MaxUses : SetOpenOfferCount(caller, o, n)
    /\ UNCHANGED <<cards, auth, subCards, policyVars, bodyVars, upgradeVars, dnsVars>>

AnyPolicySetter(caller) ==
    /\ \/ /\ \E p \in Policy : \/ SetPolicyAuthorizerKey(caller, p)
                               \/ DeletePolicyAuthorizerKey(caller, p)
          /\ UNCHANGED deleteDisabled
       \/ DisablePolicyDelete(caller) /\ UNCHANGED policies
    /\ UNCHANGED <<pressVars, bodyVars, upgradeVars, dnsVars>>

AnyBodySetter(caller) ==
    /\ \/ \E b \in Body, ks \in Keysets :
              SetGovernanceKeyset(caller, b, ks) /\ UNCHANGED usedNonces
       \/ \E n \in Nonce : MarkNonceUsed(caller, n) /\ UNCHANGED keysets
    /\ UNCHANGED <<pressVars, policyVars, upgradeVars, dnsVars>>

AnyUpgradeSetter(caller) ==
    /\ \/ \E l \in Logic : SetLogicContract(caller, l) /\ UNCHANGED pendingLogic
       \/ /\ \/ \E l \in Logic, t \in 0..MaxTime, ks \in Keysets :
                   SetPendingLogicUpgrade(caller,
                       [address |-> l, at |-> t, version |-> ks.version])
             \/ ClearPendingLogicUpgrade(caller)
          /\ UNCHANGED logic
    /\ UNCHANGED <<pressVars, policyVars, bodyVars, dnsVars>>

AnyDnsSetter(caller) ==
    /\ \/ /\ \E d \in Domain, a \in Card \cup {Nil}, r \in 0..2, t \in 0..MaxTime, e \in BOOLEAN :
                SetDomainEntry(caller, d, [exists |-> e, admin |-> a, risk |-> r,
                                           suspendedUntil |-> t])
          /\ UNCHANGED <<policyAddresses, adminKeys, dnsPolicy>>
       \/ /\ \E d \in Domain, p \in Path, v \in Card \cup {Nil} :
                SetPolicyAddresses(caller, d, {p}, v)
          /\ UNCHANGED <<domains, adminKeys, dnsPolicy>>
       \/ /\ \E c \in Card, k \in Key \cup {Nil} : SetDnsAdminCardKey(caller, c, k)
          /\ UNCHANGED <<domains, policyAddresses, dnsPolicy>>
       \/ /\ \E p \in Policy \cup {Nil} : SetDnsGovernancePolicy(caller, p)
          /\ UNCHANGED <<domains, policyAddresses, adminKeys>>
    /\ UNCHANGED <<pressVars, policyVars, bodyVars, upgradeVars>>

StorageNext ==
    \E caller \in Logic :
        \/ AnyCardSetter(caller)
        \/ AnyPressSetter(caller)
        \/ AnySubCardSetter(caller)
        \/ AnyOfferSetter(caller)
        \/ AnyPolicySetter(caller)
        \/ AnyBodySetter(caller)
        \/ AnyUpgradeSetter(caller)
        \/ AnyDnsSetter(caller)

StorageSpec ==
    /\ \E l \in Logic, k \in Key : StorageInit(l, k)
    /\ [][StorageNext]_storageVars

-----------------------------------------------------------------------------
(* What no logic contract can take away (registry_contract.md, the table of *)
(* unconditional storage invariants).                                       *)

\* A card once registered stays registered, a forward once set never moves,
\* a deregistration is never forgotten, a domain once seen stays on record,
\* and once the policy-delete switch is thrown no policy ever disappears:
\* the setters of the storage contract refuse every other write.
AuditTrail ==
    /\ \A c \in Card : /\ cards[c].exists => cards'[c].exists
                       /\ cards[c].forward # Nil => cards'[c].forward = cards[c].forward
    /\ \A s \in SubCard : subCards[s].deregisteredAt # 0 => subCards'[s].deregisteredAt # 0
    /\ \A d \in Domain : domains[d].exists => domains'[d].exists
    /\ deleteDisabled => deleteDisabled' /\ policies \subseteq policies'

AuditTrailPermanent == [][AuditTrail]_storageVars
=============================================================================
