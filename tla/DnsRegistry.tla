----------------------------- MODULE DnsRegistry -----------------------------
(***************************************************************************)
(* The logic contract's DNS operations (dns_ops.rs) on top of CardRegistry: *)
(* domains, their admin cards and keys, and the policy cards registered at  *)
(* the paths under them.  They read the card, sub-card and press tables     *)
(* that CardRegistry writes, and RegisterSubCard reads the admin keys that   *)
(* they write, so the two run together.                                     *)
(***************************************************************************)
EXTENDS CardRegistry

CONSTANTS MaxClearEntries       \* MAX_CLEAR_ENTRIES_BATCH

ASSUME DnsAssumption == MaxClearEntries \in Nat

dnsFrame == <<cards, subCards, offerCounts, policyVars, upgradeVars, keysets, now>>

\* Approved by the quorum of the DNS body; no press is involved.
DnsBoard(self, payload, sigs) ==
    /\ VerifyGovernanceQuorum(self, "Dns", payload, sigs)
    /\ UNCHANGED <<dnsFrame, auth, historyVars>>

\* Mutant: the gate is checked but the sequence number is not consumed.
DnsGateUnspent(self, press, payload, op) ==
    /\ dnsPolicy # Nil
    /\ ValidateWriteGate(dnsPolicy, press, payload, op)
    /\ Accept(dnsPolicy, press, payload)
    /\ UNCHANGED <<dnsFrame, auth, usedNonces, headLog, epoch, claims>>

\* Submitted by a press under the DNS governance policy; no quorum is involved.
DnsGate(self, press, payload, op) ==
    /\ dnsPolicy # Nil
    /\ Gate(self, dnsPolicy, press, payload, op)
    /\ UNCHANGED <<dnsFrame, usedNonces, headLog, epoch, claims>>

-----------------------------------------------------------------------------

RegisterDomain(self, domain, admin, key, payload, sigs) ==
    /\ dnsPolicy # Nil
    /\ cards[admin].exists
    /\ cards[admin].policy = dnsPolicy
    /\ domains[domain].exists => domains[domain].admin = Nil
    /\ DnsBoard(self, payload, sigs)
    /\ SetDomainEntry(self, domain, [exists |-> TRUE, admin |-> admin, risk |-> 0,
                                     suspendedUntil |-> 0])
    /\ SetDnsAdminCardKey(self, admin, key)
    /\ UNCHANGED <<policyAddresses, dnsPolicy>>

\* Mutant: the key of the admin card stays.
KeepAdminKey(self, admin) == UNCHANGED adminKeys

ClearAdminKey(self, admin) ==
    IF admin # Nil THEN SetDnsAdminCardKey(self, admin, Nil) ELSE UNCHANGED adminKeys

DeregisterDomain(self, domain, payload, sigs) ==
    /\ domains[domain].exists
    /\ DnsBoard(self, payload, sigs)
    /\ SetDomainEntry(self, domain, [domains[domain] EXCEPT !.admin = Nil])
    /\ ClearAdminKey(self, domains[domain].admin)
    /\ UNCHANGED <<policyAddresses, dnsPolicy>>

Suspended(domain) == domains[domain].risk = 2 /\ now < domains[domain].suspendedUntil

\* admin and sub are the addresses the caller passes; sub is Nil when the admin
\* submits directly.  A domain without an admin is matched by passing Nil.
SetPolicyAddress(self, domain, path, value, admin, sub, press, payload) ==
    /\ domains[domain].exists
    /\ ~Suspended(domain)
    /\ admin = domains[domain].admin
    /\ sub # Nil => subCards[sub].active /\ subCards[sub].master = admin
    /\ DnsGate(self, press, payload, "set_policy_address")
    /\ cards[value].exists
    /\ SetPolicyAddresses(self, domain, {path}, value)
    /\ UNCHANGED <<domains, adminKeys, dnsPolicy>>

PolicyAddressToRemove(domain, path) ==
    /\ domains[domain].exists
    /\ policyAddresses[<<domain, path>>] # Nil

\* Path A of remove_policy_address: any card under the DNS policy will do.
RemovePolicyAddressByPress(self, domain, path, card, press, payload) ==
    /\ PolicyAddressToRemove(domain, path)
    /\ cards[card].exists
    /\ cards[card].policy = dnsPolicy
    /\ DnsGate(self, press, payload, "remove_policy_address")
    /\ SetPolicyAddresses(self, domain, {path}, Nil)
    /\ UNCHANGED <<domains, adminKeys, dnsPolicy>>

\* Path B, taken when the card address passed is zero.
RemovePolicyAddressByBoard(self, domain, path, payload, sigs) ==
    /\ PolicyAddressToRemove(domain, path)
    /\ DnsBoard(self, payload, sigs)
    /\ SetPolicyAddresses(self, domain, {path}, Nil)
    /\ UNCHANGED <<domains, adminKeys, dnsPolicy>>

\* paths is the set of paths listed; zeroing one twice is zeroing it once.
ClearDomainEntries(self, domain, paths, payload, sigs) ==
    /\ paths # {} /\ Cardinality(paths) <= MaxClearEntries
    /\ domains[domain].exists
    /\ DnsBoard(self, payload, sigs)
    /\ SetPolicyAddresses(self, domain, paths, Nil)
    /\ UNCHANGED <<domains, adminKeys, dnsPolicy>>

FlagDomainFraudRisk(self, domain, risk, until, payload, sigs) ==
    /\ risk <= 2
    /\ IF risk = 2 THEN until > now ELSE until = 0
    /\ domains[domain].exists
    /\ DnsBoard(self, payload, sigs)
    /\ SetDomainEntry(self, domain, [domains[domain] EXCEPT !.risk = risk,
                                                            !.suspendedUntil = until])
    /\ UNCHANGED <<policyAddresses, adminKeys, dnsPolicy>>

GovernanceSetPolicyAddress(self, domain, path, value, payload, sigs) ==
    /\ domains[domain].exists
    /\ value # Nil => cards[value].exists
    /\ DnsBoard(self, payload, sigs)
    /\ SetPolicyAddresses(self, domain, {path}, value)
    /\ UNCHANGED <<domains, adminKeys, dnsPolicy>>

SetDnsGovernancePolicyAddress(self, policy, payload, sigs) ==
    /\ policy \in policies
    /\ policy # dnsPolicy
    /\ DnsBoard(self, payload, sigs)
    /\ SetDnsGovernancePolicy(self, policy)
    /\ UNCHANGED <<domains, policyAddresses, adminKeys>>

-----------------------------------------------------------------------------

DnsPressCall(self, press) ==
    \/ \E payload \in PressPayload("set_policy_address"), d \in Domain, p \in Path, v \in Card,
          admin \in Card \cup {Nil}, sub \in SubCard \cup {Nil} :
          SetPolicyAddress(self, d, p, v, admin, sub, press, payload)
    \/ \E payload \in PressPayload("remove_policy_address"), d \in Domain, p \in Path, c \in Card :
          RemovePolicyAddressByPress(self, d, p, c, press, payload)

DnsBoardCall(self, payload, sigs) ==
    \/ \E d \in Domain :
          \/ \E admin \in Card, key \in Key : RegisterDomain(self, d, admin, key, payload, sigs)
          \/ DeregisterDomain(self, d, payload, sigs)
          \/ \E ps \in SUBSET Path : ClearDomainEntries(self, d, ps, payload, sigs)
          \/ \E risk \in 0..3, until \in 0..MaxTime :
                FlagDomainFraudRisk(self, d, risk, until, payload, sigs)
          \/ \E p \in Path : \/ RemovePolicyAddressByBoard(self, d, p, payload, sigs)
                             \/ \E v \in Card \cup {Nil} :
                                  GovernanceSetPolicyAddress(self, d, p, v, payload, sigs)
    \/ \E p \in Policy : SetDnsGovernancePolicyAddress(self, p, payload, sigs)

DnsNext ==
    \/ Next
    \/ \E self \in Logic, press \in Press : DnsPressCall(self, press)
    \/ \E self \in Logic, payload \in GovernancePayload, sigs \in SignerList :
          DnsBoardCall(self, payload, sigs)

DnsSpec == Init /\ [][DnsNext]_vars

-----------------------------------------------------------------------------
(* Safety                                                                   *)

\* The DNS tables agree: only the admin card of a registered domain holds an
\* admin key, an admin and the card at a path are registered cards, and a domain
\* never registered has no admin, no risk and no paths.
DomainTablesAgree ==
    /\ \A c \in Card : adminKeys[c] # Nil => \E d \in Domain : domains[d].admin = c
    /\ \A d \in Domain : domains[d].admin # Nil => cards[domains[d].admin].exists
    /\ \A e \in Domain \X Path :
          policyAddresses[e] # Nil => domains[e[1]].exists /\ cards[policyAddresses[e]].exists
    /\ \A d \in Domain : ~domains[d].exists => domains[d] = NoDomain

\* A path changes only by a payload that cannot change it again: the DNS body
\* spends a nonce, or an active press under the recognized DNS policy spends its
\* sequence number.
PathsWrittenWithAuthority ==
    [][policyAddresses' # policyAddresses =>
          \/ usedNonces' # usedNonces
          \/ \E r \in Press :
                /\ dnsPolicy \in policies
                /\ auth[<<dnsPolicy, r>>].active
                /\ auth'[<<dnsPolicy, r>>].sequence = auth[<<dnsPolicy, r>>].sequence + 1]_vars
=============================================================================
