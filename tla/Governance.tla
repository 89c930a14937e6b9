----------------------------- MODULE Governance -----------------------------
(***************************************************************************)
(* The logic contract's operations on itself: rotation of the governance    *)
(* keysets and the protocol version (governance_ops.rs), and the two-step   *)
(* upgrades of the logic contract and of its verifier (upgrade_ops.rs).     *)
(*                                                                         *)
(* The verifier address, its pending upgrade and the protocol version live  *)
(* in each logic contract and not in storage, so they are functions of the  *)
(* logic contract: a replaced contract keeps its own.                       *)
(***************************************************************************)
EXTENDS WriteGate

CONSTANTS
    Verifier,           \* addresses of verifier modules
    Version,            \* protocol version strings
    KeyList,            \* the lists of keys a rotation may install
    Quorums,            \* the quorums a rotation may ask for
    LogicTimelock,      \* LOGIC_UPGRADE_TIMELOCK_SECS
    VerifierTimelock,   \* VERIFIER_UPGRADE_TIMELOCK_SECS
    MinGovernanceKeys   \* MIN_GOVERNANCE_KEYS

ASSUME GovernanceAssumption ==
    /\ Nil \notin Verifier \cup Version
    /\ KeyList \subseteq Seq(Key)
    /\ Quorums \subseteq Nat
    /\ {LogicTimelock, VerifierTimelock, MinGovernanceKeys} \subseteq Nat

VARIABLES
    verifier,           \* verifier_module, per logic contract
    pendingVerifier,    \* pending_verifier_*, per logic contract
    protocolVersion,    \* protocol_version, per logic contract
    approvals,          \* per nonce: how many payloads with it were accepted
    sponsor             \* the Root keyset that proposed the pending logic upgrade

ownVars == <<verifier, pendingVerifier, protocolVersion>>
vars == <<storageVars, now, ownVars, approvals, sponsor>>

PendingVerifier == [address : Verifier \cup {Nil}, at : Nat, version : Nat]

TypeOK ==
    /\ StorageTypeOK
    /\ now \in Nat
    /\ verifier \in [Logic -> Verifier \cup {Nil}]
    /\ pendingVerifier \in [Logic -> PendingVerifier]
    /\ protocolVersion \in [Logic -> Version \cup {Nil}]
    /\ approvals \in [Nonce -> Nat]
    /\ sponsor \in Keyset

\* No logic contract is initialized yet, not even the one in force.
Init ==
    /\ \E l \in Logic, k \in Key : StorageInit(l, k)
    /\ now = 1
    /\ verifier = [l \in Logic |-> Nil]
    /\ pendingVerifier = [l \in Logic |-> NoUpgrade]
    /\ protocolVersion = [l \in Logic |-> Nil]
    /\ approvals = [n \in Nonce |-> 0]
    /\ sponsor = keysets["Root"]

-----------------------------------------------------------------------------

\* A logic contract that has not been initialized has no storage to ask.
Approve(self, body, payload, sigs) ==
    /\ verifier[self] # Nil
    /\ VerifyGovernanceQuorum(self, body, payload, sigs)
    /\ approvals' = [approvals EXCEPT ![payload.nonce] = @ + 1]

\* Mutant: the timelock is one tick short.
ElapsedTooSoon(at, delay) == now + 1 >= at + delay

Elapsed(at, delay) == now >= at + delay

\* Mutant: a proposal outlives the keyset that made it.
AnyProposer(version) == TRUE

ProposerInOffice(version) == version = keysets["Root"].version

\* Anyone may wire a logic contract to the storage contract and a verifier, once.
Initialize(self, v) ==
    /\ verifier[self] = Nil
    /\ v # Nil
    /\ verifier' = [verifier EXCEPT ![self] = v]
    /\ UNCHANGED <<storageVars, now, pendingVerifier, protocolVersion, approvals, sponsor>>

NextVersion(body) == keysets[body].version + 1

RotateGovernanceKeys(self, body, keys, quorum, payload, sigs) ==
    /\ Len(keys) >= MinGovernanceKeys
    /\ quorum > Len(keys) \div 2
    /\ Approve(self, body, payload, sigs)
    /\ SetGovernanceKeyset(self, body,
          [keys |-> keys, quorum |-> quorum, version |-> NextVersion(body)])
    /\ UNCHANGED <<pressVars, policyVars, upgradeVars, dnsVars, now, ownVars, sponsor>>

SetProtocolVersion(self, version, payload, sigs) ==
    /\ version # Nil
    /\ Approve(self, "Root", payload, sigs)
    /\ protocolVersion' = [protocolVersion EXCEPT ![self] = version]
    /\ UNCHANGED <<pressVars, policyVars, keysets, upgradeVars, dnsVars, now,
                   verifier, pendingVerifier, sponsor>>

ProposeLogicUpgrade(self, new, payload, sigs) ==
    /\ pendingLogic.address = Nil
    /\ new # Nil
    /\ new # logic
    /\ Approve(self, "Root", payload, sigs)
    /\ SetPendingLogicUpgrade(self, [address |-> new, at |-> now,
                                     version |-> keysets["Root"].version])
    /\ sponsor' = keysets["Root"]
    /\ UNCHANGED <<pressVars, policyVars, keysets, logic, dnsVars, now, ownVars>>

ConfirmLogicUpgrade(self, new, payload, sigs) ==
    /\ pendingLogic.address # Nil
    /\ new = pendingLogic.address
    /\ Elapsed(pendingLogic.at, LogicTimelock)
    /\ ProposerInOffice(pendingLogic.version)
    /\ Approve(self, "Root", payload, sigs)
    /\ ClearPendingLogicUpgrade(self)
    /\ SetLogicContract(self, new)
    /\ UNCHANGED <<pressVars, policyVars, keysets, dnsVars, now, ownVars, sponsor>>

CancelLogicUpgrade(self, payload, sigs) ==
    /\ pendingLogic.address # Nil
    /\ Approve(self, "Root", payload, sigs)
    /\ ClearPendingLogicUpgrade(self)
    /\ UNCHANGED <<pressVars, policyVars, keysets, logic, dnsVars, now, ownVars, sponsor>>

ProposeVerifierUpgrade(self, new, payload, sigs) ==
    /\ pendingVerifier[self].address = Nil
    /\ new # Nil
    /\ new # verifier[self]
    /\ Approve(self, "Root", payload, sigs)
    /\ pendingVerifier' = [pendingVerifier EXCEPT ![self] =
          [address |-> new, at |-> now, version |-> keysets["Root"].version]]
    /\ UNCHANGED <<pressVars, policyVars, keysets, upgradeVars, dnsVars, now,
                   verifier, protocolVersion, sponsor>>

ConfirmVerifierUpgrade(self, new, payload, sigs) ==
    /\ pendingVerifier[self].address # Nil
    /\ new = pendingVerifier[self].address
    /\ Elapsed(pendingVerifier[self].at, VerifierTimelock)
    /\ ProposerInOffice(pendingVerifier[self].version)
    /\ Approve(self, "Root", payload, sigs)
    /\ pendingVerifier' = [pendingVerifier EXCEPT ![self] = NoUpgrade]
    /\ verifier' = [verifier EXCEPT ![self] = new]
    /\ UNCHANGED <<pressVars, policyVars, keysets, upgradeVars, dnsVars, now,
                   protocolVersion, sponsor>>

CancelVerifierUpgrade(self, payload, sigs) ==
    /\ pendingVerifier[self].address # Nil
    /\ Approve(self, "Root", payload, sigs)
    /\ pendingVerifier' = [pendingVerifier EXCEPT ![self] = NoUpgrade]
    /\ UNCHANGED <<pressVars, policyVars, keysets, upgradeVars, dnsVars, now,
                   verifier, protocolVersion, sponsor>>

Tick ==
    /\ now < MaxTime
    /\ now' = now + 1
    /\ UNCHANGED <<storageVars, ownVars, approvals, sponsor>>

BoardCall(self, payload, sigs) ==
    \/ \E b \in Body, keys \in KeyList, q \in Quorums :
          RotateGovernanceKeys(self, b, keys, q, payload, sigs)
    \/ \E v \in Version : SetProtocolVersion(self, v, payload, sigs)
    \/ \E new \in Logic : \/ ProposeLogicUpgrade(self, new, payload, sigs)
                          \/ ConfirmLogicUpgrade(self, new, payload, sigs)
    \/ CancelLogicUpgrade(self, payload, sigs)
    \/ \E new \in Verifier : \/ ProposeVerifierUpgrade(self, new, payload, sigs)
                             \/ ConfirmVerifierUpgrade(self, new, payload, sigs)
    \/ CancelVerifierUpgrade(self, payload, sigs)

Next ==
    \/ Tick
    \/ \E self \in Logic, v \in Verifier : Initialize(self, v)
    \/ \E self \in Logic, payload \in GovernancePayload, sigs \in SignerList :
          BoardCall(self, payload, sigs)

Spec == Init /\ [][Next]_vars

-----------------------------------------------------------------------------
(* Safety                                                                   *)

LogicUpgrade == INSTANCE TimelockedUpgrade WITH
    Address <- Logic, Delay <- LogicTimelock, None <- Nil,
    current <- logic, proposed <- pendingLogic.address, since <- pendingLogic.at,
    proposer <- pendingLogic.version, board <- keysets["Root"].version, clock <- now

VerifierUpgrade(l) == INSTANCE TimelockedUpgrade WITH
    Address <- Verifier, Delay <- VerifierTimelock, None <- Nil,
    current <- verifier[l], proposed <- pendingVerifier[l].address,
    since <- pendingVerifier[l].at, proposer <- pendingVerifier[l].version,
    board <- keysets["Root"].version, clock <- now

\* The logic contract changes only through the timelocked upgrade, whatever else
\* the three boards vote for in the meantime and whichever contract is in force.
LogicIsTimelocked == LogicUpgrade!Spec

\* So does the verifier of every logic contract, after its initialization: the same
\* specification, for each of them.
VerifierIsTimelocked ==
    /\ \A l \in Logic : VerifierUpgrade(l)!Init
    /\ [][\A l \in Logic : VerifierUpgrade(l)!Next \/ UNCHANGED VerifierUpgrade(l)!vars]_vars

\* An upgrade is confirmed by the very keyset that proposed it: any rotation of the
\* Root keyset in between, also one back to the same keys, voids the proposal.
SponsorConfirms == [][logic' # logic => keysets["Root"] = sponsor]_vars

\* A governance payload is accepted once: not by another body, not after a rotation
\* and not by the next logic contract.
ApprovalSpentOnce == \A n \in Nonce : approvals[n] <= 1

\* A logic contract that is not in force can do nothing, not even complete the
\* verifier upgrade that was pending in it when it was replaced.
ReplacedLogicInert ==
    [][\A l \in Logic : l # logic /\ verifier[l] # Nil =>
          /\ verifier'[l] = verifier[l]
          /\ pendingVerifier'[l] = pendingVerifier[l]
          /\ protocolVersion'[l] = protocolVersion[l]]_vars
=============================================================================
