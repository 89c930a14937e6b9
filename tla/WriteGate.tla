----------------------------- MODULE WriteGate -----------------------------
(***************************************************************************)
(* The two authorization checks of the logic contract (write_gate.rs): the  *)
(* press write gate, run by every operation a press submits, and the        *)
(* governance quorum check, run by every operation of a governance body.    *)
(*                                                                         *)
(* A signature is modelled by the key that made it: it verifies against     *)
(* exactly that key.  Of a press payload the contract reads the operation   *)
(* name and the sequence number; of a governance payload, the keyset        *)
(* version and the nonce.  Neither is compared with the other arguments of  *)
(* the call, so payload and arguments are independent inputs.               *)
(***************************************************************************)
EXTENDS RegistryStorage, Functions

CONSTANTS
    MaxGovernanceKeys,      \* MAX_GOVERNANCE_KEYS, length of the signer bitmap
    MaxVersion,             \* bound on the keyset versions payloads name
    MaxSigners              \* bound on the signatures sent with a payload

ASSUME GateAssumption == {MaxGovernanceKeys, MaxVersion, MaxSigners} \subseteq Nat

VARIABLE now                \* block.timestamp

\* The op field of a press payload names the operation the signature is for.
PressOp == {"register_card", "update_card_head", "claim_open_offer",
            "batch_update_card_heads", "register_sub_card", "deregister_sub_card",
            "register_address_forward", "set_policy_address", "remove_policy_address"}

\* A press payload signed for op: by whom, and at which sequence number.
PressPayload(op) == [signer : Key, op : {op}, sequence : 0..MaxSequence]

\* Mutant: any sequence number not yet passed is accepted.
ValidateWriteGateLoose(policy, press, payload, op) ==
    /\ policy \in policies
    /\ auth[<<policy, press>>].key # Nil
    /\ auth[<<policy, press>>].active
    /\ payload.signer = auth[<<policy, press>>].key
    /\ payload.op = op
    /\ payload.sequence >= auth[<<policy, press>>].sequence

\* The checks of the gate, without its effect: the policy is recognized, the
\* press is authorized and not revoked, its registered key made the signature,
\* for this operation, at the sequence number the contract expects next.
ValidateWriteGate(policy, press, payload, op) ==
    /\ policy \in policies
    /\ auth[<<policy, press>>].key # Nil
    /\ auth[<<policy, press>>].active
    /\ payload.signer = auth[<<policy, press>>].key
    /\ payload.op = op
    /\ payload.sequence = auth[<<policy, press>>].sequence

RunWriteGate(self, policy, press, payload, op) ==
    /\ ValidateWriteGate(policy, press, payload, op)
    /\ IncrementPressSequence(self, policy, press)

GovernancePayload == [version : 0..MaxVersion, nonce : Nonce]
SignerList == UNION {[1..n -> Key] : n \in 1..MaxSigners}

\* The keys a signature can be matched with: the signer bitmap has room for
\* MaxGovernanceKeys indices and a match beyond it panics, which reverts.
CountableKeys(body) ==
    {keysets[body].keys[i] : i \in {j \in DOMAIN keysets[body].keys : j <= MaxGovernanceKeys}}

\* Mutant: the nonce is not looked up.
VerifyQuorumAgain(self, body, payload, sigs) ==
    /\ payload.version = keysets[body].version
    /\ Range(sigs) \subseteq CountableKeys(body)
    /\ IsInjective(sigs)
    /\ Len(sigs) >= keysets[body].quorum
    /\ MarkNonceUsed(self, payload.nonce)

\* sigs is the list of signers of the payload [version, nonce].  Two signatures
\* by one key match the same (first) index of the keyset: a duplicate signer.
VerifyGovernanceQuorum(self, body, payload, sigs) ==
    /\ payload.version = keysets[body].version
    /\ payload.nonce \notin usedNonces
    /\ Range(sigs) \subseteq CountableKeys(body)
    /\ IsInjective(sigs)
    /\ Len(sigs) >= keysets[body].quorum
    /\ MarkNonceUsed(self, payload.nonce)
=============================================================================
