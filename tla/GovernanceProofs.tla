-------------------------- MODULE GovernanceProofs --------------------------
(* Theorems about Governance, and about the scripts that govern (DomainAuthority) and
   that set a registry up (RegistrySetup), for every value of their constants.          *)
EXTENDS Governance, DomainAuthority, RegistrySetup, TLAPS

-----------------------------------------------------------------------------
(* What the proofs need to know of the types.                               *)

GovernanceTypes ==
    /\ keysets \in [Body -> Keyset]
    /\ verifier \in [Logic -> Verifier \cup {Nil}]
    /\ pendingVerifier \in [Logic -> PendingVerifier]
    /\ approvals \in [Nonce -> Nat]
    /\ now \in Nat

\* Neither rotation nor any other vote by a body touches what these list.
LEMMA RotationType ==
    ASSUME GovernanceTypes, NEW self, NEW b \in Body, NEW list \in KeyList, NEW q \in Quorums,
           SetGovernanceKeyset(self, b, [keys |-> list, quorum |-> q, version |-> NextVersion(b)])
    PROVE  /\ keysets' \in [Body -> Keyset]
           /\ keysets'[b].version = keysets[b].version + 1
           /\ \A c \in Body : c # b => keysets'[c] = keysets[c]
<1> DEFINE e == [keys |-> list, quorum |-> q, version |-> NextVersion(b)]
<1>1. keysets[b].version \in Nat
    BY DEF GovernanceTypes, Keyset
<1>2. e \in Keyset /\ e.version = keysets[b].version + 1
    BY <1>1, GovernanceAssumption DEF Keyset, NextVersion
<1>3. keysets' = [keysets EXCEPT ![b] = e]
    BY DEF SetGovernanceKeyset
<1> HIDE DEF e
<1>4. QED
    BY <1>2, <1>3 DEF GovernanceTypes

LEMMA ApproveType ==
    ASSUME GovernanceTypes, NEW self, NEW b, NEW payload \in GovernancePayload, NEW sigs,
           Approve(self, b, payload, sigs)
    PROVE  approvals' \in [Nonce -> Nat]
BY DEF Approve, GovernanceTypes, GovernancePayload

LEMMA BoardCallTypes ==
    ASSUME GovernanceTypes, NEW self \in Logic, NEW payload \in GovernancePayload, NEW sigs,
           BoardCall(self, payload, sigs)
    PROVE  GovernanceTypes'
<1>1. ASSUME NEW b \in Body, NEW list \in KeyList, NEW q \in Quorums,
             RotateGovernanceKeys(self, b, list, q, payload, sigs)
      PROVE  GovernanceTypes'
    BY <1>1, RotationType, ApproveType DEF RotateGovernanceKeys, GovernanceTypes, ownVars
<1>2. ASSUME NEW v \in Version, SetProtocolVersion(self, v, payload, sigs)
      PROVE  GovernanceTypes'
    BY <1>2, ApproveType DEF SetProtocolVersion, GovernanceTypes
<1>3. ASSUME NEW new \in Logic, ProposeLogicUpgrade(self, new, payload, sigs)
      PROVE  GovernanceTypes'
    BY <1>3, ApproveType DEF ProposeLogicUpgrade, GovernanceTypes, ownVars
<1>4. ASSUME NEW new \in Logic, ConfirmLogicUpgrade(self, new, payload, sigs)
      PROVE  GovernanceTypes'
    BY <1>4, ApproveType DEF ConfirmLogicUpgrade, GovernanceTypes, ownVars
<1>5. ASSUME CancelLogicUpgrade(self, payload, sigs)
      PROVE  GovernanceTypes'
    BY <1>5, ApproveType DEF CancelLogicUpgrade, GovernanceTypes, ownVars
<1>6. ASSUME NEW new \in Verifier, ProposeVerifierUpgrade(self, new, payload, sigs)
      PROVE  GovernanceTypes'
  <2>1. keysets["Root"].version \in Nat
    BY DEF GovernanceTypes, Body, Keyset
  <2>2. [address |-> new, at |-> now, version |-> keysets["Root"].version] \in PendingVerifier
    BY <2>1 DEF PendingVerifier, GovernanceTypes
  <2>3. QED
    BY <1>6, <2>2, ApproveType DEF ProposeVerifierUpgrade, GovernanceTypes
<1>7. NoUpgrade \in PendingVerifier
    BY DEF NoUpgrade, PendingVerifier
<1>8. ASSUME NEW new \in Verifier, ConfirmVerifierUpgrade(self, new, payload, sigs)
      PROVE  GovernanceTypes'
    BY <1>7, <1>8, ApproveType DEF ConfirmVerifierUpgrade, GovernanceTypes
<1>9. ASSUME CancelVerifierUpgrade(self, payload, sigs)
      PROVE  GovernanceTypes'
    BY <1>7, <1>9, ApproveType DEF CancelVerifierUpgrade, GovernanceTypes
<1>10. QED
    BY <1>1, <1>2, <1>3, <1>4, <1>5, <1>6, <1>8, <1>9 DEF BoardCall

LEMMA TypesHold == Spec => []GovernanceTypes
<1>1. Init => GovernanceTypes
  <2> SUFFICES ASSUME Init PROVE GovernanceTypes
    OBVIOUS
  <2>1. PICK l \in Logic, k \in Key : StorageInit(l, k)
    BY DEF Init
  <2>2. [keys |-> <<k>>, quorum |-> 1, version |-> 0] \in Keyset
    BY DEF Keyset
  <2>3. keysets \in [Body -> Keyset]
    BY <2>1, <2>2 DEF StorageInit
  <2>4. NoUpgrade \in PendingVerifier
    BY DEF NoUpgrade, PendingVerifier
  <2>5. QED
    BY <2>3, <2>4 DEF Init, GovernanceTypes
<1>2. GovernanceTypes /\ [Next]_vars => GovernanceTypes'
  <2> SUFFICES ASSUME GovernanceTypes, [Next]_vars PROVE GovernanceTypes'
    OBVIOUS
  <2>1. CASE Tick \/ UNCHANGED vars
    BY <2>1 DEF Tick, vars, storageVars, bodyVars, ownVars, GovernanceTypes
  <2>2. CASE \E self \in Logic, v \in Verifier : Initialize(self, v)
    BY <2>2 DEF Initialize, storageVars, bodyVars, GovernanceTypes
  <2>3. CASE \E self \in Logic, payload \in GovernancePayload, sigs \in SignerList :
                BoardCall(self, payload, sigs)
    BY <2>3, BoardCallTypes
  <2>4. QED
    BY <2>1, <2>2, <2>3 DEF Next
<1>3. QED
    BY <1>1, <1>2, PTL DEF Spec

-----------------------------------------------------------------------------
(* The logic contract implements the timelocked upgrade.                    *)

LogicState == <<logic, pendingLogic, keysets["Root"].version, now>>

LEMMA LogicStutter ==
    ASSUME UNCHANGED LogicState
    PROVE  UNCHANGED LogicUpgrade!vars
BY DEF LogicState, LogicUpgrade!vars

LEMMA BoardCallIsLogicStep ==
    ASSUME GovernanceTypes, NEW self \in Logic, NEW payload \in GovernancePayload, NEW sigs,
           BoardCall(self, payload, sigs)
    PROVE  [LogicUpgrade!Next]_LogicUpgrade!vars
<1>1. ASSUME NEW b \in Body, NEW list \in KeyList, NEW q \in Quorums,
             RotateGovernanceKeys(self, b, list, q, payload, sigs)
      PROVE  LogicUpgrade!NewBoard \/ UNCHANGED LogicUpgrade!vars
  <2>1. /\ keysets'[b].version = keysets[b].version + 1
        /\ \A c \in Body : c # b => keysets'[c] = keysets[c]
        /\ UNCHANGED <<logic, pendingLogic, now>>
    BY <1>1, RotationType DEF RotateGovernanceKeys, upgradeVars
  <2>2. CASE b = "Root"
    BY <2>1, <2>2 DEF LogicUpgrade!NewBoard
  <2>3. CASE b # "Root"
    BY <2>1, <2>3 DEF LogicUpgrade!vars, Body
  <2>4. QED
    BY <2>2, <2>3
<1>2. ASSUME NEW new \in Logic, ProposeLogicUpgrade(self, new, payload, sigs)
      PROVE  LogicUpgrade!Propose(new)
  <2>1. pendingLogic' = [address |-> new, at |-> now, version |-> keysets["Root"].version]
    BY <1>2 DEF ProposeLogicUpgrade, SetPendingLogicUpgrade
  <2>2. QED
    BY <1>2, <2>1 DEF ProposeLogicUpgrade, LogicUpgrade!Propose
<1>3. ASSUME NEW new \in Logic, ConfirmLogicUpgrade(self, new, payload, sigs)
      PROVE  LogicUpgrade!Confirm
  <2>1. pendingLogic' = NoUpgrade /\ logic' = new
    BY <1>3 DEF ConfirmLogicUpgrade, ClearPendingLogicUpgrade, SetLogicContract
  <2>2. QED
    BY <1>3, <2>1 DEF ConfirmLogicUpgrade, Elapsed, ProposerInOffice, NoUpgrade,
       LogicUpgrade!Confirm, LogicUpgrade!NoProposal
<1>4. ASSUME CancelLogicUpgrade(self, payload, sigs)
      PROVE  LogicUpgrade!Withdraw
    BY <1>4 DEF CancelLogicUpgrade, ClearPendingLogicUpgrade, NoUpgrade,
       LogicUpgrade!Withdraw, LogicUpgrade!NoProposal
<1>5. CASE \/ \E v \in Version : SetProtocolVersion(self, v, payload, sigs)
           \/ \E new \in Verifier : \/ ProposeVerifierUpgrade(self, new, payload, sigs)
                                    \/ ConfirmVerifierUpgrade(self, new, payload, sigs)
           \/ CancelVerifierUpgrade(self, payload, sigs)
  <2>1. UNCHANGED LogicState
    BY <1>5 DEF LogicState, SetProtocolVersion, ProposeVerifierUpgrade, ConfirmVerifierUpgrade,
       CancelVerifierUpgrade, upgradeVars
  <2>2. QED
    BY <2>1, LogicStutter
<1>6. QED
    BY <1>1, <1>2, <1>3, <1>4, <1>5 DEF BoardCall, LogicUpgrade!Next

\* The upgrade of the logic contract implements the timelocked upgrade, for every
\* timelock, every set of boards and keysets: no vote of any body, in any order,
\* changes the logic contract earlier, otherwise or under another Root keyset.
THEOREM LogicImplementsTimelock == Spec => LogicIsTimelocked
<1>1. Init => LogicUpgrade!Init
  <2> SUFFICES ASSUME Init PROVE LogicUpgrade!Init
    OBVIOUS
  <2>1. PICK l \in Logic, k \in Key : StorageInit(l, k)
    BY DEF Init
  <2>2. logic = l /\ pendingLogic = NoUpgrade /\ keysets["Root"].version = 0
    BY <2>1 DEF StorageInit, Body
  <2>3. QED
    BY <2>2 DEF Init, NoUpgrade, LogicUpgrade!Init
<1>2. GovernanceTypes /\ [Next]_vars => [LogicUpgrade!Next]_LogicUpgrade!vars
  <2> SUFFICES ASSUME GovernanceTypes, [Next]_vars
               PROVE  [LogicUpgrade!Next]_LogicUpgrade!vars
    OBVIOUS
  <2>1. CASE Tick
    BY <2>1 DEF Tick, storageVars, bodyVars, upgradeVars, LogicUpgrade!Next, LogicUpgrade!Tick
  <2>2. CASE \E self \in Logic, v \in Verifier : Initialize(self, v)
    BY <2>2 DEF Initialize, storageVars, bodyVars, upgradeVars, LogicUpgrade!vars
  <2>3. CASE \E self \in Logic, payload \in GovernancePayload, sigs \in SignerList :
                BoardCall(self, payload, sigs)
    BY <2>3, BoardCallIsLogicStep
  <2>4. CASE UNCHANGED vars
    BY <2>4 DEF vars, storageVars, bodyVars, upgradeVars, LogicUpgrade!vars
  <2>5. QED
    BY <2>1, <2>2, <2>3, <2>4 DEF Next
<1>3. QED
    BY <1>1, <1>2, TypesHold, PTL DEF Spec, LogicIsTimelocked, LogicUpgrade!Spec

-----------------------------------------------------------------------------
(* SponsorConfirms.  The strengthening: a pending proposal carries a version *)
(* no later than the Root keyset's, and while the two agree the keyset is   *)
(* still the one that proposed.                                             *)

SponsorInv ==
    pendingLogic.address # Nil =>
        /\ pendingLogic.version \in Nat
        /\ pendingLogic.version <= keysets["Root"].version
        /\ pendingLogic.version = keysets["Root"].version => keysets["Root"] = sponsor

\* A step that leaves the proposal, its sponsor and the Root keyset alone.
LEMMA SponsorFrame ==
    ASSUME SponsorInv, UNCHANGED <<pendingLogic, sponsor>>, keysets'["Root"] = keysets["Root"]
    PROVE  SponsorInv'
BY DEF SponsorInv

LEMMA BoardCallSponsor ==
    ASSUME GovernanceTypes, SponsorInv, NEW self \in Logic, NEW payload \in GovernancePayload,
           NEW sigs, BoardCall(self, payload, sigs)
    PROVE  SponsorInv' /\ (logic' # logic => keysets["Root"] = sponsor)
<1> DEFINE Goal == SponsorInv' /\ (logic' # logic => keysets["Root"] = sponsor)
<1>1. ASSUME NEW b \in Body, NEW list \in KeyList, NEW q \in Quorums,
             RotateGovernanceKeys(self, b, list, q, payload, sigs)
      PROVE  Goal
  <2>1. /\ keysets'[b].version = keysets[b].version + 1
        /\ \A c \in Body : c # b => keysets'[c] = keysets[c]
        /\ UNCHANGED <<logic, pendingLogic, sponsor>>
    BY <1>1, RotationType DEF RotateGovernanceKeys, upgradeVars
  <2>2. CASE b = "Root"
    <3>1. keysets["Root"].version \in Nat /\ keysets'["Root"].version = keysets["Root"].version + 1
      BY <2>1, <2>2 DEF GovernanceTypes, Keyset, Body
    <3>2. QED
      BY <2>1, <3>1 DEF SponsorInv
  <2>3. CASE b # "Root"
    BY <2>1, <2>3, SponsorFrame DEF Body
  <2>4. QED
    BY <2>2, <2>3
<1>2. ASSUME NEW new \in Logic, ProposeLogicUpgrade(self, new, payload, sigs)
      PROVE  Goal
  <2>1. /\ pendingLogic' = [address |-> new, at |-> now, version |-> keysets["Root"].version]
        /\ sponsor' = keysets["Root"] /\ keysets' = keysets /\ logic' = logic
    BY <1>2 DEF ProposeLogicUpgrade, SetPendingLogicUpgrade
  <2>2. keysets["Root"].version \in Nat
    BY DEF GovernanceTypes, Keyset, Body
  <2>3. QED
    BY <2>1, <2>2 DEF SponsorInv
<1>3. ASSUME NEW new \in Logic, ConfirmLogicUpgrade(self, new, payload, sigs)
      PROVE  Goal
  <2>1. /\ pendingLogic.address # Nil /\ pendingLogic.version = keysets["Root"].version
        /\ pendingLogic' = NoUpgrade
    BY <1>3 DEF ConfirmLogicUpgrade, ProposerInOffice, ClearPendingLogicUpgrade
  <2>2. QED
    BY <2>1 DEF SponsorInv, NoUpgrade
<1>4. ASSUME CancelLogicUpgrade(self, payload, sigs)
      PROVE  Goal
  <2>1. pendingLogic' = NoUpgrade /\ logic' = logic
    BY <1>4 DEF CancelLogicUpgrade, ClearPendingLogicUpgrade
  <2>2. QED
    BY <2>1 DEF SponsorInv, NoUpgrade
<1>5. CASE \/ \E v \in Version : SetProtocolVersion(self, v, payload, sigs)
           \/ \E new \in Verifier : \/ ProposeVerifierUpgrade(self, new, payload, sigs)
                                    \/ ConfirmVerifierUpgrade(self, new, payload, sigs)
           \/ CancelVerifierUpgrade(self, payload, sigs)
  <2>1. UNCHANGED <<logic, pendingLogic, sponsor, keysets>>
    BY <1>5 DEF SetProtocolVersion, ProposeVerifierUpgrade, ConfirmVerifierUpgrade,
       CancelVerifierUpgrade, upgradeVars
  <2>2. QED
    BY <2>1, SponsorFrame
<1>6. QED
    BY <1>1, <1>2, <1>3, <1>4, <1>5 DEF BoardCall

\* A logic upgrade is confirmed by the keyset that proposed it, for every way of
\* rotating: the version of a keyset never comes back, also when its keys do.
THEOREM TheSponsorConfirms == Spec => SponsorConfirms
<1>1. Init => SponsorInv
  <2> SUFFICES ASSUME Init PROVE pendingLogic.address = Nil
    BY DEF SponsorInv
  <2>1. pendingLogic = NoUpgrade
    BY DEF Init, StorageInit
  <2>2. QED
    BY <2>1 DEF NoUpgrade
<1>2. GovernanceTypes /\ SponsorInv /\ [Next]_vars =>
          SponsorInv' /\ (logic' # logic => keysets["Root"] = sponsor)
  <2> SUFFICES ASSUME GovernanceTypes, SponsorInv, [Next]_vars
               PROVE  SponsorInv' /\ (logic' # logic => keysets["Root"] = sponsor)
    OBVIOUS
  <2>1. CASE (\E self \in Logic, v \in Verifier : Initialize(self, v)) \/ Tick \/ UNCHANGED vars
    <3>1. UNCHANGED <<logic, pendingLogic, sponsor, keysets>>
      BY <2>1 DEF Initialize, Tick, vars, storageVars, bodyVars, upgradeVars
    <3>2. QED
      BY <3>1, SponsorFrame
  <2>2. CASE \E self \in Logic, payload \in GovernancePayload, sigs \in SignerList :
                BoardCall(self, payload, sigs)
    BY <2>2, BoardCallSponsor
  <2>3. QED
    BY <2>1, <2>2 DEF Next
<1>3. QED
    BY <1>1, <1>2, TypesHold, PTL DEF Spec, SponsorConfirms

-----------------------------------------------------------------------------
(* ApprovalSpentOnce.  The strengthening: storage remembers every nonce that *)
(* was accepted.                                                            *)

ApprovalInv == \A n \in Nonce : approvals[n] = 0 \/ (approvals[n] = 1 /\ n \in usedNonces)

LEMMA ApproveOnce ==
    ASSUME GovernanceTypes, ApprovalInv, NEW self, NEW b, NEW payload \in GovernancePayload,
           NEW sigs, Approve(self, b, payload, sigs)
    PROVE  ApprovalInv'
<1>1. /\ payload.nonce \notin usedNonces /\ payload.nonce \in Nonce
      /\ usedNonces' = usedNonces \cup {payload.nonce}
      /\ approvals' = [approvals EXCEPT ![payload.nonce] = @ + 1]
    BY DEF Approve, VerifyGovernanceQuorum, MarkNonceUsed, GovernancePayload
<1>2. approvals[payload.nonce] = 0
    BY <1>1 DEF ApprovalInv
<1>3. QED
    BY <1>1, <1>2 DEF ApprovalInv, GovernanceTypes

LEMMA EveryVoteIsApproved ==
    ASSUME NEW self, NEW payload, NEW sigs, BoardCall(self, payload, sigs)
    PROVE  \E b \in Body : Approve(self, b, payload, sigs)
BY DEF BoardCall, RotateGovernanceKeys, SetProtocolVersion, ProposeLogicUpgrade,
   ConfirmLogicUpgrade, CancelLogicUpgrade, ProposeVerifierUpgrade, ConfirmVerifierUpgrade,
   CancelVerifierUpgrade, Body

\* No governance payload is accepted twice, by any body, under any keyset and
\* through any succession of logic contracts: its nonce stays in storage.
THEOREM ApprovalsSpentOnce == Spec => []ApprovalSpentOnce
<1>1. Init => ApprovalInv
  <2> SUFFICES ASSUME Init, NEW n \in Nonce PROVE approvals[n] = 0
    BY DEF ApprovalInv
  <2>1. approvals = [x \in Nonce |-> 0]
    BY DEF Init
  <2>2. QED
    BY <2>1
<1>2. GovernanceTypes /\ ApprovalInv /\ [Next]_vars => ApprovalInv'
  <2> SUFFICES ASSUME GovernanceTypes, ApprovalInv, [Next]_vars PROVE ApprovalInv'
    OBVIOUS
  <2>1. CASE (\E self \in Logic, v \in Verifier : Initialize(self, v)) \/ Tick \/ UNCHANGED vars
    BY <2>1 DEF Initialize, Tick, vars, storageVars, bodyVars, ApprovalInv
  <2>2. CASE \E self \in Logic, payload \in GovernancePayload, sigs \in SignerList :
                BoardCall(self, payload, sigs)
    <3>1. PICK self \in Logic, payload \in GovernancePayload, sigs \in SignerList :
              BoardCall(self, payload, sigs)
      BY <2>2
    <3>2. PICK b \in Body : Approve(self, b, payload, sigs)
      BY <3>1, EveryVoteIsApproved
    <3>3. QED
      BY <3>2, ApproveOnce
  <2>3. QED
    BY <2>1, <2>2 DEF Next
<1>3. ApprovalInv => ApprovalSpentOnce
    BY DEF ApprovalInv, ApprovalSpentOnce
<1>4. QED
    BY <1>1, <1>2, <1>3, TypesHold, PTL DEF Spec

-----------------------------------------------------------------------------
(* ReplacedLogicInert                                                       *)

\* Approval marks the nonce in storage, which only the contract in force may do.
LEMMA ApprovedMeansInForce ==
    ASSUME NEW self, NEW b, NEW payload, NEW sigs, Approve(self, b, payload, sigs)
    PROVE  self = logic
BY DEF Approve, VerifyGovernanceQuorum, MarkNonceUsed, RequireLogicContract

OwnStateKept(l) ==
    /\ verifier'[l] = verifier[l]
    /\ pendingVerifier'[l] = pendingVerifier[l]
    /\ protocolVersion'[l] = protocolVersion[l]

LEMMA BoardCallOwnState ==
    ASSUME NEW self \in Logic, NEW payload \in GovernancePayload, NEW sigs,
           BoardCall(self, payload, sigs), NEW l \in Logic, l # logic
    PROVE  OwnStateKept(l)
<1>1. self # l
    BY EveryVoteIsApproved, ApprovedMeansInForce
<1>2. ASSUME UNCHANGED ownVars
      PROVE  OwnStateKept(l)
    BY <1>2 DEF ownVars, OwnStateKept
<1>3. ASSUME NEW v, SetProtocolVersion(self, v, payload, sigs)
      PROVE  OwnStateKept(l)
    BY <1>1, <1>3 DEF SetProtocolVersion, OwnStateKept
<1>4. ASSUME NEW v, ProposeVerifierUpgrade(self, v, payload, sigs)
      PROVE  OwnStateKept(l)
    BY <1>1, <1>4 DEF ProposeVerifierUpgrade, OwnStateKept
<1>5. ASSUME NEW v, ConfirmVerifierUpgrade(self, v, payload, sigs)
      PROVE  OwnStateKept(l)
    BY <1>1, <1>5 DEF ConfirmVerifierUpgrade, OwnStateKept
<1>6. ASSUME CancelVerifierUpgrade(self, payload, sigs)
      PROVE  OwnStateKept(l)
    BY <1>1, <1>6 DEF CancelVerifierUpgrade, OwnStateKept
<1>7. QED
    BY <1>2, <1>3, <1>4, <1>5, <1>6 DEF BoardCall, RotateGovernanceKeys, ProposeLogicUpgrade,
       ConfirmLogicUpgrade, CancelLogicUpgrade

\* A replaced logic contract is inert, whatever was pending in it, until an upgrade
\* puts it back in force.
THEOREM ReplacedIsInert == Spec => ReplacedLogicInert
<1>1. [Next]_vars => \A l \in Logic : l # logic /\ verifier[l] # Nil => OwnStateKept(l)
  <2> SUFFICES ASSUME [Next]_vars, NEW l \in Logic, l # logic, verifier[l] # Nil
               PROVE  OwnStateKept(l)
    OBVIOUS
  <2>1. CASE \E self \in Logic, v \in Verifier : Initialize(self, v)
    BY <2>1 DEF Initialize, OwnStateKept
  <2>2. CASE Tick \/ UNCHANGED vars
    BY <2>2 DEF Tick, vars, ownVars, OwnStateKept
  <2>3. CASE \E self \in Logic, payload \in GovernancePayload, sigs \in SignerList :
                BoardCall(self, payload, sigs)
    BY <2>3, BoardCallOwnState
  <2>4. QED
    BY <2>1, <2>2, <2>3 DEF Next
<1>2. [Next]_vars => \A l \in Logic : l # logic /\ verifier[l] # Nil =>
          /\ verifier'[l] = verifier[l]
          /\ pendingVerifier'[l] = pendingVerifier[l]
          /\ protocolVersion'[l] = protocolVersion[l]
    BY <1>1 DEF OwnStateKept
<1>3. QED
    BY <1>2, PTL DEF Spec, ReplacedLogicInert

-----------------------------------------------------------------------------
(* The verifier of each logic contract implements the timelocked upgrade.   *)

VerifierState(l) == <<verifier[l], pendingVerifier[l], keysets["Root"].version, now>>

LEMMA VerifierStutter ==
    ASSUME NEW l, UNCHANGED VerifierState(l)
    PROVE  UNCHANGED VerifierUpgrade(l)!vars
BY DEF VerifierState, VerifierUpgrade!vars

LEMMA BoardCallIsVerifierStep ==
    ASSUME GovernanceTypes, NEW self \in Logic, NEW payload \in GovernancePayload, NEW sigs,
           BoardCall(self, payload, sigs), NEW l \in Logic
    PROVE  VerifierUpgrade(l)!Next \/ UNCHANGED VerifierUpgrade(l)!vars
<1>1. ASSUME NEW b \in Body, NEW list \in KeyList, NEW q \in Quorums,
             RotateGovernanceKeys(self, b, list, q, payload, sigs)
      PROVE  VerifierUpgrade(l)!NewBoard \/ UNCHANGED VerifierUpgrade(l)!vars
  <2>1. /\ keysets'[b].version = keysets[b].version + 1
        /\ \A c \in Body : c # b => keysets'[c] = keysets[c]
        /\ UNCHANGED <<verifier, pendingVerifier, now>>
    BY <1>1, RotationType DEF RotateGovernanceKeys, ownVars
  <2>2. CASE b = "Root"
    BY <2>1, <2>2 DEF VerifierUpgrade!NewBoard
  <2>3. CASE b # "Root"
    BY <2>1, <2>3 DEF VerifierUpgrade!vars, Body
  <2>4. QED
    BY <2>2, <2>3
<1>2. CASE UNCHANGED VerifierState(l)
    BY <1>2, VerifierStutter
<1>3. ASSUME NEW new \in Verifier, ProposeVerifierUpgrade(self, new, payload, sigs)
      PROVE  VerifierUpgrade(l)!Propose(new) \/ UNCHANGED VerifierState(l)
  <2> DEFINE e == [address |-> new, at |-> now, version |-> keysets["Root"].version]
  <2>1. pendingVerifier' = [pendingVerifier EXCEPT ![self] = e]
    BY <1>3 DEF ProposeVerifierUpgrade
  <2>2. CASE self = l
    <3>1. pendingVerifier'[l] = e
      BY <2>1, <2>2 DEF GovernanceTypes
    <3>2. QED
      BY <1>3, <2>2, <3>1 DEF ProposeVerifierUpgrade, VerifierUpgrade!Propose
  <2>3. CASE self # l
    BY <1>3, <2>1, <2>3 DEF ProposeVerifierUpgrade, VerifierState, GovernanceTypes
  <2>4. QED
    BY <2>2, <2>3
<1>4. ASSUME NEW new \in Verifier, ConfirmVerifierUpgrade(self, new, payload, sigs)
      PROVE  VerifierUpgrade(l)!Confirm \/ UNCHANGED VerifierState(l)
  <2>1. CASE self = l
    <3>1. pendingVerifier'[l] = NoUpgrade /\ verifier'[l] = new
      BY <1>4, <2>1 DEF ConfirmVerifierUpgrade, GovernanceTypes
    <3>2. QED
      BY <1>4, <2>1, <3>1 DEF ConfirmVerifierUpgrade, Elapsed, ProposerInOffice, NoUpgrade,
         VerifierUpgrade!Confirm, VerifierUpgrade!NoProposal
  <2>2. CASE self # l
    BY <1>4, <2>2 DEF ConfirmVerifierUpgrade, VerifierState, GovernanceTypes
  <2>3. QED
    BY <2>1, <2>2
<1>5. ASSUME CancelVerifierUpgrade(self, payload, sigs)
      PROVE  VerifierUpgrade(l)!Withdraw \/ UNCHANGED VerifierState(l)
  <2>1. CASE self = l
    <3>1. pendingVerifier'[l] = NoUpgrade
      BY <1>5, <2>1 DEF CancelVerifierUpgrade, GovernanceTypes
    <3>2. QED
      BY <1>5, <2>1, <3>1 DEF CancelVerifierUpgrade, NoUpgrade,
         VerifierUpgrade!Withdraw, VerifierUpgrade!NoProposal
  <2>2. CASE self # l
    BY <1>5, <2>2 DEF CancelVerifierUpgrade, VerifierState, GovernanceTypes
  <2>3. QED
    BY <2>1, <2>2
<1>6. CASE \/ \E v \in Version : SetProtocolVersion(self, v, payload, sigs)
           \/ \E new \in Logic : \/ ProposeLogicUpgrade(self, new, payload, sigs)
                                 \/ ConfirmLogicUpgrade(self, new, payload, sigs)
           \/ CancelLogicUpgrade(self, payload, sigs)
  <2>1. UNCHANGED VerifierState(l)
    BY <1>6 DEF VerifierState, SetProtocolVersion, ProposeLogicUpgrade, ConfirmLogicUpgrade,
       CancelLogicUpgrade, ownVars
  <2>2. QED
    BY <1>2, <2>1
<1>7. QED
    BY <1>1, <1>2, <1>3, <1>4, <1>5, <1>6 DEF BoardCall, VerifierUpgrade!Next

\* Every logic contract's verifier implements the same timelocked upgrade with its
\* own timelock; its initialization, which takes no vote, happens once.
THEOREM VerifierImplementsTimelock == Spec => VerifierIsTimelocked
<1>1. Init => \A l \in Logic : VerifierUpgrade(l)!Init
  <2> SUFFICES ASSUME Init, NEW l \in Logic PROVE VerifierUpgrade(l)!Init
    OBVIOUS
  <2>1. keysets["Root"].version = 0
    BY DEF Init, StorageInit, Body
  <2>2. verifier[l] = Nil /\ pendingVerifier[l] = NoUpgrade /\ now = 1
    BY DEF Init
  <2>3. QED
    BY <2>1, <2>2 DEF NoUpgrade, VerifierUpgrade!Init
<1>2. GovernanceTypes /\ [Next]_vars =>
        \A l \in Logic : VerifierUpgrade(l)!Next \/ UNCHANGED VerifierUpgrade(l)!vars
  <2> SUFFICES ASSUME GovernanceTypes, [Next]_vars, NEW l \in Logic
               PROVE  VerifierUpgrade(l)!Next \/ UNCHANGED VerifierUpgrade(l)!vars
    OBVIOUS
  <2>1. CASE Tick
    BY <2>1 DEF Tick, storageVars, bodyVars, ownVars, VerifierUpgrade!Next, VerifierUpgrade!Tick
  <2>2. CASE \E self \in Logic, v \in Verifier : Initialize(self, v)
    <3>1. PICK self \in Logic, v \in Verifier : Initialize(self, v)
      BY <2>2
    <3>2. CASE self = l
      BY <3>1, <3>2 DEF Initialize, storageVars, bodyVars, GovernanceTypes,
         VerifierUpgrade!Next, VerifierUpgrade!Install
    <3>3. CASE self # l
      BY <3>1, <3>3 DEF Initialize, storageVars, bodyVars, GovernanceTypes, VerifierUpgrade!vars
    <3>4. QED
      BY <3>2, <3>3
  <2>3. CASE \E self \in Logic, payload \in GovernancePayload, sigs \in SignerList :
                BoardCall(self, payload, sigs)
    BY <2>3, BoardCallIsVerifierStep
  <2>4. CASE UNCHANGED vars
    BY <2>4 DEF vars, storageVars, bodyVars, ownVars, VerifierUpgrade!vars
  <2>5. QED
    BY <2>1, <2>2, <2>3, <2>4 DEF Next
<1>3. QED
    BY <1>1, <1>2, TypesHold, PTL DEF Spec, VerifierIsTimelocked

-----------------------------------------------------------------------------
(* Types                                                                    *)

ApplySteps == {"none", "failed", "resolve", "issue", "register", "wait", "registered"}
HandoffSteps == {"none", "failed", "walk", "clear", "clearing", "deregistering", "revoke",
                 "answered"}
Handoff == [step : HandoffSteps, old : SUBSET AdminCard, paths : SUBSET DomainPath]
AuthorityTypes ==
    /\ forward \in [AdminCard -> AdminCard \cup {Absent}]
    /\ status \in [AdminCard -> {"none", "live", "revoked"}]
    /\ apply \in [AdminCard -> ApplySteps]
    /\ handoff \in [AdminCard -> Handoff]

LEMMA AuthorityTypesInit == AuthorityInit => AuthorityTypes
BY AuthorityAssumption
DEF AuthorityInit, AuthorityTypes, NoHandoff, Handoff, ApplySteps,
    HandoffSteps

LEMMA HandedType ==
    ASSUME AuthorityTypes, NEW c \in AdminCard, NEW step \in HandoffSteps,
           handoff' = [handoff EXCEPT ![c].step = step]
    PROVE  /\ handoff' \in [AdminCard -> Handoff]
           /\ \A d \in AdminCard : d # c => handoff'[d] = handoff[d]
           /\ handoff'[c].step = step /\ handoff'[c].old = handoff[c].old
<1>1. handoff \in [AdminCard -> Handoff]
    BY DEF AuthorityTypes, Handoff
<1>2. [handoff[c] EXCEPT !.step = step] \in Handoff
    BY <1>1 DEF Handoff
<1>3. handoff[c] \in Handoff
    BY <1>1
<1>4. [handoff[c] EXCEPT !.step = step].step = step
      /\ [handoff[c] EXCEPT !.step = step].old = handoff[c].old
    BY <1>3 DEF Handoff
<1>5. QED BY <1>1, <1>2, <1>4

AfterRevoke(c, o, answered) ==
    IF ~answered THEN "failed" ELSE IF handoff[c].old = {o} THEN "answered" ELSE "revoke"

LEMMA RevokeHandoff ==
    ASSUME AuthorityTypes, NEW c \in AdminCard, NEW o, NEW answered \in BOOLEAN,
           RevokeOld(c, o, answered)
    PROVE  /\ handoff' \in [AdminCard -> Handoff]
           /\ \A d \in AdminCard : d # c => handoff'[d] = handoff[d]
           /\ handoff'[c].step = AfterRevoke(c, o, answered)
           /\ handoff'[c].old = handoff[c].old \ {o}
<1> DEFINE then == AfterRevoke(c, o, answered)
           struck == [handoff EXCEPT ![c].old = @ \ {o}]
<1>1. handoff' = [struck EXCEPT ![c].step = then]
    BY DEF RevokeOld, AfterRevoke
<1>2. handoff \in [AdminCard -> Handoff] /\ handoff[c] \in Handoff
    BY DEF AuthorityTypes, Handoff
<1>3. then \in HandoffSteps
    BY DEF AfterRevoke, HandoffSteps
<1>4. /\ struck \in [AdminCard -> Handoff] /\ struck[c] \in Handoff
      /\ struck[c].old = handoff[c].old \ {o}
      /\ \A d \in AdminCard : d # c => struck[d] = handoff[d]
    BY <1>2 DEF Handoff
<1> HIDE DEF then, struck
<1>5. [struck[c] EXCEPT !.step = then] \in Handoff
      /\ [struck[c] EXCEPT !.step = then].step = then
      /\ [struck[c] EXCEPT !.step = then].old = struck[c].old
    BY <1>3, <1>4 DEF Handoff
<1>6. QED BY <1>1, <1>4, <1>5 DEF then

LEMMA AuthorityTypesNext == AuthorityTypes /\ [AuthorityNext]_authorityVars => AuthorityTypes'
<1> SUFFICES ASSUME AuthorityTypes, [AuthorityNext]_authorityVars PROVE AuthorityTypes'
    OBVIOUS
<1> USE DEF AuthorityTypes, Applied, Handed, ApplySteps, HandoffSteps, registryVars
<1>1. ASSUME NEW c \in AdminCard, VerifyTxt(c) PROVE AuthorityTypes'
    <2>1. CASE \E yes \in BOOLEAN : IssueAdminCard(c, yes)
        BY <2>1 DEF IssueAdminCard
    <2>2. CASE ~\E yes \in BOOLEAN : IssueAdminCard(c, yes)
        BY <1>1, <2>2
        DEF VerifyTxt, RequestVerification, SendRegistration, AnswerRegistered,
            FailVerification, ResolveTxt, Send
    <2>3. QED BY <2>1, <2>2
<1>2. ASSUME NEW c \in AdminCard, Deactivate(c) PROVE AuthorityTypes'
    <2>1. ASSUME NEW old \in SUBSET AdminCard, NEW paths \in SUBSET DomainPath,
                 RequestDeactivation(c, old, paths)
          PROVE AuthorityTypes'
        BY <2>1 DEF RequestDeactivation, Handoff
    <2>2. CASE MeetAdmin(c) \/ FollowLink(c) \/ LoseTrail(c) \/ SendClearing(c)
               \/ SendDeregistration(c) \/ FailDeactivation(c)
        <3>1. /\ \E step \in HandoffSteps : handoff' = [handoff EXCEPT ![c].step = step]
              /\ UNCHANGED <<forward, status, apply>>
            BY <2>2
            DEF MeetAdmin, FollowLink, LoseTrail, SendClearing, SendDeregistration, FailDeactivation
        <3>2. QED BY <3>1, HandedType DEF Handoff
    <2>3. ASSUME NEW o \in AdminCard, NEW answered \in BOOLEAN, RevokeOld(c, o, answered)
          PROVE AuthorityTypes'
        <3>1. status' = [status EXCEPT ![o] = "revoked"] /\ UNCHANGED <<forward, apply>>
            BY <2>3 DEF RevokeOld
        <3>2. QED BY <2>3, <3>1, RevokeHandoff DEF Handoff
    <2>4. QED BY <1>2, <2>1, <2>2, <2>3 DEF Deactivate
<1>3. CASE VerifyEntries
    BY <1>3
    DEF VerifyEntries, StartPoll, RemoveBranded, EndRemoval, SaveCursor, AbortOnSubCard,
        VerifyEvent, Polled
<1>4. CASE Environment
    <2>1. UNCHANGED <<status, apply, handoff>>
        BY <1>4 DEF Environment, Mine, Effect, ToggleRecord, SetForward, SetPolicyAddress,
            RotateBody, FailPoll, Outside, scriptVars
    <2>2. UNCHANGED forward \/ \E c, d \in AdminCard : forward' = [forward EXCEPT ![c] = d]
        BY <1>4 DEF Environment, Mine, Effect, ToggleRecord, SetForward, SetPolicyAddress,
            RotateBody, FailPoll, Outside
    <2>3. QED BY <2>1, <2>2
<1>5. CASE UNCHANGED authorityVars
    BY <1>5 DEF authorityVars, scriptVars
<1>6. QED BY <1>1, <1>2, <1>3, <1>4, <1>5 DEF AuthorityNext

-----------------------------------------------------------------------------
(* AdminsProven                                                              *)

\* Whoever is or may become the admin has had its record found.
ProvenOnly ==
    /\ \A c \in AdminCard : apply[c] \in {"issue", "register", "wait"} => c \in seenRecord
    /\ \A tx \in pending : tx.op = "register" => tx.card \in seenRecord
    /\ admin # Absent => admin \in seenRecord

LEMMA SeenGrows == AuthorityNext => seenRecord \subseteq seenRecord'
BY ZenonT(60) DEF AuthorityNext, VerifyTxt, RequestVerification, SendRegistration, AnswerRegistered,
    FailVerification, ResolveTxt, IssueAdminCard, Deactivate, RequestDeactivation,
    MeetAdmin, FollowLink, LoseTrail, SendClearing, SendDeregistration, FailDeactivation, RevokeOld, Handed,
    VerifyEntries, StartPoll, RemoveBranded, EndRemoval, SaveCursor, AbortOnSubCard,
    VerifyEvent, Polled, Environment, Mine, ToggleRecord, SetForward, SetPolicyAddress, RotateBody,
    FailPoll, Outside

\* The admin changes where a transaction is mined.
LEMMA AdminChanges ==
    ASSUME AuthorityNext, admin' # admin, admin' # Absent
    PROVE  \E tx \in pending : tx.op = "register" /\ admin = Absent /\ admin' = tx.card
BY ZenonT(60) DEF AuthorityNext, VerifyTxt, RequestVerification, SendRegistration, AnswerRegistered,
    FailVerification, ResolveTxt, IssueAdminCard, Deactivate, RequestDeactivation,
    MeetAdmin, FollowLink, LoseTrail, SendClearing, SendDeregistration, FailDeactivation, RevokeOld, Handed,
    VerifyEntries, StartPoll, RemoveBranded, EndRemoval, SaveCursor, AbortOnSubCard,
    VerifyEvent, Polled, Environment, Mine, Effect, Accepts, ToggleRecord, SetForward,
    SetPolicyAddress, RotateBody, FailPoll, Outside, registryVars

\* What is sent for a registration is sent for a card whose record was found.
LEMMA PendingGrows ==
    ASSUME AuthorityNext, NEW tx \in pending' \ pending, tx.op = "register"
    PROVE  \E c \in AdminCard : apply[c] = "register" /\ tx.card = c
<1>1. \A c, p : /\ Registration(c).op = "register" /\ Registration(c).card = c
                /\ Clearing(c, p).op # "register" /\ Deregistration(c).op # "register"
                /\ Removal(p).op # "register"
    BY DEF Registration, Clearing, Deregistration, Removal
<1>2. ASSUME NEW c \in AdminCard, VerifyTxt(c) PROVE apply[c] = "register" /\ tx = Registration(c)
    BY <1>2 DEF VerifyTxt, RequestVerification, SendRegistration, AnswerRegistered,
        FailVerification, ResolveTxt, IssueAdminCard, Send
<1>3. ASSUME NEW c \in AdminCard, Deactivate(c)
      PROVE  (\E p : tx = Clearing(c, p)) \/ tx = Deregistration(c)
    BY <1>3 DEF Deactivate, RequestDeactivation, MeetAdmin, FollowLink, LoseTrail, SendClearing,
        SendDeregistration, FailDeactivation, RevokeOld, Send
<1>4. ASSUME VerifyEntries PROVE \E p : tx = Removal(p)
    BY <1>4
    DEF VerifyEntries, StartPoll, RemoveBranded, EndRemoval, SaveCursor, AbortOnSubCard,
        VerifyEvent, Send
<1>5. ~Environment
    BY DEF Environment, Mine, ToggleRecord, SetForward, SetPolicyAddress, RotateBody,
       FailPoll,
        Outside
<1>6. QED BY <1>1, <1>2, <1>3, <1>4, <1>5 DEF AuthorityNext

\* A request passes the check of the record on its way.
LEMMA ApplyMoves ==
    ASSUME AuthorityTypes, AuthorityNext, NEW c \in AdminCard,
           apply'[c] \in {"issue", "register", "wait"}
    PROVE  apply[c] \in {"issue", "register", "wait"} \/ c \in seenRecord'
<1>1. apply' = apply \/ \E d \in AdminCard : VerifyTxt(d)
    BY ZenonT(60) DEF AuthorityNext, Deactivate, RequestDeactivation,
        MeetAdmin, FollowLink, LoseTrail, SendClearing, SendDeregistration, FailDeactivation, RevokeOld, Handed,
        VerifyEntries, StartPoll, RemoveBranded, EndRemoval, SaveCursor, AbortOnSubCard,
        VerifyEvent, Polled, Environment, Mine, ToggleRecord, SetForward,
        SetPolicyAddress, RotateBody, FailPoll, Outside, scriptVars
<1>2. ASSUME NEW d \in AdminCard, VerifyTxt(d), d # c PROVE apply'[c] = apply[c]
    BY <1>2 DEF VerifyTxt, RequestVerification, SendRegistration, AnswerRegistered,
        FailVerification, ResolveTxt, IssueAdminCard, Applied, AuthorityTypes
<1>3. ASSUME VerifyTxt(c) PROVE apply[c] \in {"issue", "register", "wait"} \/ c \in seenRecord'
    BY <1>3 DEF VerifyTxt, RequestVerification, SendRegistration, AnswerRegistered,
        FailVerification, ResolveTxt, IssueAdminCard, Applied, AuthorityTypes, TxtMatches
<1>4. QED BY <1>1, <1>2, <1>3

LEMMA ProvenOnlyNext ==
    ASSUME AuthorityTypes, ProvenOnly, [AuthorityNext]_authorityVars PROVE ProvenOnly'
<1>1. CASE UNCHANGED authorityVars
    BY <1>1 DEF authorityVars, scriptVars, registryVars, ProvenOnly
<1>2. CASE AuthorityNext
    <2>1. seenRecord \subseteq seenRecord'
        BY <1>2, SeenGrows
    <2>2. ASSUME NEW c \in AdminCard, apply'[c] \in {"issue", "register", "wait"}
          PROVE c \in seenRecord'
        BY <1>2, <2>1, <2>2, ApplyMoves DEF ProvenOnly
    <2>3. ASSUME NEW tx \in pending', tx.op = "register" PROVE tx.card \in seenRecord'
        <3>1. CASE tx \in pending
            BY <3>1, <2>1, <2>3 DEF ProvenOnly
        <3>2. CASE tx \notin pending
            BY <3>2, <1>2, <2>1, <2>3, PendingGrows DEF ProvenOnly
        <3>3. QED BY <3>1, <3>2
    <2>4. ASSUME admin' # Absent PROVE admin' \in seenRecord'
        BY <1>2, <2>1, <2>4, AdminChanges DEF ProvenOnly
    <2>5. QED BY <2>2, <2>3, <2>4 DEF ProvenOnly
<1>3. QED BY <1>1, <1>2

LEMMA ProvenOnlyInvariant == AuthoritySpec => [](AuthorityTypes /\ ProvenOnly)
<1>1. AuthorityInit => ProvenOnly
    BY DEF AuthorityInit, ProvenOnly
<1>2. QED
    BY <1>1, AuthorityTypesInit, AuthorityTypesNext, ProvenOnlyNext, PTL DEF AuthoritySpec

\* A card becomes the admin of the domain only where there is none, and only after
\* its TXT record was found there (txt-verification.ts resolves, issues and registers
\* in that order, and submitGovTx refuses a second admin).
THEOREM DomainAdminsProven == AuthoritySpec => AdminsProven
<1>1. ASSUME ProvenOnly, [AuthorityNext]_authorityVars
      PROVE  [admin' # admin /\ admin' # Absent =>
                 admin = Absent /\ admin' \in seenRecord]_authorityVars
    BY <1>1, AdminChanges DEF ProvenOnly
<1>2. QED BY <1>1, ProvenOnlyInvariant, PTL DEF AuthoritySpec, AdminsProven

-----------------------------------------------------------------------------
(* SupersededRevoked: chains of cards                                         *)

\* A path of n links of S
PathIn(S, o, e, n) ==
    \E met \in [0..n -> AdminCard] :
        /\ met[0] = o /\ met[n] = e
        /\ \A i \in 0..(n - 1) : <<met[i], met[i + 1]>> \in S

LEMMA PathsLead ==
    ASSUME NEW o, NEW d \in AdminCard, NEW n \in 1..MaxHops, PathIn(named[d], o, d, n)
    PROVE  LedTo(o, d)
BY DEF PathIn, LedTo

LEMMA NoLinkPath == ASSUME NEW S, NEW o \in AdminCard PROVE PathIn(S, o, o, 0)
<1> DEFINE met == [i \in 0..0 |-> o]
<1>1. met \in [0..0 -> AdminCard] /\ met[0] = o
    OBVIOUS
<1>2. \A i \in 0..(0 - 1) : FALSE
    OBVIOUS
<1> HIDE DEF met
<1>3. QED BY <1>1, <1>2 DEF PathIn

LEMMA PathLonger ==
    ASSUME NEW S, NEW n \in Nat, NEW o, NEW e, NEW f \in AdminCard,
           PathIn(S, o, e, n), <<e, f>> \in S
    PROVE  PathIn(S, o, f, n + 1)
<1>1. PICK met \in [0..n -> AdminCard] :
        /\ met[0] = o /\ met[n] = e
        /\ \A i \in 0..(n - 1) : <<met[i], met[i + 1]>> \in S
    BY DEF PathIn
<1> DEFINE more == [i \in 0..(n + 1) |-> IF i = n + 1 THEN f ELSE met[i]]
<1>2. more \in [0..(n + 1) -> AdminCard]
    BY <1>1
<1>3. /\ more[0] = met[0] /\ more[n + 1] = f
      /\ \A i \in 0..n : more[i] = met[i]
    OBVIOUS
<1> HIDE DEF more
<1>4. ASSUME NEW i \in 0..((n + 1) - 1) PROVE <<more[i], more[i + 1]>> \in S
    <2>1. CASE i = n
        <3>1. i \in 0..n /\ i + 1 = n + 1
            BY <2>1
        <3>2. QED BY <1>1, <1>3, <2>1, <3>1
    <2>2. CASE i # n
        <3>1. i \in 0..n /\ i + 1 \in 0..n /\ i \in 0..(n - 1)
            BY <2>2
        <3>2. QED BY <1>1, <1>3, <3>1
    <2>3. QED BY <2>1, <2>2
<1>5. QED BY <1>1, <1>2, <1>3, <1>4 DEF PathIn

LEMMA MorePaths ==
    ASSUME NEW S, NEW T, S \subseteq T, NEW o, NEW e, NEW n, PathIn(S, o, e, n)
    PROVE  PathIn(T, o, e, n)
BY DEF PathIn

\* A request walks on from what it was asked about, over links it found or that were set
\* since; what it is done with led to the card that asks.
WalkState == [from : AdminCard \cup {Absent}, cursor : AdminCard \cup {Absent}, hops : Nat,
              left : SUBSET AdminCard]
WalkTypes ==
    /\ walk \in [AdminCard -> WalkState]
    /\ named \in [AdminCard -> SUBSET (AdminCard \X AdminCard)]
UnderWay(c) ==
    /\ Links \subseteq named[c]
    /\ walk[c].from \in AdminCard /\ walk[c].cursor \in AdminCard
    /\ walk[c].hops < MaxHops
    /\ PathIn(named[c], walk[c].from, walk[c].cursor, walk[c].hops)
    /\ \A o \in handoff[c].old \ (walk[c].left \cup {walk[c].from}) : LedTo(o, c)
HandoffLed(c) ==
    /\ handoff[c].step # "none" => c \in seenRecord
    /\ handoff[c].step = "walk" => UnderWay(c)
    /\ handoff[c].step \in {"clear", "clearing", "deregistering", "revoke"} =>
          \A o \in handoff[c].old : LedTo(o, c)
AuthorityLed == WalkTypes /\ \A c \in AdminCard : HandoffLed(c)

\* A handoff and its walk move where its own request is handled, and what it has seen
\* named moves there or where a link is set.
LEMMA WalkMoves ==
    ASSUME AuthorityNext
    PROVE  \/ UNCHANGED <<handoff, walk, named, forward>>
           \/ \E c, d \in AdminCard : SetForward(c, d)
           \/ \E c \in AdminCard : Deactivate(c)
BY ZenonT(60) DEF AuthorityNext, VerifyTxt, RequestVerification, SendRegistration,
    AnswerRegistered, FailVerification, ResolveTxt, IssueAdminCard, Applied,
    VerifyEntries, StartPoll, RemoveBranded, EndRemoval, SaveCursor, AbortOnSubCard,
    VerifyEvent, Polled, Environment, Mine, Effect, ToggleRecord,
    SetPolicyAddress, RotateBody, FailPoll, Outside, scriptVars, registryVars

\* Nothing that a handoff rests on has changed.
LEMMA HandoffKept ==
    ASSUME NEW c \in AdminCard, HandoffLed(c), seenRecord \subseteq seenRecord',
           handoff'[c] = handoff[c], walk'[c] = walk[c], named'[c] = named[c],
           UNCHANGED forward
    PROVE  HandoffLed(c)'
<1>1. \A o : LedTo(o, c) => LedTo(o, c)'
    BY DEF LedTo
<1>2. UnderWay(c) => UnderWay(c)'
    BY <1>1 DEF UnderWay, Links, PathIn
<1>3. QED BY <1>1, <1>2 DEF HandoffLed

LEMMA LinkSet ==
    ASSUME AuthorityTypes, AuthorityLed, NEW a \in AdminCard, NEW b \in AdminCard,
           SetForward(a, b), seenRecord \subseteq seenRecord'
    PROVE  AuthorityLed'
<1>1. /\ forward' = [forward EXCEPT ![a] = b] /\ UNCHANGED <<handoff, walk>>
      /\ named' = [c \in AdminCard |-> IF handoff[c].step = "walk" THEN named[c] \cup {<<a, b>>}
                                       ELSE named[c]]
    BY DEF SetForward, Outside
<1>2. WalkTypes'
    BY <1>1 DEF WalkTypes, AuthorityLed
<1>3. ASSUME NEW c \in AdminCard PROVE HandoffLed(c)'
    <2>1. named[c] \subseteq named'[c]
        BY <1>1
    <2>2. \A o : LedTo(o, c) => LedTo(o, c)'
        BY <2>1 DEF LedTo
    <2>3. ASSUME handoff[c].step = "walk" PROVE UnderWay(c)'
        <3>1. UnderWay(c)
            BY <2>3 DEF AuthorityLed, HandoffLed
        <3>2. named'[c] = named[c] \cup {<<a, b>>}
            BY <1>1, <2>3
        <3>3. Links' \subseteq named'[c]
            BY <1>1, <3>1, <3>2 DEF UnderWay, Links, AuthorityTypes
        <3>4. PathIn(named'[c], walk[c].from, walk[c].cursor, walk[c].hops)
            BY <2>1, <3>1, MorePaths DEF UnderWay
        <3>5. PathIn(named[c], walk[c].from, walk[c].cursor, walk[c].hops)'
            BY <1>1, <3>4 DEF PathIn
        <3>6. QED BY <1>1, <2>2, <3>1, <3>3, <3>5 DEF UnderWay
    <2>4. QED BY <1>1, <2>2, <2>3 DEF AuthorityLed, HandoffLed
<1>4. QED BY <1>2, <1>3 DEF AuthorityLed

\* The walk of the next old card starts where that card is.
LEMMA WalkStartsAt ==
    ASSUME NEW c \in AdminCard, NEW left \in SUBSET AdminCard, WalkNext(c, left), WalkTypes
    PROVE  /\ walk' \in [AdminCard -> WalkState]
           /\ \A d \in AdminCard : d # c => walk'[d] = walk[d]
           /\ \E o \in left : /\ walk'[c].from = o /\ walk'[c].cursor = o
                              /\ walk'[c].hops = 0 /\ walk'[c].left = left \ {o}
<1>1. PICK o \in left :
        walk' = [walk EXCEPT ![c] = [from |-> o, cursor |-> o, hops |-> 0, left |-> left \ {o}]]
    BY DEF WalkNext
<1>2. [from |-> o, cursor |-> o, hops |-> 0, left |-> left \ {o}] \in WalkState
    BY DEF WalkState
<1>3. QED BY <1>1, <1>2 DEF WalkTypes

LEMMA WalkEndsAt ==
    ASSUME NEW c \in AdminCard, EndWalk(c), WalkTypes
    PROVE  /\ walk' \in [AdminCard -> WalkState]
           /\ \A d \in AdminCard : d # c => walk'[d] = walk[d]
<1>1. NoWalk \in WalkState
    BY DEF NoWalk, WalkState
<1>2. QED BY <1>1 DEF EndWalk, WalkTypes

\* What a request does to itself leaves the other requests alone.
OthersKept(c) ==
    \A d \in AdminCard : d # c =>
        handoff'[d] = handoff[d] /\ walk'[d] = walk[d] /\ named'[d] = named[d]

LEMMA Requested ==
    ASSUME AuthorityTypes, ProvenOnly, AuthorityLed, NEW c \in AdminCard,
           NEW old \in SUBSET AdminCard, NEW paths \in SUBSET DomainPath,
           RequestDeactivation(c, old, paths)
    PROVE  WalkTypes' /\ HandoffLed(c)' /\ OthersKept(c)
<1> DEFINE asked == [step |-> "walk", old |-> old, paths |-> paths]
<1>1. /\ admin = c /\ handoff' = [handoff EXCEPT ![c] = asked]
      /\ WalkNext(c, old) /\ named' = [named EXCEPT ![c] = Links]
      /\ UNCHANGED <<forward, seenRecord>>
    BY DEF RequestDeactivation, registryVars
<1>2. WalkTypes /\ Links \subseteq AdminCard \X AdminCard
    BY DEF AuthorityLed, Links
<1>3. WalkTypes' /\ OthersKept(c) /\ handoff'[c] = asked /\ named'[c] = Links
    BY <1>1, <1>2, WalkStartsAt DEF WalkTypes, OthersKept, AuthorityTypes
<1>4. PICK o \in old : /\ walk'[c].from = o /\ walk'[c].cursor = o
                       /\ walk'[c].hops = 0 /\ walk'[c].left = old \ {o}
    BY <1>1, <1>2, WalkStartsAt
<1>5. PathIn(named[c], walk[c].from, walk[c].cursor, walk[c].hops)'
    <2>1. PathIn(named'[c], o, o, 0)
        BY NoLinkPath
    <2>2. QED BY <2>1, <1>4 DEF PathIn
<1>6. UnderWay(c)'
    <2>1. 0 < MaxHops /\ Links' = Links
        BY <1>1, AuthorityAssumption DEF Links
    <2>2. handoff'[c].old \ (walk'[c].left \cup {walk'[c].from}) = {}
        BY <1>3, <1>4
    <2>3. QED BY <1>3, <1>4, <1>5, <2>1, <2>2 DEF UnderWay
<1>7. c \in seenRecord'
    BY <1>1, AuthorityAssumption DEF ProvenOnly
<1>8. QED BY <1>3, <1>6, <1>7 DEF HandoffLed

\* What is behind the cursor of a walk when a link is found there
LEMMA LinkFound ==
    ASSUME AuthorityTypes, AuthorityLed, NEW c \in AdminCard, handoff[c].step = "walk",
           LinkOf(walk[c].cursor) \in AdminCard
    PROVE  PathIn(named[c], walk[c].from, LinkOf(walk[c].cursor), walk[c].hops + 1)
<1>1. UnderWay(c) /\ walk[c].hops \in Nat
    BY DEF AuthorityLed, HandoffLed, WalkTypes, WalkState
<1>2. LinkOf(walk[c].cursor) = forward[walk[c].cursor]
    BY AuthorityAssumption DEF LinkOf
<1>3. <<walk[c].cursor, LinkOf(walk[c].cursor)>> \in named[c]
    BY <1>1, <1>2 DEF UnderWay, Links
<1>4. QED BY <1>1, <1>3, PathLonger DEF UnderWay

LEMMA AdminMet ==
    ASSUME AuthorityTypes, AuthorityLed, NEW c \in AdminCard, MeetAdmin(c)
    PROVE  WalkTypes' /\ HandoffLed(c)' /\ OthersKept(c)
<1>1. /\ handoff[c].step = "walk" /\ LinkOf(walk[c].cursor) = c
      /\ UNCHANGED <<forward, named, seenRecord>>
      /\ \/ WalkNext(c, walk[c].left) /\ Handed(c, "walk")
         \/ walk[c].left = {} /\ EndWalk(c) /\ Handed(c, "clear")
    BY DEF MeetAdmin, IsPredecessor, Handed, registryVars
<1>2. WalkTypes /\ UnderWay(c) /\ walk[c] \in WalkState /\ c \in seenRecord
    BY <1>1 DEF AuthorityLed, HandoffLed, WalkTypes
<1>3. LedTo(walk[c].from, c)
    <2>1. walk[c].hops + 1 \in 1..MaxHops
        BY <1>2, AuthorityAssumption DEF UnderWay, WalkState
    <2>2. PathIn(named[c], walk[c].from, c, walk[c].hops + 1)
        BY <1>1, LinkFound
    <2>3. QED BY <2>1, <2>2, PathsLead
<1>4. \A o \in handoff[c].old \ walk[c].left : LedTo(o, c)
    BY <1>2, <1>3 DEF UnderWay
<1>5. \A o : LedTo(o, c) => LedTo(o, c)'
    BY <1>1 DEF LedTo
<1>6. CASE WalkNext(c, walk[c].left) /\ Handed(c, "walk")
    <2>1. /\ handoff'[c].step = "walk" /\ handoff'[c].old = handoff[c].old
          /\ \A d \in AdminCard : d # c => handoff'[d] = handoff[d]
        <3>1. "walk" \in HandoffSteps
            BY DEF HandoffSteps
        <3>2. QED BY <1>6, <3>1, HandedType DEF Handed
    <2>2. /\ WalkTypes'
          /\ \A d \in AdminCard : d # c => walk'[d] = walk[d]
        BY <1>1, <1>2, <1>6, WalkStartsAt DEF WalkState, WalkTypes
    <2>3. PICK o \in walk[c].left :
                /\ walk'[c].from = o /\ walk'[c].cursor = o
                /\ walk'[c].hops = 0 /\ walk'[c].left = walk[c].left \ {o}
        BY <1>2, <1>6, WalkStartsAt DEF WalkState
    <2>4. o \in AdminCard
        BY <1>2, <2>3 DEF WalkState
    <2>5. PathIn(named[c], walk[c].from, walk[c].cursor, walk[c].hops)'
        <3>1. PathIn(named'[c], o, o, 0)
            BY <2>4, NoLinkPath
        <3>2. QED BY <3>1, <2>3 DEF PathIn
    <2>6. \A p \in handoff'[c].old \ (walk'[c].left \cup {walk'[c].from}) : LedTo(p, c)'
        BY <1>4, <1>5, <2>1, <2>3
    <2>7. UnderWay(c)'
        BY <1>1, <1>2, <2>3, <2>4, <2>5, <2>6, AuthorityAssumption DEF UnderWay, Links
    <2>8. QED BY <1>1, <1>2, <2>1, <2>2, <2>7 DEF HandoffLed, OthersKept
<1>7. CASE walk[c].left = {} /\ EndWalk(c) /\ Handed(c, "clear")
    <2>1. /\ handoff'[c].step = "clear" /\ handoff'[c].old = handoff[c].old
          /\ \A d \in AdminCard : d # c => handoff'[d] = handoff[d]
        <3>1. "clear" \in HandoffSteps
            BY DEF HandoffSteps
        <3>2. QED BY <1>7, <3>1, HandedType DEF Handed
    <2>2. WalkTypes' /\ \A d \in AdminCard : d # c => walk'[d] = walk[d]
        BY <1>1, <1>2, <1>7, WalkEndsAt DEF WalkTypes
    <2>3. \A o \in handoff'[c].old : LedTo(o, c)'
        BY <1>4, <1>5, <1>7, <2>1
    <2>4. QED BY <1>1, <1>2, <2>1, <2>2, <2>3 DEF HandoffLed, OthersKept
<1>8. QED BY <1>1, <1>6, <1>7

LEMMA LinkFollowed ==
    ASSUME AuthorityTypes, AuthorityLed, NEW c \in AdminCard, FollowLink(c)
    PROVE  WalkTypes' /\ HandoffLed(c)' /\ OthersKept(c)
<1> DEFINE next == LinkOf(walk[c].cursor)
           moved == [walk EXCEPT ![c].cursor = next]
<1>1. /\ handoff[c].step = "walk" /\ next # Absent /\ walk[c].hops + 1 < MaxHops
      /\ walk' = [moved EXCEPT ![c].hops = @ + 1] /\ Handed(c, "walk")
      /\ UNCHANGED <<forward, named, seenRecord>>
    BY DEF FollowLink, Handed, registryVars
<1>2. WalkTypes /\ UnderWay(c) /\ walk[c] \in WalkState /\ c \in seenRecord
    BY <1>1 DEF AuthorityLed, HandoffLed, WalkTypes
<1>3. next \in AdminCard
    BY <1>1, <1>2 DEF LinkOf, UnderWay, AuthorityTypes
<1>4. PathIn(named[c], walk[c].from, next, walk[c].hops + 1)
    BY <1>1, <1>3, LinkFound
<1> HIDE DEF next
<1>5. /\ moved \in [AdminCard -> WalkState] /\ moved[c] \in WalkState
      /\ moved[c].cursor = next /\ moved[c].from = walk[c].from /\ moved[c].hops = walk[c].hops
      /\ moved[c].left = walk[c].left
      /\ \A d \in AdminCard : d # c => moved[d] = walk[d]
    BY <1>2, <1>3 DEF WalkTypes, WalkState
<1> HIDE DEF moved
<1>6. /\ walk' \in [AdminCard -> WalkState]
      /\ walk'[c].cursor = next /\ walk'[c].from = walk[c].from
      /\ walk'[c].hops = walk[c].hops + 1 /\ walk'[c].left = walk[c].left
      /\ \A d \in AdminCard : d # c => walk'[d] = walk[d]
    <2>1. [moved[c] EXCEPT !.hops = @ + 1] \in WalkState
        BY <1>5 DEF WalkState
    <2>2. walk' = [moved EXCEPT ![c] = [moved[c] EXCEPT !.hops = @ + 1]]
        BY <1>1
    <2>3. walk'[c] = [moved[c] EXCEPT !.hops = @ + 1]
        BY <1>5, <2>2
    <2>4. walk'[c].cursor = next /\ walk'[c].from = walk[c].from
          /\ walk'[c].hops = walk[c].hops + 1 /\ walk'[c].left = walk[c].left
        BY <1>5, <2>3 DEF WalkState
    <2>5. QED BY <1>5, <2>1, <2>2, <2>4
<1>7. /\ handoff'[c].step = "walk" /\ handoff'[c].old = handoff[c].old
      /\ \A d \in AdminCard : d # c => handoff'[d] = handoff[d]
    <2>1. "walk" \in HandoffSteps
        BY DEF HandoffSteps
    <2>2. QED BY <1>1, <2>1, HandedType DEF Handed
<1>8. UnderWay(c)'
    <2>1. PathIn(named[c], walk[c].from, walk[c].cursor, walk[c].hops)'
        BY <1>1, <1>4, <1>6 DEF PathIn
    <2>2. \A o : LedTo(o, c) => LedTo(o, c)'
        BY <1>1 DEF LedTo
    <2>3. QED BY <1>1, <1>2, <1>3, <1>6, <1>7, <2>1, <2>2 DEF UnderWay, Links
<1>9. QED BY <1>1, <1>2, <1>6, <1>7, <1>8 DEF HandoffLed, OthersKept, WalkTypes

\* The rest of a request: it goes on from one step to the next, or fails.
LEMMA HandoffGoesOn ==
    ASSUME AuthorityTypes, AuthorityLed, NEW c \in AdminCard,
           LoseTrail(c) \/ SendClearing(c) \/ SendDeregistration(c) \/ FailDeactivation(c)
    PROVE  WalkTypes' /\ HandoffLed(c)' /\ OthersKept(c)
<1>1. PICK step \in {"clearing", "deregistering", "failed"} :
        /\ handoff' = [handoff EXCEPT ![c].step = step]
        /\ handoff[c].step # "none"
        /\ step # "failed" => handoff[c].step \in {"clear", "clearing"}
    BY DEF LoseTrail, SendClearing, SendDeregistration, FailDeactivation, Handed
<1>2. UNCHANGED <<named, seenRecord>> /\ (EndWalk(c) \/ UNCHANGED walk)
    BY DEF LoseTrail, SendClearing, SendDeregistration, FailDeactivation, Handed
<1>3. /\ handoff'[c].step = step /\ handoff'[c].old = handoff[c].old
      /\ \A d \in AdminCard : d # c => handoff'[d] = handoff[d]
    <2>1. step \in HandoffSteps
        BY DEF HandoffSteps
    <2>2. QED BY <1>1, <2>1, HandedType
<1>4. WalkTypes' /\ \A d \in AdminCard : d # c => walk'[d] = walk[d]
    BY <1>2, WalkEndsAt DEF WalkTypes, AuthorityLed
<1>5. \A o : LedTo(o, c) => LedTo(o, c)'
    BY <1>2 DEF LedTo
<1>6. QED BY <1>1, <1>2, <1>3, <1>4, <1>5 DEF HandoffLed, AuthorityLed, OthersKept

LEMMA OldRevoked ==
    ASSUME AuthorityTypes, AuthorityLed, NEW c \in AdminCard, NEW o \in AdminCard,
           NEW answered \in BOOLEAN, RevokeOld(c, o, answered)
    PROVE  WalkTypes' /\ HandoffLed(c)' /\ OthersKept(c)
<1>1. /\ handoff'[c].step = AfterRevoke(c, o, answered)
      /\ handoff'[c].old = handoff[c].old \ {o}
      /\ \A d \in AdminCard : d # c => handoff'[d] = handoff[d]
    BY RevokeHandoff
<1>2. handoff[c].step \in {"deregistering", "revoke"} /\ UNCHANGED <<walk, named, seenRecord>>
    BY DEF RevokeOld
<1>3. \A p : LedTo(p, c) => LedTo(p, c)'
    BY <1>2 DEF LedTo
<1>4. QED BY <1>1, <1>2, <1>3 DEF HandoffLed, AuthorityLed, OthersKept, WalkTypes, AfterRevoke

LEMMA AuthorityLedNext ==
    ASSUME AuthorityTypes, ProvenOnly, AuthorityLed, AuthorityNext
    PROVE  AuthorityLed'
<1>1. seenRecord \subseteq seenRecord'
    BY SeenGrows
<1>2. CASE UNCHANGED <<handoff, walk, named, forward>>
    BY <1>1, <1>2, HandoffKept DEF AuthorityLed, WalkTypes
<1>3. CASE \E a, b \in AdminCard : SetForward(a, b)
    BY <1>1, <1>3, LinkSet
<1>4. ASSUME NEW c \in AdminCard, Deactivate(c) PROVE AuthorityLed'
    <2>1. WalkTypes' /\ HandoffLed(c)' /\ OthersKept(c)
        BY <1>4, Requested, AdminMet, LinkFollowed, HandoffGoesOn, OldRevoked DEF Deactivate
    <2>2. UNCHANGED forward
        BY <1>4 DEF Deactivate, RequestDeactivation, MeetAdmin, FollowLink, LoseTrail, SendClearing,
            SendDeregistration, FailDeactivation, RevokeOld, registryVars
    <2>3. ASSUME NEW d \in AdminCard, d # c PROVE HandoffLed(d)'
        BY <1>1, <2>1, <2>2, <2>3, HandoffKept DEF AuthorityLed, OthersKept
    <2>4. QED BY <2>1, <2>3 DEF AuthorityLed
<1>5. QED BY <1>2, <1>3, <1>4, WalkMoves

\* A card that the press had live is revoked where a handoff revokes it.
LEMMA RevokedByHandoff ==
    ASSUME AuthorityTypes, AuthorityNext, NEW o \in AdminCard,
           status[o] = "live", status'[o] = "revoked"
    PROVE  \E c \in AdminCard : handoff[c].step \in {"deregistering", "revoke"}
                            /\ o \in handoff[c].old
<1>1. \/ UNCHANGED status
      \/ \E c \in AdminCard : status' = [status EXCEPT ![c] = "live"]
      \/ \E c, p \in AdminCard, answered \in BOOLEAN : RevokeOld(c, p, answered)
    BY DEF AuthorityNext, VerifyTxt, RequestVerification, SendRegistration,
       AnswerRegistered,
        FailVerification, ResolveTxt, IssueAdminCard, Deactivate, RequestDeactivation,
        MeetAdmin, FollowLink, LoseTrail, SendClearing, SendDeregistration, FailDeactivation, Handed,
        VerifyEntries, StartPoll, RemoveBranded, EndRemoval, SaveCursor, AbortOnSubCard,
        VerifyEvent, Polled, Environment, Mine, Effect, ToggleRecord, SetForward,
        SetPolicyAddress, RotateBody, FailPoll, Outside, registryVars
<1>2. ASSUME NEW c \in AdminCard, NEW p \in AdminCard, NEW answered \in BOOLEAN,
             RevokeOld(c, p, answered)
      PROVE  p = o /\ handoff[c].step \in {"deregistering", "revoke"} /\ o \in handoff[c].old
    <2>1. status' = [status EXCEPT ![p] = "revoked"]
          /\ handoff[c].step \in {"deregistering", "revoke"} /\ p \in handoff[c].old
        BY <1>2 DEF RevokeOld
    <2>2. p = o
        BY <2>1 DEF AuthorityTypes
    <2>3. QED BY <2>1, <2>2
<1>3. QED BY <1>1, <1>2 DEF AuthorityTypes

LEMMA AuthorityLedInvariant ==
    AuthoritySpec => [](AuthorityTypes /\ ProvenOnly /\ AuthorityLed)
<1>1. AuthorityInit => AuthorityLed
    <2> SUFFICES ASSUME AuthorityInit PROVE AuthorityLed
        OBVIOUS
    <2>1. NoWalk \in WalkState
        BY DEF NoWalk, WalkState
    <2>2. \A c \in AdminCard : handoff[c].step = "none"
        BY DEF AuthorityInit, NoHandoff
    <2>3. QED BY <2>1, <2>2 DEF AuthorityInit, AuthorityLed, WalkTypes, HandoffLed
<1>2. ASSUME AuthorityTypes, ProvenOnly, AuthorityLed, [AuthorityNext]_authorityVars
      PROVE  AuthorityLed'
    <2>1. CASE AuthorityNext
        BY <1>2, <2>1, AuthorityLedNext
    <2>2. CASE UNCHANGED authorityVars
        <3>1. UNCHANGED <<handoff, walk, named, forward, seenRecord>>
            BY <2>2 DEF authorityVars, registryVars, scriptVars
        <3>2. QED BY <1>2, <3>1, HandoffKept DEF AuthorityLed, WalkTypes
    <2>3. QED BY <1>2, <2>1, <2>2
<1>3. QED BY <1>1, <1>2, ProvenOnlyInvariant, PTL DEF AuthoritySpec

\* The hand-off endpoint revokes a live card only when links that held between the request
\* and its last hop, each when it was read or set and maybe no two of them together, lead
\* from it within maxHops to a card whose record was found (admin-deactivation.ts walks a
\* hop at a time, and forwards and logs change as they like meanwhile).
THEOREM PredecessorsRevoked == AuthoritySpec => SupersededRevoked
<1>1. ASSUME AuthorityTypes, AuthorityLed, [AuthorityNext]_authorityVars
      PROVE  [\A c \in AdminCard : status[c] = "live" /\ status'[c] = "revoked" =>
                 \E d \in seenRecord : LedTo(c, d)]_authorityVars
    <2>1. SUFFICES ASSUME AuthorityNext, NEW o \in AdminCard, status[o] = "live",
                          status'[o] = "revoked"
                   PROVE  \E d \in seenRecord : LedTo(o, d)
        BY <1>1
    <2>2. QED BY <1>1, <2>1, RevokedByHandoff DEF AuthorityLed, HandoffLed
<1>2. QED BY <1>1, AuthorityLedInvariant, PTL DEF AuthoritySpec, SupersededRevoked

-----------------------------------------------------------------------------
(* VerdictsComplete                                                          *)

\* Every event the task has passed by in a run has its verdict.
VerdictsKept ==
    /\ cursor \in Nat /\ log \in Seq([path : DomainPath, value : Value, sub : BOOLEAN])
    /\ poll \in [step : {"idle", "verify", "removing"}, to : Nat, next : Nat \ {0}]
    /\ 1..cursor \subseteq judged
    /\ poll.step # "idle" => 1..(poll.next - 1) \subseteq judged

LEMMA NextVerdict ==
    ASSUME VerdictsKept, poll.step # "idle", poll' = NextEvent, Verdict, UNCHANGED <<cursor, log>>
    PROVE  VerdictsKept'
<1>1. /\ poll' \in [step : {"idle", "verify", "removing"}, to : Nat, next : Nat \ {0}]
      /\ poll'.next = poll.next + 1 /\ poll.next \in Nat
    <2>1. /\ poll \in [step : {"idle", "verify", "removing"}, to : Nat, next : Nat \ {0}]
          /\ poll' = [[poll EXCEPT !.step = "verify"] EXCEPT !.next = @ + 1]
        BY DEF NextEvent, VerdictsKept
    <2>2. poll.next + 1 \in Nat \ {0} /\ poll.next \in Nat
        BY <2>1
    <2>3. poll' = [step |-> "verify", to |-> poll.to, next |-> poll.next + 1]
        BY <2>1
    <2>4. QED BY <2>1, <2>2, <2>3
<1>2. 1..(poll'.next - 1) \subseteq 1..(poll.next - 1) \cup {poll.next}
    BY <1>1
<1>3. QED BY <1>1, <1>2 DEF VerdictsKept, Verdict

LEMMA VerdictsKeptNext ==
    ASSUME VerdictsKept, AuthorityNext
    PROVE  VerdictsKept'
<1>1. CASE StartPoll
    <2>1. /\ poll' = [step |-> "verify", to |-> Len(log), next |-> cursor + 1]
          /\ UNCHANGED <<cursor, judged, log>>
        BY <1>1 DEF StartPoll, Polled, registryVars
    <2>2. Len(log) \in Nat /\ cursor + 1 \in Nat \ {0}
        BY DEF VerdictsKept
    <2>3. poll'.next - 1 = cursor
        BY <2>1 DEF VerdictsKept
    <2>4. poll' \in [step : {"idle", "verify", "removing"}, to : Nat, next : Nat \ {0}]
        BY <2>1, <2>2
    <2>5. QED BY <2>1, <2>3, <2>4 DEF VerdictsKept
<1>2. CASE EndRemoval \/ \E readable \in BOOLEAN : VerifyEvent(readable)
    <2>1. poll.step # "idle" /\ poll' = NextEvent /\ Verdict /\ UNCHANGED <<cursor, log>>
        BY <1>2 DEF EndRemoval, VerifyEvent, Polled, registryVars
    <2>2. QED BY <2>1, NextVerdict
<1>3. CASE SaveCursor
    <2>1. /\ poll.step = "verify" /\ UNCHANGED <<judged, log>>
          /\ cursor' = IF poll.next > poll.to THEN poll.to ELSE cursor
          /\ poll' = IF poll.next > poll.to THEN NoPoll ELSE poll
        BY <1>3 DEF SaveCursor, SavedCursor, Polled, registryVars
    <2>2. CASE poll.next > poll.to
        <3>1. 1..poll.to \subseteq 1..(poll.next - 1)
            BY <2>2 DEF VerdictsKept
        <3>2. QED BY <2>1, <2>2, <3>1 DEF VerdictsKept, NoPoll
    <2>3. CASE ~(poll.next > poll.to)
        BY <2>1, <2>3 DEF VerdictsKept
    <2>4. QED BY <2>2, <2>3
<1>4. CASE RemoveBranded \/ AbortOnSubCard
    <2>1. /\ poll' = NoPoll \/ (poll' = [poll EXCEPT !.step = "removing"] /\ poll.step = "verify")
          /\ UNCHANGED <<cursor, judged, log>>
        BY <1>4 DEF RemoveBranded, AbortOnSubCard, Polled, registryVars
    <2>2. QED BY <2>1 DEF VerdictsKept, NoPoll
<1>5. CASE Environment
    <2>1. /\ UNCHANGED <<cursor, judged>>
          /\ UNCHANGED poll \/ poll' = NoPoll
        BY <1>5
        DEF Environment, Mine, ToggleRecord, SetForward, SetPolicyAddress, RotateBody,
            FailPoll, Outside, scriptVars
    <2>2. \/ UNCHANGED log
          \/ \E p \in DomainPath, w \in Value, sub \in BOOLEAN :
                log' = Append(log, [path |-> p, value |-> w, sub |-> sub])
        BY <1>5 DEF Environment, Mine, Effect, ToggleRecord, SetForward, SetPolicyAddress,
            RotateBody, FailPoll, Outside, registryVars
    <2>3. log' \in Seq([path : DomainPath, value : Value, sub : BOOLEAN])
        <3>1. \A p \in DomainPath, w \in Value, sub \in BOOLEAN :
                [path |-> p, value |-> w, sub |-> sub]
                    \in [path : DomainPath, value : Value, sub : BOOLEAN]
            OBVIOUS
        <3> DEFINE R == [path : DomainPath, value : Value, sub : BOOLEAN]
        <3>2. log \in Seq(R)
            BY DEF VerdictsKept
        <3>3. UNCHANGED log \/ \E r \in R : log' = Append(log, r)
            BY <2>2, <3>1
        <3> HIDE DEF R
        <3>4. log' \in Seq(R)
            BY <3>2, <3>3
        <3>5. QED BY <3>4 DEF R
    <2>4. QED BY <2>1, <2>3 DEF VerdictsKept, NoPoll
<1>6. CASE \E c \in AdminCard : VerifyTxt(c) \/ Deactivate(c)
    <2>1. UNCHANGED <<cursor, poll, judged, log>>
        BY <1>6, ZenonT(60) DEF VerifyTxt, RequestVerification, SendRegistration, AnswerRegistered,
            FailVerification, ResolveTxt, IssueAdminCard, Applied, Deactivate,
            RequestDeactivation, MeetAdmin, FollowLink, LoseTrail, SendClearing, SendDeregistration,
            FailDeactivation, RevokeOld, Handed, registryVars
    <2>2. QED BY <2>1 DEF VerdictsKept
<1>7. QED BY <1>1, <1>2, <1>3, <1>4, <1>5, <1>6 DEF AuthorityNext, VerifyEntries

\* Every PolicyAddressSet event behind the saved cursor has had its verdict, whatever
\* ends the task (policy-address-verifier.ts saves the cursor after the last event).
THEOREM EntriesJudged == AuthoritySpec => []VerdictsComplete
<1>1. AuthorityInit => VerdictsKept
    BY DEF AuthorityInit, VerdictsKept, NoPoll
<1>2. ASSUME VerdictsKept, [AuthorityNext]_authorityVars PROVE VerdictsKept'
    <2>1. CASE UNCHANGED authorityVars
        BY <1>2, <2>1 DEF VerdictsKept, authorityVars, scriptVars, registryVars
    <2>2. QED BY <1>2, <2>1, VerdictsKeptNext
<1>3. VerdictsKept => VerdictsComplete
    BY DEF VerdictsKept, VerdictsComplete
<1>4. QED BY <1>1, <1>2, <1>3, PTL DEF AuthoritySpec

-----------------------------------------------------------------------------
(* SetupIsSound.  What holds of a run is said of its record and of the chain, so    *)
(* that it can be carried from one state of the chain to a later one.             *)

Addresses == [verifier : Address, storage : Address, logic : Address]
Use == [storage : Address, verifier : Address]

FactNames == {"dns policy", "dns press", "dns pointer", "dev policy", "dev press"}
DeploySteps == {"deploy verifier", "deploy storage", "deploy logic"}
WireSteps == {"wire storage", "wire logic", "verify wiring", "write record"}
GovernSteps == {"read", "check", "submit", "verify", "complete"}
RotateSteps == {"read keyset", "rotate"}
DeployRun ==
    [script : {"deploy", "redeploy"}, step : DeploySteps \cup WireSteps, keyed : BOOLEAN,
     verifier : {0} \cup Address, storage : {0} \cup Address, logic : {0} \cup Address]
GovernRun ==
    [script : Governing, step : GovernSteps, logic : Address, storage : Address,
     left : {DnsFacts, <<"dns press", "dns pointer">>, <<"dns pointer">>, <<"dev policy">>,
             <<"dev press">>},
     version : [GovBody -> Nat]]
RotateRun ==
    [script : {"rotate"}, step : RotateSteps, logic : Address, body : GovBody, version : Nat]
Run == {Idle} \cup DeployRun \cup GovernRun \cup RotateRun

\* A deployment knows the addresses it has deployed, and they are wired once it says so.
Deploying(r, chainObeys, chainUses) ==
    r.step \in DeploySteps \cup WireSteps =>
        /\ r \in DeployRun
        /\ r.script = "redeploy" => r.keyed
        /\ r.step # "deploy verifier" => r.verifier \in Address
        /\ r.step \notin {"deploy verifier", "deploy storage"} => r.storage \in Address
        /\ r.step \in WireSteps => r.logic \in Address
        /\ r.step \in {"wire storage", "wire logic", "verify wiring"} => r.keyed
        /\ r.step \in {"wire logic", "verify wiring", "write record"} /\ r.keyed =>
              chainObeys[r.storage] = r.logic
        /\ r.step \in {"verify wiring", "write record"} /\ r.keyed =>
              chainUses[r.logic] # None /\ chainUses[r.logic].storage = r.storage

\* What a setup of DNS has got past, and found or done
Past(r) ==
    IF r.step \in {"verify", "complete"} THEN {"dns policy", "dns press", "dns pointer"}
    ELSE IF r.left = DnsFacts THEN {}
    ELSE IF r.left = <<"dns press", "dns pointer">> THEN {"dns policy"}
    ELSE {"dns policy", "dns press"}
GoverningRun(r, chainUses, chainFacts) ==
    r.script \in Governing =>
        /\ r \in GovernRun
        /\ r.script = "setup_dns" =>
              r.left \in {DnsFacts, <<"dns press", "dns pointer">>, <<"dns pointer">>}
        /\ r.script # "setup_dns" => r.left \in {<<"dev policy">>, <<"dev press">>}
        /\ r.script = "setup_dns" /\ r.step = "verify" => r.left = <<"dns pointer">>
        /\ r.script = "register_dev_policy" => r.step # "check"
        /\ /\ r.script = "setup_dns"
           /\ chainUses[r.logic] = None \/ chainUses[r.logic].storage = r.storage
           => Past(r) \subseteq chainFacts[r.storage]

Sound(r, chainObeys, chainUses, chainFacts) ==
    /\ r \in Run
    /\ Deploying(r, chainObeys, chainUses)
    /\ GoverningRun(r, chainUses, chainFacts)

SetupTypes ==
    /\ contracts \in 0..MaxContracts
    /\ obeys \in [Address -> {0} \cup Address]
    /\ uses \in [Address -> {None} \cup Use]
    /\ facts \in [Address -> SUBSET FactNames]
    /\ keys \in [Address -> [GovBody -> [holder : {"nobody", "deployer", "board"}, version : Nat]]]
    /\ record \in {None} \cup Addresses /\ exported \subseteq Addresses
    /\ DOMAIN run = Operator /\ run \in [Operator -> Run]
    /\ unwired \in BOOLEAN

RunsSound ==
    \A o \in Operator :
        /\ Sound(run[o], obeys, uses, facts)
        /\ run[o].script = "redeploy" => record \in Addresses

SetupInv == SetupTypes /\ RunsSound /\ RecordIsWired

\* The chain is only ever added to.
Grows(o1, o2, u1, u2, f1, f2) ==
    \A a \in Address :
        /\ o1[a] # 0 => o2[a] = o1[a]
        /\ u1[a] # None => u2[a] = u1[a]
        /\ f1[a] \subseteq f2[a]

LEMMA SoundStays ==
    ASSUME NEW r, NEW o1, NEW o2, NEW u1, NEW u2, NEW f1, NEW f2,
           Grows(o1, o2, u1, u2, f1, f2), Sound(r, o1, u1, f1)
    PROVE  Sound(r, o2, u2, f2)
<1>1. 0 \notin Address
    BY SetupAssumption DEF Address
<1>2. Deploying(r, o2, u2)
    BY <1>1, ZenonT(60) DEF Grows, Sound, Deploying, WireSteps, DeploySteps
<1>3. GoverningRun(r, u2, f2)
    <2>1. SUFFICES ASSUME r.script \in Governing PROVE GoverningRun(r, u2, f2)
        BY DEF GoverningRun
    <2>2. r \in GovernRun /\ r.logic \in Address /\ r.storage \in Address
        BY <2>1 DEF Sound, GoverningRun, GovernRun
    <2>3. f1[r.storage] \subseteq f2[r.storage]
        BY <2>2 DEF Grows
    <2>4. u1[r.logic] # None => u2[r.logic] = u1[r.logic]
        BY <2>2 DEF Grows
    <2>5. QED BY <2>1, <2>2, <2>3, <2>4 DEF Sound, GoverningRun
<1>4. QED BY <1>2, <1>3 DEF Sound

\* A step that changes one run, to one that is sound, and adds to the chain.
LEMMA OneRun ==
    ASSUME SetupInv, NEW o \in Operator, NEW r, run' = [run EXCEPT ![o] = r],
           Grows(obeys, obeys', uses, uses', facts, facts'), Sound(r, obeys', uses', facts'),
           record \in Addresses => record' \in Addresses,
           r.script = "redeploy" => record' \in Addresses
    PROVE  RunsSound' /\ run' \in [Operator -> Run]
<1>1. ASSUME NEW p \in Operator
      PROVE  /\ Sound(run'[p], obeys', uses', facts')
             /\ run'[p].script = "redeploy" => record' \in Addresses
    <2>1. CASE p = o
        BY <2>1 DEF SetupInv, SetupTypes
    <2>2. CASE p # o
        <3>1. /\ run'[p] = run[p] /\ Sound(run[p], obeys, uses, facts)
              /\ run[p].script = "redeploy" => record \in Addresses
            BY <2>2 DEF SetupInv, SetupTypes, RunsSound
        <3>2. QED BY <3>1, SoundStays
    <2>3. QED BY <2>1, <2>2
<1>2. r \in Run
    BY DEF Sound
<1>3. QED BY <1>1, <1>2 DEF RunsSound, SetupInv, SetupTypes

LEMMA RecordStays ==
    ASSUME SetupInv, Grows(obeys, obeys', uses, uses', facts, facts'), UNCHANGED <<record, unwired>>
    PROVE  RecordIsWired'
<1>1. 0 \notin Address
    BY SetupAssumption DEF Address
<1>2. SUFFICES ASSUME record # None, ~unwired
      PROVE /\ obeys'[record.storage] = record.logic
            /\ uses'[record.logic] # None /\ uses'[record.logic].storage = record.storage
    BY DEF RecordIsWired
<1>3. record.storage \in Address /\ record.logic \in Address
    BY <1>2 DEF SetupInv, SetupTypes, Addresses
<1>4. QED BY <1>1, <1>2, <1>3 DEF SetupInv, RecordIsWired, Grows

\* A step of one run that leaves the record alone.
LEMMA QuietRun ==
    ASSUME SetupInv, NEW o \in Operator, NEW r, run' = [run EXCEPT ![o] = r],
           contracts' \in 0..MaxContracts,
           UNCHANGED <<obeys, uses, keys, facts, record, exported, unwired>>,
           Sound(r, obeys, uses, facts), r.script = "redeploy" => record \in Addresses
    PROVE  SetupInv'
<1>1. Grows(obeys, obeys', uses, uses', facts, facts')
    BY DEF Grows
<1>2. Sound(r, obeys', uses', facts')
    OBVIOUS
<1>3. RunsSound' /\ run' \in [Operator -> Run]
    BY <1>1, <1>2, OneRun
<1>4. RecordIsWired'
    BY <1>1, RecordStays
<1>5. QED BY <1>3, <1>4 DEF SetupInv, SetupTypes

LEMMA IdleSound == Sound(Idle, obeys, uses, facts) /\ Idle.step = "over" /\ Idle.script = "none"
<1>1. Idle.step = "over" /\ Idle.script = "none"
    BY DEF Idle
<1>2. Idle \in Run
    BY DEF Run
<1>3. Deploying(Idle, obeys, uses)
    BY <1>1 DEF Deploying, DeploySteps, WireSteps
<1>4. GoverningRun(Idle, uses, facts)
    BY <1>1 DEF GoverningRun, Governing
<1>5. QED BY <1>1, <1>2, <1>3, <1>4 DEF Sound

\* Which runs are at which steps.
LEMMA RunKinds ==
    ASSUME NEW r \in Run
    PROVE  /\ r.step \in DeploySteps \cup WireSteps => r \in DeployRun
           /\ r.step \in GovernSteps => r \in GovernRun
           /\ r.step \in RotateSteps => r \in RotateRun
           /\ r.script \in Governing => r \in GovernRun
           /\ r.script = "setup_dns" => r \in GovernRun
<1>1. Idle.step = "over" /\ Idle.script = "none"
    BY DEF Idle
<1>2. CASE r = Idle
    BY <1>1, <1>2 DEF DeploySteps, WireSteps, GovernSteps, RotateSteps, Governing
<1>3. CASE r \in DeployRun
    BY <1>3 DEF DeployRun, DeploySteps, WireSteps, GovernSteps, RotateSteps, Governing
<1>4. CASE r \in GovernRun
    BY <1>4 DEF GovernRun, DeploySteps, WireSteps, GovernSteps, RotateSteps, Governing
<1>5. CASE r \in RotateRun
    BY <1>5 DEF RotateRun, DeploySteps, WireSteps, GovernSteps, RotateSteps, Governing
<1>6. QED BY <1>2, <1>3, <1>4, <1>5 DEF Run

LEMMA AddressFacts == 0 \notin Address /\ None \notin Use /\ Address \subseteq Nat
BY SetupAssumption DEF Address, Use

LEMMA StartDeploying ==
    ASSUME SetupInv, NEW o \in Operator, NEW r \in DeployRun,
           r.step \in {"deploy verifier", "deploy storage"},
           r.script = "redeploy" => r.keyed,
           r.step = "deploy storage" => r.verifier \in Address,
           r.script = "redeploy" => record \in Addresses,
           Start(o, r)
    PROVE  SetupInv'
<1>1. Sound(r, obeys, uses, facts)
    BY DEF Sound, Run, Deploying, GoverningRun, DeployRun, DeploySteps, WireSteps, Governing
<1>2. QED BY <1>1, QuietRun DEF Start, chainVars, SetupInv, SetupTypes

LEMMA DeployStarts ==
    ASSUME SetupInv, NEW o \in Operator, NEW keyed \in BOOLEAN,
           StartDeploy(o, keyed) \/ StartRedeploy(o)
    PROVE  SetupInv'
<1>1. CASE StartDeploy(o, keyed)
    <2> DEFINE r == [script |-> "deploy", step |-> "deploy verifier", keyed |-> keyed,
                     verifier |-> 0, storage |-> 0, logic |-> 0]
    <2>1. r \in DeployRun /\ r.step = "deploy verifier" /\ r.script = "deploy"
        BY DEF DeployRun, DeploySteps
    <2>2. Start(o, r)
        BY <1>1 DEF StartDeploy
    <2> HIDE DEF r
    <2>3. QED BY <2>1, <2>2, StartDeploying
<1>2. CASE StartRedeploy(o)
    <2> DEFINE r == [script |-> "redeploy", step |-> "deploy storage", keyed |-> TRUE,
                     verifier |-> record.verifier, storage |-> 0, logic |-> 0]
    <2>1. record \in Addresses /\ record.verifier \in Address
        BY <1>2 DEF StartRedeploy, SetupInv, SetupTypes, Addresses
    <2>2. r \in DeployRun /\ r.step = "deploy storage" /\ r.script = "redeploy"
          /\ r.verifier \in Address /\ r.keyed
        BY <2>1 DEF DeployRun, DeploySteps
    <2>3. Start(o, r)
        BY <1>2 DEF StartRedeploy
    <2> HIDE DEF r
    <2>4. PICK q \in DeployRun : q = r
        BY <2>2
    <2>5. QED BY <2>1, <2>2, <2>3, <2>4, StartDeploying
<1>3. QED BY <1>1, <1>2

LEMMA DeployKept ==
    ASSUME SetupInv, NEW o \in Operator, Deploy(o)
    PROVE  SetupInv'
<1> DEFINE a == contracts + 1
           r == run[o]
           next == CASE r.step = "deploy verifier" -> [r EXCEPT !.verifier = a,
                                                                !.step = "deploy storage"]
                     [] r.step = "deploy storage" ->
                            [r EXCEPT !.storage = a, !.step = "deploy logic"]
                     [] r.step = "deploy logic" ->
                            [r EXCEPT !.logic = a, !.step = AfterDeployment(r)]
<1>1. /\ r.step \in DeploySteps /\ a \in Address /\ a \in 0..MaxContracts
      /\ contracts' = a /\ run' = [run EXCEPT ![o] = next]
      /\ UNCHANGED <<obeys, uses, keys, facts, record, exported, unwired>>
    <2>1. /\ r.step \in DeploySteps /\ contracts < MaxContracts
          /\ contracts' = a /\ run' = [run EXCEPT ![o] = next]
          /\ UNCHANGED <<obeys, uses, keys, facts, record, exported, unwired>>
        BY DEF Deploy, NoMore, DeploySteps
    <2> HIDE DEF next, r
    <2>2. contracts \in 0..MaxContracts /\ MaxContracts \in Nat
        BY SetupAssumption DEF SetupInv, SetupTypes
    <2>3. a \in Nat /\ a >= 1 /\ a <= MaxContracts
        BY <2>1, <2>2
    <2>4. QED BY <2>1, <2>2, <2>3 DEF Address
<1>2. /\ Sound(r, obeys, uses, facts) /\ r \in DeployRun
      /\ r.script = "redeploy" => record \in Addresses
    BY <1>1 DEF SetupInv, RunsSound, Sound, Deploying
<1>3. Deploying(r, obeys, uses)
    BY <1>2 DEF Sound
<1>4. next \in DeployRun /\ next.script = r.script /\ next.keyed = r.keyed
    BY <1>1, <1>2 DEF DeployRun, DeploySteps, WireSteps, AfterDeployment
<1>5. Deploying(next, obeys, uses)
    <2>1. CASE r.step = "deploy verifier"
        <3>1. next.step = "deploy storage" /\ next.verifier = a
            BY <1>2, <2>1 DEF DeployRun
        <3> HIDE DEF next, a, r
        <3>2. QED
            BY <1>1, <1>2, <1>3, <1>4, <2>1, <3>1 DEF Deploying, DeploySteps, WireSteps
    <2>2. CASE r.step = "deploy storage"
        <3>1. next.step = "deploy logic" /\ next.verifier = r.verifier /\ next.storage = a
            BY <1>2, <2>2 DEF DeployRun
        <3> HIDE DEF next, a, r
        <3>2. QED
            BY <1>1, <1>2, <1>3, <1>4, <2>2, <3>1 DEF Deploying, DeploySteps, WireSteps
    <2>3. CASE r.step = "deploy logic"
        <3>1. /\ next.step = AfterDeployment(r) /\ next.verifier = r.verifier
              /\ next.storage = r.storage /\ next.logic = a
            BY <1>2, <2>3 DEF DeployRun
        <3>2. next.step = IF r.keyed THEN "wire storage" ELSE "write record"
            BY <3>1 DEF AfterDeployment
        <3> HIDE DEF next, a, r
        <3>3. QED
            BY <1>1, <1>2, <1>3, <1>4, <2>3, <3>1, <3>2
            DEF Deploying, DeploySteps, WireSteps
    <2>4. QED BY <1>1, <2>1, <2>2, <2>3 DEF DeploySteps
<1>6. GoverningRun(next, uses, facts)
    BY <1>4 DEF GoverningRun, DeployRun, Governing
<1> HIDE DEF next, a
<1>7. Sound(next, obeys, uses, facts)
    BY <1>4, <1>5, <1>6 DEF Sound, Run
<1>8. PICK q : q = next
    OBVIOUS
<1>9. QED BY <1>1, <1>2, <1>4, <1>7, <1>8, QuietRun

LEMMA WiredStorage ==
    ASSUME SetupInv, NEW o \in Operator, NEW answered \in BOOLEAN, WireStorage(o, answered)
    PROVE  SetupInv'
<1> DEFINE r == run[o]
           next == IF answered THEN [r EXCEPT !.step = "wire logic"] ELSE Idle
<1>1. /\ r.step = "wire storage" /\ obeys[r.storage] = 0
      /\ obeys' = [obeys EXCEPT ![r.storage] = r.logic]
      /\ keys' = [keys EXCEPT ![r.storage] =
                     [b \in GovBody |-> [holder |-> "deployer", version |-> 0]]]
      /\ run' = [run EXCEPT ![o] = next]
      /\ UNCHANGED <<contracts, uses, facts, record, exported, unwired>>
    BY DEF WireStorage, Step, NoMore
<1>2. /\ Sound(r, obeys, uses, facts) /\ r \in DeployRun
      /\ r.script = "redeploy" => record \in Addresses
    BY <1>1 DEF SetupInv, RunsSound, Sound, Deploying, WireSteps
<1>3. /\ r.storage \in Address /\ r.logic \in Address /\ r.verifier \in Address /\ r.keyed
    BY <1>1, <1>2 DEF Sound, Deploying, WireSteps, DeploySteps
<1>4. obeys' \in [Address -> {0} \cup Address] /\ obeys'[r.storage] = r.logic
    BY <1>1, <1>3 DEF SetupInv, SetupTypes
<1>5. keys' \in [Address ->
                 [GovBody -> [holder : {"nobody", "deployer", "board"}, version : Nat]]]
    <2> DEFINE all == [b \in GovBody |-> [holder |-> "deployer", version |-> 0]]
    <2>1. all \in [GovBody -> [holder : {"nobody", "deployer", "board"}, version : Nat]]
        OBVIOUS
    <2>2. keys' = [keys EXCEPT ![r.storage] = all]
        BY <1>1
    <2> HIDE DEF all
    <2>3. QED BY <2>1, <2>2 DEF SetupInv, SetupTypes
<1>6. Grows(obeys, obeys', uses, uses', facts, facts')
    BY <1>1 DEF Grows, SetupInv, SetupTypes
<1>7. Sound(next, obeys', uses', facts')
    <2>1. CASE answered
        <3>1. /\ next \in DeployRun /\ next.step = "wire logic" /\ next.script = r.script
              /\ next.keyed = r.keyed /\ next.verifier = r.verifier
              /\ next.storage = r.storage /\ next.logic = r.logic
            BY <1>2, <2>1 DEF DeployRun, WireSteps
        <3> HIDE DEF next
        <3>2. Deploying(next, obeys', uses')
            BY <1>3, <1>4, <3>1 DEF Deploying, WireSteps, DeploySteps
        <3>3. GoverningRun(next, uses', facts')
            BY <3>1 DEF GoverningRun, DeployRun, Governing
        <3>4. QED BY <3>1, <3>2, <3>3 DEF Sound, Run
    <2>2. CASE ~answered
        <3>1. next = Idle
            BY <2>2
        <3>2. QED BY <3>1, <1>6, IdleSound, SoundStays
    <2>3. QED BY <2>1, <2>2
<1>8. next.script = "redeploy" => record \in Addresses
    BY <1>2, IdleSound DEF DeployRun
<1> HIDE DEF next
<1>0. PICK q : q = next
    OBVIOUS
<1>9. RunsSound' /\ run' \in [Operator -> Run]
    BY <1>0, <1>1, <1>6, <1>7, <1>8, OneRun
<1>10. RecordIsWired'
    BY <1>1, <1>6, RecordStays
<1>11. QED BY <1>1, <1>4, <1>5, <1>9, <1>10 DEF SetupInv, SetupTypes

LEMMA WiredLogic ==
    ASSUME SetupInv, NEW o \in Operator, NEW answered \in BOOLEAN, WireLogic(o, answered)
    PROVE  SetupInv'
<1> DEFINE r == run[o]
           step == IF r.script = "deploy" THEN "write record" ELSE "verify wiring"
           next == IF answered THEN [r EXCEPT !.step = step] ELSE Idle
           use == [storage |-> r.storage, verifier |-> r.verifier]
<1>1. /\ r.step = "wire logic" /\ uses[r.logic] = None
      /\ uses' = [uses EXCEPT ![r.logic] = use]
      /\ run' = [run EXCEPT ![o] = next]
      /\ UNCHANGED <<contracts, obeys, keys, facts, record, exported, unwired>>
    BY DEF WireLogic, Step, NoMore
<1>2. /\ Sound(r, obeys, uses, facts) /\ r \in DeployRun
      /\ r.script = "redeploy" => record \in Addresses
    BY <1>1 DEF SetupInv, RunsSound, Sound, Deploying, WireSteps
<1>3. /\ r.storage \in Address /\ r.logic \in Address /\ r.verifier \in Address /\ r.keyed
      /\ obeys[r.storage] = r.logic
    BY <1>1, <1>2 DEF Sound, Deploying, WireSteps, DeploySteps
<1>4. use \in Use /\ use # None /\ use.storage = r.storage
    BY <1>3, AddressFacts DEF Use
<1>5. uses' \in [Address -> {None} \cup Use] /\ uses'[r.logic] = use
    BY <1>1, <1>3, <1>4 DEF SetupInv, SetupTypes
<1>6. Grows(obeys, obeys', uses, uses', facts, facts')
    BY <1>1 DEF Grows, SetupInv, SetupTypes
<1>7. Sound(next, obeys', uses', facts')
    <2>1. CASE answered
        <3>1. /\ next \in DeployRun /\ next.step = step /\ next.script = r.script
              /\ next.keyed = r.keyed /\ next.verifier = r.verifier
              /\ next.storage = r.storage /\ next.logic = r.logic
            BY <1>2, <2>1 DEF DeployRun, WireSteps
        <3>2. step \in {"write record", "verify wiring"}
            OBVIOUS
        <3> HIDE DEF next, step, use
        <3>3. Deploying(next, obeys', uses')
            BY <1>1, <1>3, <1>4, <1>5, <3>1, <3>2 DEF Deploying, WireSteps, DeploySteps
        <3>4. GoverningRun(next, uses', facts')
            BY <3>1 DEF GoverningRun, DeployRun, Governing
        <3>5. QED BY <3>1, <3>3, <3>4 DEF Sound, Run
    <2>2. CASE ~answered
        <3>1. next = Idle
            BY <2>2
        <3>2. QED BY <3>1, <1>6, IdleSound, SoundStays
    <2>3. QED BY <2>1, <2>2
<1>8. next.script = "redeploy" => record \in Addresses
    BY <1>2, IdleSound DEF DeployRun
<1> HIDE DEF next
<1>0. PICK q : q = next
    OBVIOUS
<1>9. RunsSound' /\ run' \in [Operator -> Run]
    BY <1>0, <1>1, <1>6, <1>7, <1>8, OneRun
<1>10. RecordIsWired'
    BY <1>1, <1>6, RecordStays
<1>11. QED BY <1>1, <1>5, <1>9, <1>10 DEF SetupInv, SetupTypes

LEMMA VerifiedWiring ==
    ASSUME SetupInv, NEW o \in Operator, VerifyWiring(o)
    PROVE  SetupInv'
<1> DEFINE r == run[o]
           next == [r EXCEPT !.step = "write record"]
<1>1. /\ r.step = "verify wiring" /\ run' = [run EXCEPT ![o] = next]
      /\ UNCHANGED <<chainVars, record, exported, unwired>>
    BY DEF VerifyWiring, Step, NoMore
<1>2. /\ Sound(r, obeys, uses, facts) /\ r \in DeployRun
      /\ r.script = "redeploy" => record \in Addresses
    BY <1>1 DEF SetupInv, RunsSound, Sound, Deploying, WireSteps
<1>3. Deploying(r, obeys, uses)
    BY <1>2 DEF Sound
<1>4. /\ next \in DeployRun /\ next.step = "write record" /\ next.script = r.script
      /\ next.keyed = r.keyed /\ next.verifier = r.verifier
      /\ next.storage = r.storage /\ next.logic = r.logic
    BY <1>2 DEF DeployRun, WireSteps
<1> HIDE DEF next
<1>5. Deploying(next, obeys, uses)
    BY <1>1, <1>3, <1>4 DEF Deploying, WireSteps, DeploySteps
<1>6. GoverningRun(next, uses, facts)
    BY <1>4 DEF GoverningRun, DeployRun, Governing
<1>7. Sound(next, obeys, uses, facts)
    BY <1>4, <1>5, <1>6 DEF Sound, Run
<1>8. PICK q : q = next
    OBVIOUS
<1>9. QED BY <1>1, <1>2, <1>4, <1>7, <1>8, QuietRun DEF chainVars, SetupInv, SetupTypes

LEMMA WrittenRecord ==
    ASSUME SetupInv, NEW o \in Operator, WriteRecord(o)
    PROVE  SetupInv'
<1> DEFINE r == run[o]
<1>1. /\ r.step = "write record" /\ run' = [run EXCEPT ![o] = Idle]
      /\ record' = [verifier |-> IF r.script = "deploy" THEN r.verifier ELSE record.verifier,
                    storage |-> r.storage, logic |-> r.logic]
      /\ unwired' = ~r.keyed /\ exported' = exported \cup {record'}
      /\ UNCHANGED chainVars
    BY DEF WriteRecord
<1>2. /\ Sound(r, obeys, uses, facts) /\ r \in DeployRun
      /\ r.script = "redeploy" => record \in Addresses
    BY <1>1 DEF SetupInv, RunsSound, Sound, Deploying, WireSteps
<1>3. /\ r.storage \in Address /\ r.logic \in Address /\ r.verifier \in Address
      /\ r.keyed => /\ obeys[r.storage] = r.logic
                    /\ uses[r.logic] # None /\ uses[r.logic].storage = r.storage
    BY <1>1, <1>2 DEF Sound, Deploying, WireSteps, DeploySteps
<1>4. /\ record' \in Addresses /\ record'.storage = r.storage /\ record'.logic = r.logic
    <2>1. (IF r.script = "deploy" THEN r.verifier ELSE record.verifier) \in Address
        BY <1>2, <1>3 DEF Addresses, DeployRun
    <2>2. QED BY <1>1, <1>3, <2>1 DEF Addresses
<1>5. Grows(obeys, obeys', uses, uses', facts, facts')
    BY <1>1 DEF Grows, chainVars
<1>6. Sound(Idle, obeys', uses', facts') /\ Idle.script = "none"
    BY <1>1, IdleSound DEF chainVars
<1>7. RunsSound' /\ run' \in [Operator -> Run]
    BY <1>1, <1>4, <1>5, <1>6, OneRun
<1>8. RecordIsWired'
    BY <1>1, <1>3, <1>4 DEF RecordIsWired, chainVars
<1>9. unwired' \in BOOLEAN
    BY <1>1
<1>10. QED BY <1>1, <1>4, <1>7, <1>8, <1>9 DEF SetupInv, SetupTypes, chainVars

LEMMA Stopped ==
    ASSUME SetupInv, NEW o \in Operator, Stop(o)
    PROVE  SetupInv'
BY IdleSound, QuietRun DEF Stop, NoMore, chainVars, SetupInv, SetupTypes

-----------------------------------------------------------------------------
(* The runs that govern                                                      *)

\* The three a setup of DNS may have left to do
Setups == {DnsFacts, <<"dns press", "dns pointer">>, <<"dns pointer">>}
LEMMA ShortTuples ==
    ASSUME NEW a, NEW b, NEW c
    PROVE  /\ Tail(<<a, b, c>>) = <<b, c>> /\ Tail(<<a, b>>) = <<b>>
           /\ <<a, b, c>> # <<b, c>> /\ <<a, b, c>> # <<c>> /\ <<a, b>> # <<c>>
           /\ Len(<<a, b, c>>) = 3 /\ Len(<<a, b>>) = 2 /\ Len(<<a>>) = 1
<1>1. Tail(<<a, b, c>>) = <<b, c>>
    OBVIOUS
<1>2. Tail(<<a, b>>) = <<b>>
    OBVIOUS
<1>3. Len(<<a, b, c>>) = 3 /\ Len(<<a, b>>) = 2 /\ Len(<<a>>) = 1
    OBVIOUS
<1>4. <<a, b, c>> # <<b, c>>
    OBVIOUS
<1>5. <<a, b, c>> # <<c>> /\ <<a, b>> # <<c>>
    OBVIOUS
<1>6. QED BY <1>1, <1>2, <1>3, <1>4, <1>5

LEMMA TailOfThree == ASSUME NEW a, NEW b, NEW c PROVE Tail(<<a, b, c>>) = <<b, c>>
OBVIOUS

LEMMA Plans ==
    /\ DnsFacts = <<"dns policy", "dns press", "dns pointer">>
    /\ DnsFacts # <<"dns press", "dns pointer">> /\ DnsFacts # <<"dns pointer">>
    /\ <<"dns press", "dns pointer">> # <<"dns pointer">>
    /\ Len(DnsFacts) = 3 /\ Len(<<"dns press", "dns pointer">>) = 2 /\ Len(<<"dns pointer">>) = 1
    /\ Len(<<"dev policy">>) = 1 /\ Len(<<"dev press">>) = 1
    /\ Tail(DnsFacts) = <<"dns press", "dns pointer">>
    /\ Tail(<<"dns press", "dns pointer">>) = <<"dns pointer">>
    /\ DnsFacts[1] = "dns policy" /\ <<"dns press", "dns pointer">>[1] = "dns press"
    /\ <<"dns pointer">>[1] = "dns pointer"
<1>1. DnsFacts = <<"dns policy", "dns press", "dns pointer">>
    BY DEF DnsFacts
<1>2. Len(DnsFacts) = 3 /\ Len(<<"dns press", "dns pointer">>) = 2 /\ Len(<<"dns pointer">>) = 1
      /\ Len(<<"dev policy">>) = 1 /\ Len(<<"dev press">>) = 1
    BY <1>1, ShortTuples
<1>3. /\ DnsFacts # <<"dns press", "dns pointer">> /\ DnsFacts # <<"dns pointer">>
      /\ <<"dns press", "dns pointer">> # <<"dns pointer">>
    BY <1>1, ShortTuples
<1>4. Tail(DnsFacts) = <<"dns press", "dns pointer">>
    <2>1. Tail(<<"dns policy", "dns press", "dns pointer">>) = <<"dns press", "dns pointer">>
        BY TailOfThree
    <2>2. QED BY <1>1, <2>1
<1>5. Tail(<<"dns press", "dns pointer">>) = <<"dns pointer">>
    BY ShortTuples
<1>6. /\ DnsFacts[1] = "dns policy" /\ <<"dns press", "dns pointer">>[1] = "dns press"
      /\ <<"dns pointer">>[1] = "dns pointer"
    BY DEF DnsFacts
<1>7. QED BY <1>1, <1>2, <1>3, <1>4, <1>5, <1>6

\* A run that governs, and what is asked of what it becomes.
LEMMA GovernSound ==
    ASSUME NEW r \in GovernRun, NEW o1, NEW u1, NEW f1, GoverningRun(r, u1, f1)
    PROVE  Sound(r, o1, u1, f1) /\ r.script # "redeploy"
<1>1. r.step \notin DeploySteps \cup WireSteps /\ r.script # "redeploy"
    BY DEF GovernRun, GovernSteps, DeploySteps, WireSteps, Governing
<1>2. QED BY <1>1 DEF Sound, Run, Deploying

LEMMA StartsGoverning ==
    ASSUME SetupInv, NEW o \in Operator, NEW e \in exported, NEW f \in exported,
           NEW script \in Governing, StartGoverning(o, script, e.logic, f.storage)
    PROVE  SetupInv'
<1> DEFINE r == [script |-> script, logic |-> e.logic, storage |-> f.storage,
                 left |-> Plan(script), version |-> [b \in GovBody |-> 0],
                 step |-> IF script = "authorize_dev_press" THEN "check" ELSE "read"]
<1>1. e.logic \in Address /\ f.storage \in Address
    BY DEF SetupInv, SetupTypes, Addresses
<1>2. /\ script = "setup_dns" => Plan(script) = DnsFacts
      /\ script # "setup_dns" => Plan(script) \in {<<"dev policy">>, <<"dev press">>}
    BY DEF Plan, Governing
<1>3. /\ r \in GovernRun /\ r.script = script /\ r.left = Plan(script)
      /\ r.step \in {"check", "read"} /\ r.logic = e.logic /\ r.storage = f.storage
      /\ script = "register_dev_policy" => r.step = "read"
    BY <1>1, <1>2 DEF GovernRun, GovernSteps
<1>4. Start(o, r)
    BY DEF StartGoverning
<1> HIDE DEF r
<1>5. GoverningRun(r, uses, facts)
    <2>1. r.step \notin {"verify", "complete"}
        BY <1>3
    <2>2. script = "setup_dns" => Past(r) = {}
        BY <1>2, <1>3, <2>1 DEF Past
    <2>3. QED BY <1>2, <1>3, <2>1, <2>2 DEF GoverningRun
<1>6. Sound(r, obeys, uses, facts) /\ r.script # "redeploy"
    BY <1>3, <1>5, GovernSound
<1>7. PICK q : q = r
    OBVIOUS
<1>8. QED BY <1>4, <1>6, <1>7, QuietRun DEF Start, chainVars, SetupInv, SetupTypes

LEMMA GovernsOn ==
    ASSUME SetupInv, NEW o \in Operator, Governs(o)
    PROVE  /\ run[o] \in GovernRun /\ GoverningRun(run[o], uses, facts)
           /\ run[o].script \in Governing /\ Fact(o) = run[o].left[1]
BY DEF SetupInv, RunsSound, Sound, Governs, GoverningRun, Fact

\* A governing run that goes on from a state of the chain with what it has got past.
LEMMA GoverningGoesOn ==
    ASSUME SetupInv, NEW o \in Operator, NEW r, run' = [run EXCEPT ![o] = r],
           UNCHANGED <<chainVars, record, exported, unwired>>,
           r = Idle \/ (r \in GovernRun /\ GoverningRun(r, uses, facts))
    PROVE  SetupInv'
<1>1. Sound(r, obeys, uses, facts) /\ r.script # "redeploy"
    BY IdleSound, GovernSound
<1>2. QED BY <1>1, QuietRun DEF chainVars, SetupInv, SetupTypes

LEMMA ReadVersionsKept ==
    ASSUME SetupInv, NEW o \in Operator, NEW unread \in SUBSET GovBody, ReadVersions(o, unread)
    PROVE  SetupInv'
<1> DEFINE r == run[o]
           versions == [b \in GovBody |-> IF CanRead(r.logic) /\ b \notin unread
                                       THEN KeysVersion(r.logic, b) ELSE 0]
           step == IF r.script = "setup_dns" THEN "check" ELSE "submit"
           next == [[r EXCEPT !.version = versions] EXCEPT !.step = step]
<1>1. Governs(o) /\ r.step = "read" /\ UNCHANGED <<chainVars, record, exported, unwired>>
    BY DEF ReadVersions, NoMore
<1>2. r \in GovernRun /\ GoverningRun(r, uses, facts) /\ r.script \in Governing
    BY <1>1, GovernsOn
<1>3. run' = [run EXCEPT ![o] = next]
    BY DEF ReadVersions, SetupInv, SetupTypes
<1>4. versions \in [GovBody -> Nat]
    <2>1. ASSUME NEW b \in GovBody, CanRead(r.logic) PROVE KeysVersion(r.logic, b) \in Nat
        <3>1. uses[r.logic] \in Use
            BY <1>2, <2>1 DEF CanRead, SetupInv, SetupTypes, GovernRun
        <3>2. uses[r.logic].storage \in Address
            BY <3>1 DEF Use
        <3>3. keys[uses[r.logic].storage][b]
                 \in [holder : {"nobody", "deployer", "board"}, version : Nat]
            BY <3>2 DEF SetupInv, SetupTypes
        <3>4. QED BY <3>3 DEF KeysVersion
    <2>2. QED BY <2>1
<1>5. step \in {"check", "submit"} /\ (step = "check" => r.script = "setup_dns")
    OBVIOUS
<1> HIDE DEF versions, step
<1>6. /\ next \in GovernRun /\ next.step = step /\ next.script = r.script
      /\ next.left = r.left /\ next.logic = r.logic /\ next.storage = r.storage
    BY <1>2, <1>4, <1>5 DEF GovernRun, GovernSteps
<1> HIDE DEF next
<1>7. Past(next) = Past(r)
    BY <1>1, <1>5, <1>6 DEF Past
<1>8. GoverningRun(next, uses, facts)
    BY <1>2, <1>5, <1>6, <1>7 DEF GoverningRun
<1>9. PICK q : q = next
    OBVIOUS
<1>10. QED BY <1>1, <1>3, <1>6, <1>8, <1>9, GoverningGoesOn

\* What is past once a fact is settled
LEMMA FactSettled ==
    ASSUME SetupInv, NEW o \in Operator, Governs(o), run[o].step \in {"check", "submit"},
           NEW f2 \in [Address -> SUBSET FactNames],
           \A a \in Address : facts[a] \subseteq f2[a],
           (uses[run[o].logic] = None \/ uses[run[o].logic].storage = run[o].storage) =>
               Fact(o) \in f2[run[o].storage]
    PROVE  AfterFact(o) \in GovernRun /\ GoverningRun(AfterFact(o), uses, f2)
           /\ AfterFact(o).script # "redeploy"
<1> DEFINE r == run[o]
<1>1. /\ r \in GovernRun /\ GoverningRun(r, uses, facts) /\ r.script \in Governing
      /\ Fact(o) = r.left[1] /\ r.storage \in Address
    BY GovernsOn DEF GovernRun
<1>2. r.script = "setup_dns" => r.left \in Setups
    BY <1>1 DEF GoverningRun, Setups
<1>3. CASE Len(r.left) = 1
    <2> DEFINE next == [r EXCEPT !.step = "verify"]
    <2>1. AfterFact(o) = next
        BY <1>3 DEF AfterFact
    <2>2. /\ next \in GovernRun /\ next.step = "verify" /\ next.script = r.script
          /\ next.left = r.left /\ next.logic = r.logic /\ next.storage = r.storage
        BY <1>1 DEF GovernRun, GovernSteps
    <2> HIDE DEF next
    <2>3. ASSUME r.script = "setup_dns" PROVE r.left = <<"dns pointer">> /\ Fact(o) = "dns pointer"
        <3>1. r.left = <<"dns pointer">>
            <4>5. Len(DnsFacts) = 3 /\ Len(<<"dns press", "dns pointer">>) = 2
                BY Plans
            <4>0. \A n : n \in {3, 2} => n # 1
                OBVIOUS
            <4>6. Len(DnsFacts) # 1 /\ Len(<<"dns press", "dns pointer">>) # 1
                BY <4>0, <4>5, Zenon
            <4>1. r.left = DnsFacts \/ r.left = <<"dns press", "dns pointer">>
                  \/ r.left = <<"dns pointer">>
                BY <1>2, <2>3 DEF Setups
            <4>2. r.left # DnsFacts
                BY <1>3, <4>6, Zenon
            <4>3. r.left # <<"dns press", "dns pointer">>
                BY <1>3, <4>6, Zenon
            <4>4. QED BY <4>1, <4>2, <4>3
        <3>2. QED BY <1>1, <3>1, Plans
    <2>4. r.script = "setup_dns" => Past(next) \subseteq Past(r) \cup {Fact(o)}
        BY <2>2, <2>3, Plans DEF Past
    <2>5. GoverningRun(next, uses, f2)
        <3>1. ASSUME r.script = "setup_dns",
                     uses[r.logic] = None \/ uses[r.logic].storage = r.storage
              PROVE  Past(next) \subseteq f2[r.storage]
            BY <1>1, <2>4, <3>1 DEF GoverningRun
        <3>2. QED BY <1>1, <2>2, <2>3, <3>1 DEF GoverningRun
    <2>6. QED BY <1>1, <2>1, <2>2, <2>5 DEF Governing
<1>4. CASE Len(r.left) # 1
    <2> DEFINE next == [[r EXCEPT !.left = Tail(@)] EXCEPT !.step = "check"]
    <2>1. AfterFact(o) = next
        BY <1>1, <1>4 DEF AfterFact, GovernRun
    <2>2. /\ r.script = "setup_dns" /\ r.left \in {DnsFacts, <<"dns press", "dns pointer">>}
        BY <1>1, <1>2, <1>4, Plans DEF GoverningRun, Setups
    <2>3. Tail(r.left) \in {<<"dns press", "dns pointer">>, <<"dns pointer">>}
        BY <2>2, Plans
    <2>4. /\ next \in GovernRun /\ next.step = "check" /\ next.script = r.script
          /\ next.left = Tail(r.left) /\ next.logic = r.logic /\ next.storage = r.storage
        BY <1>1, <2>3 DEF GovernRun, GovernSteps
    <2> HIDE DEF next
    <2>5. Past(next) \subseteq Past(r) \cup {Fact(o)}
        <3>1. CASE r.left = DnsFacts
            <4>1. Past(next) = {"dns policy"} /\ Fact(o) = "dns policy"
                BY <1>1, <2>4, <3>1, Plans DEF Past
            <4>2. QED BY <4>1
        <3>2. CASE r.left = <<"dns press", "dns pointer">>
            <4>1. Past(next) = {"dns policy", "dns press"} /\ Fact(o) = "dns press"
                BY <1>1, <2>4, <3>2, Plans DEF Past
            <4>2. Past(r) = {"dns policy"}
                BY <3>2, Plans DEF Past
            <4>3. QED BY <4>1, <4>2
        <3>3. QED BY <2>2, <3>1, <3>2
    <2>6. GoverningRun(next, uses, f2)
        <3>1. ASSUME uses[r.logic] = None \/ uses[r.logic].storage = r.storage
              PROVE  Past(next) \subseteq f2[r.storage]
            BY <1>1, <2>2, <2>5, <3>1 DEF GoverningRun
        <3>2. QED BY <1>1, <2>2, <2>3, <2>4, <3>1 DEF GoverningRun
    <2>7. QED BY <2>1, <2>2, <2>4, <2>6
<1>5. QED BY <1>3, <1>4

LEMMA CheckKept ==
    ASSUME SetupInv, NEW o \in Operator, NEW read \in BOOLEAN, Check(o, read)
    PROVE  SetupInv'
<1> DEFINE r == run[o]
           found == Found(CheckedIn(o, Fact(o)), Fact(o), read)
<1>1. /\ Governs(o) /\ r.step = "check"
      /\ UNCHANGED <<chainVars, record, exported, unwired>>
      /\ Fact(o) = "dns pointer" /\ ~CanRead(r.logic) => ~read
    BY DEF Check, NoMore
<1>2. /\ r \in GovernRun /\ GoverningRun(r, uses, facts) /\ r.script \in Governing
      /\ Fact(o) = r.left[1] /\ r.storage \in Address /\ r.logic \in Address
    BY <1>1, GovernsOn DEF GovernRun
<1>3. CASE run' = [run EXCEPT ![o] = Idle]
    <2>1. PICK q : q = Idle
        OBVIOUS
    <2>2. QED BY <1>1, <1>3, <2>1, GoverningGoesOn
<1>4. CASE found /\ run' = [run EXCEPT ![o] = AfterFact(o)]
    <2>1. (uses[r.logic] = None \/ uses[r.logic].storage = r.storage) =>
              Fact(o) \in facts[r.storage]
        <3>1. read /\ Fact(o) \in facts[CheckedIn(o, Fact(o))]
            BY <1>4 DEF Found
        <3>2. ASSUME uses[r.logic] = None \/ uses[r.logic].storage = r.storage
              PROVE  CheckedIn(o, Fact(o)) = r.storage
            BY <1>1, <3>1, <3>2 DEF CheckedIn, CanRead
        <3>3. QED BY <3>1, <3>2
    <2>2. facts \in [Address -> SUBSET FactNames]
        BY DEF SetupInv, SetupTypes
    <2>3. AfterFact(o) \in GovernRun /\ GoverningRun(AfterFact(o), uses, facts)
        BY <1>1, <2>1, <2>2, FactSettled
    <2>4. PICK q : q = AfterFact(o)
        OBVIOUS
    <2>5. QED BY <1>1, <1>4, <2>3, <2>4, GoverningGoesOn
<1>5. ASSUME NEW step \in {"read", "submit"}, run' = [run EXCEPT ![o] = [r EXCEPT !.step = step]]
      PROVE  SetupInv'
    <2> DEFINE next == [r EXCEPT !.step = step]
    <2>1. /\ next \in GovernRun /\ next.step = step /\ next.script = r.script
          /\ next.left = r.left /\ next.logic = r.logic /\ next.storage = r.storage
        BY <1>2, <1>5 DEF GovernRun, GovernSteps
    <2>2. run' = [run EXCEPT ![o] = next]
        BY <1>5
    <2> HIDE DEF next
    <2>3. Past(next) = Past(r)
        BY <1>1, <1>5, <2>1 DEF Past
    <2>4. GoverningRun(next, uses, facts)
        BY <1>2, <1>5, <2>1, <2>3 DEF GoverningRun
    <2>5. PICK q : q = next
        OBVIOUS
    <2>6. QED BY <1>1, <2>1, <2>2, <2>4, <2>5, GoverningGoesOn
<1>6. \/ run' = [run EXCEPT ![o] = Idle]
      \/ found /\ run' = [run EXCEPT ![o] = AfterFact(o)]
      \/ \E step \in {"read", "submit"} : run' = [run EXCEPT ![o] = [r EXCEPT !.step = step]]
    <2>1. r.script \in {"authorize_dev_press", "setup_dns"}
        BY <1>1, <1>2 DEF Governing, GoverningRun
    <2>2. CASE r.script = "authorize_dev_press"
        BY <2>2 DEF Check
    <2>3. CASE r.script = "setup_dns"
        BY <2>3 DEF Check
    <2>4. QED BY <2>1, <2>2, <2>3
<1>7. QED BY <1>3, <1>4, <1>5, <1>6

LEMMA SubmitKept ==
    ASSUME SetupInv, NEW o \in Operator, NEW answered \in BOOLEAN, Submit(o, answered)
    PROVE  SetupInv'
<1> DEFINE r == run[o]
           s == uses[r.logic].storage
<1>1. /\ Governs(o) /\ r.step = "submit" /\ uses[r.logic] # None
      /\ facts' = [facts EXCEPT ![s] = @ \cup {Fact(o)}]
      /\ run' = [run EXCEPT ![o] = IF answered THEN AfterFact(o) ELSE Idle]
      /\ UNCHANGED <<contracts, obeys, uses, keys, record, exported, unwired>>
    BY DEF Submit, Admits, Establish, NoMore
<1>2. /\ r \in GovernRun /\ GoverningRun(r, uses, facts) /\ r.script \in Governing
      /\ Fact(o) = r.left[1] /\ r.storage \in Address /\ r.logic \in Address
    BY <1>1, GovernsOn DEF GovernRun
<1>3. Fact(o) \in FactNames
    <2>1. r.left \in {DnsFacts, <<"dns press", "dns pointer">>, <<"dns pointer">>,
                      <<"dev policy">>, <<"dev press">>}
        BY <1>2 DEF GovernRun
    <2>2. <<"dev policy">>[1] = "dev policy" /\ <<"dev press">>[1] = "dev press"
        OBVIOUS
    <2>3. QED BY <1>2, <2>1, <2>2, Plans DEF FactNames
<1>4. s \in Address
    BY <1>1, <1>2 DEF SetupInv, SetupTypes, Use
<1>5. facts' \in [Address -> SUBSET FactNames] /\ Fact(o) \in facts'[s]
      /\ \A a \in Address : facts[a] \subseteq facts'[a]
    BY <1>1, <1>3, <1>4 DEF SetupInv, SetupTypes
<1>6. Grows(obeys, obeys', uses, uses', facts, facts')
    BY <1>1, <1>5 DEF Grows
<1> DEFINE next == IF answered THEN AfterFact(o) ELSE Idle
<1>7. Sound(next, obeys', uses', facts') /\ next.script # "redeploy"
    <2>1. CASE answered
        <3>1. (uses[r.logic] = None \/ uses[r.logic].storage = r.storage) =>
                  Fact(o) \in facts'[r.storage]
            BY <1>1, <1>5
        <3>2. PICK f2 : f2 = facts'
            OBVIOUS
        <3>3. AfterFact(o) \in GovernRun /\ GoverningRun(AfterFact(o), uses, f2)
            BY <1>1, <1>5, <3>1, <3>2, FactSettled
        <3>4. uses' = uses /\ next = AfterFact(o)
            BY <1>1, <2>1
        <3>5. QED BY <3>2, <3>3, <3>4, GovernSound
    <2>2. CASE ~answered
        BY <2>2, <1>6, IdleSound, SoundStays
    <2>3. QED BY <2>1, <2>2
<1>8. run' = [run EXCEPT ![o] = next]
    BY <1>1
<1> HIDE DEF next
<1>9. PICK q : q = next
    OBVIOUS
<1>10. RunsSound' /\ run' \in [Operator -> Run]
    BY <1>1, <1>6, <1>7, <1>8, <1>9, OneRun
<1>11. RecordIsWired'
    BY <1>1, <1>6, RecordStays
<1>12. QED BY <1>1, <1>5, <1>10, <1>11, SMTT(30) DEF SetupInv, SetupTypes

LEMMA VerifyKept ==
    ASSUME SetupInv, NEW o \in Operator, NEW read \in BOOLEAN, Verify(o, read)
    PROVE  SetupInv'
<1> DEFINE r == run[o]
           next == [r EXCEPT !.step = "complete"]
<1>1. /\ Governs(o) /\ r.step = "verify"
      /\ UNCHANGED <<chainVars, record, exported, unwired>>
      /\ run' = [run EXCEPT ![o] = next] \/ run' = [run EXCEPT ![o] = Idle]
    BY DEF Verify, NoMore
<1>2. /\ r \in GovernRun /\ GoverningRun(r, uses, facts)
    BY <1>1, GovernsOn
<1>3. /\ next \in GovernRun /\ next.step = "complete" /\ next.script = r.script
      /\ next.left = r.left /\ next.logic = r.logic /\ next.storage = r.storage
    BY <1>2 DEF GovernRun, GovernSteps
<1> HIDE DEF next
<1>4. Past(next) = Past(r)
    BY <1>1, <1>3 DEF Past
<1>5. GoverningRun(next, uses, facts)
    BY <1>2, <1>3, <1>4 DEF GoverningRun
<1>6. PICK q : q = next
    OBVIOUS
<1>7. QED BY <1>1, <1>3, <1>5, <1>6, GoverningGoesOn

-----------------------------------------------------------------------------
(* Rotation                                                                  *)

LEMMA RotateSound ==
    ASSUME NEW r \in RotateRun, NEW o1, NEW u1, NEW f1
    PROVE  Sound(r, o1, u1, f1) /\ r.script # "redeploy"
BY DEF RotateRun, Sound, Run, Deploying, GoverningRun, RotateSteps, DeploySteps, WireSteps,
   Governing

LEMMA RotationKept ==
    ASSUME SetupInv, NEW o \in Operator,
           \/ \E e \in exported, b \in GovBody : StartRotation(o, e.logic, b)
           \/ ReadKeyset(o) \/ Rotate(o)
    PROVE  SetupInv'
<1>1. ASSUME NEW e \in exported, NEW b \in GovBody, StartRotation(o, e.logic, b)
      PROVE  SetupInv'
    <2> DEFINE r == [script |-> "rotate", logic |-> e.logic, body |-> b, version |-> 0,
                     step |-> "read keyset"]
    <2>1. e.logic \in Address
        BY DEF SetupInv, SetupTypes, Addresses
    <2>2. r \in RotateRun
        BY <2>1 DEF RotateRun, RotateSteps
    <2>3. Start(o, r)
        BY <1>1 DEF StartRotation
    <2> HIDE DEF r
    <2>4. Sound(r, obeys, uses, facts) /\ r.script # "redeploy"
        BY <2>2, RotateSound
    <2>5. PICK q : q = r
        OBVIOUS
    <2>6. QED BY <2>3, <2>4, <2>5, QuietRun DEF Start, chainVars, SetupInv, SetupTypes
<1>2. CASE ReadKeyset(o)
    <2> DEFINE r == run[o]
               n == KeysVersion(r.logic, r.body)
               next == [[r EXCEPT !.version = n] EXCEPT !.step = "rotate"]
    <2>1. /\ r.step = "read keyset" /\ CanRead(r.logic)
          /\ UNCHANGED <<chainVars, record, exported, unwired>>
        BY <1>2 DEF ReadKeyset, NoMore
    <2>2. run' = [run EXCEPT ![o] = next]
        BY <1>2 DEF ReadKeyset, SetupInv, SetupTypes
    <2>3. r \in RotateRun
        BY <2>1, RunKinds DEF RotateSteps, SetupInv, SetupTypes
    <2>4. n \in Nat
        <3>1. r.logic \in Address /\ r.body \in GovBody
            BY <2>3 DEF RotateRun
        <3>2. uses[r.logic] \in Use
            BY <2>1, <3>1 DEF CanRead, SetupInv, SetupTypes
        <3>3. uses[r.logic].storage \in Address
            BY <3>2 DEF Use
        <3>4. keys[uses[r.logic].storage][r.body]
                  \in [holder : {"nobody", "deployer", "board"}, version : Nat]
            BY <3>1, <3>3 DEF SetupInv, SetupTypes
        <3>5. QED BY <3>4 DEF KeysVersion
    <2> HIDE DEF n
    <2>5. next \in RotateRun
        BY <2>3, <2>4 DEF RotateRun, RotateSteps
    <2> HIDE DEF next
    <2>6. Sound(next, obeys, uses, facts) /\ next.script # "redeploy"
        BY <2>5, RotateSound
    <2>7. PICK q : q = next
        BY SMTT(30)
    <2>8. QED BY <2>1, <2>2, <2>6, <2>7, QuietRun DEF chainVars, SetupInv, SetupTypes
<1>3. CASE Rotate(o)
    <2> DEFINE r == run[o]
               s == uses[r.logic].storage
    <2>1. /\ r.step = "rotate" /\ uses[r.logic] # None
          /\ keys' = [keys EXCEPT ![s][r.body] = [holder |-> "board", version |-> @.version + 1]]
          /\ run' = [run EXCEPT ![o] = Idle]
          /\ UNCHANGED <<contracts, obeys, uses, facts, record, exported, unwired>>
        BY <1>3 DEF Rotate, Admits, HandOver, NoMore
    <2>2. r.logic \in Address /\ r.body \in GovBody
        <3>1. r \in RotateRun
            BY <2>1, RunKinds DEF RotateSteps, SetupInv, SetupTypes
        <3>2. QED BY <3>1 DEF RotateRun
    <2>3. s \in Address
        BY <2>1, <2>2 DEF SetupInv, SetupTypes, Use
    <2>4. keys' \in [Address ->
                 [GovBody -> [holder : {"nobody", "deployer", "board"}, version : Nat]]]
        <3> DEFINE K == [holder : {"nobody", "deployer", "board"}, version : Nat]
        <3>1. keys \in [Address -> [GovBody -> K]]
            BY DEF SetupInv, SetupTypes
        <3>2. keys[s][r.body] \in K
            BY <2>2, <2>3, <3>1, SMTT(30)
        <3>3. keys[s][r.body].version + 1 \in Nat
            BY <3>2, SMTT(30)
        <3>4. [holder |-> "board", version |-> keys[s][r.body].version + 1] \in K
            BY <3>3, ZenonT(60)
        <3> HIDE DEF K
        <3>5. keys' \in [Address -> [GovBody -> K]]
            BY <2>1, <3>1, <3>4
        <3>6. QED BY <3>5 DEF K
    <2>5. Grows(obeys, obeys', uses, uses', facts, facts')
        BY <2>1 DEF Grows
    <2>6. Sound(Idle, obeys', uses', facts') /\ Idle.script = "none"
        <3>1. obeys' = obeys /\ uses' = uses /\ facts' = facts
            BY <2>1, ZenonT(60)
        <3>2. QED BY <3>1, IdleSound
    <2>7. RunsSound' /\ run' \in [Operator -> Run]
        BY <2>1, <2>5, <2>6, OneRun
    <2>8. RecordIsWired'
        BY <2>1, <2>5, RecordStays
    <2>9. UNCHANGED <<contracts, obeys, uses, facts, record, exported, unwired>>
        BY <2>1
    <2>10. DOMAIN run' = Operator
        BY <2>7
    <2>11. SetupTypes'
        BY <2>4, <2>7, <2>9, <2>10 DEF SetupInv, SetupTypes
    <2>12. QED BY <2>7, <2>8, <2>11, ZenonT(60) DEF SetupInv
<1>4. QED BY <1>1, <1>2, <1>3

LEMMA SetupInvNext == SetupInv /\ [SetupNext]_setupVars => SetupInv'
<1> SUFFICES ASSUME SetupInv, [SetupNext]_setupVars PROVE SetupInv'
    OBVIOUS
<1>1. ASSUME NEW o \in Operator, Operate(o) PROVE SetupInv'
    BY <1>1, Stopped, DeployStarts, DeployKept, VerifiedWiring, WrittenRecord, RotationKept,
        WiredStorage, WiredLogic, CheckKept, SubmitKept, VerifyKept, StartsGoverning,
        ReadVersionsKept DEF Operate
<1>2. CASE UNCHANGED setupVars
    BY <1>2 DEF setupVars, chainVars, SetupInv, SetupTypes, RunsSound, RecordIsWired
<1>3. QED BY <1>1, <1>2 DEF SetupNext

LEMMA SetupInvInit == SetupInit => SetupInv
<1> SUFFICES ASSUME SetupInit PROVE SetupInv
    OBVIOUS
<1>1. \A o \in Operator : run[o] = Idle
    BY DEF SetupInit
<1>2. RunsSound
    BY <1>1, IdleSound DEF RunsSound
<1>3. Idle \in Run
    BY DEF Run
<1>4. keys \in [Address -> [GovBody -> [holder : {"nobody", "deployer", "board"}, version : Nat]]]
    BY DEF SetupInit
<1>5. QED
    <2>1. contracts \in 0..MaxContracts /\ obeys \in [Address -> {0} \cup Address]
        BY SetupAssumption DEF SetupInit
    <2>2. uses \in [Address -> {None} \cup Use] /\ facts \in [Address -> SUBSET FactNames]
        BY DEF SetupInit
    <2>3. DOMAIN run = Operator /\ run \in [Operator -> Run]
        BY <1>3 DEF SetupInit
    <2>4. /\ record \in {None} \cup Addresses /\ exported \subseteq Addresses
          /\ unwired \in BOOLEAN /\ RecordIsWired
        BY DEF SetupInit, RecordIsWired
    <2>5. QED BY <1>2, <1>4, <2>1, <2>2, <2>3, <2>4 DEF SetupInv, SetupTypes

\* Whatever operators run at once, the addresses the record of deployments has are wired
\* together (deploy.sh and redeploy_logic.sh write it last), and a setup_dns.sh that ends
\* complete leaves policy, press and pointer in the registry it was pointed at.
THEOREM SetupsAreSound == SetupSpec => []SetupIsSound
<1>1. SetupInv => SetupIsSound
    <2> SUFFICES ASSUME SetupInv PROVE SetupIsSound
        OBVIOUS
    <2>1. ASSUME NEW o \in Operator, run[o].script = "setup_dns", run[o].step = "complete",
                 uses[run[o].logic].storage = run[o].storage
          PROVE  {DnsFacts[i] : i \in 1..3} \subseteq facts[run[o].storage]
        <3>1. GoverningRun(run[o], uses, facts)
            BY DEF SetupInv, RunsSound, Sound
        <3>2. Past(run[o]) \subseteq facts[run[o].storage]
            BY <2>1, <3>1 DEF GoverningRun, Governing
        <3>3. Past(run[o]) = {"dns policy", "dns press", "dns pointer"}
            BY <2>1 DEF Past
        <3>4. {DnsFacts[i] : i \in 1..3} \subseteq {"dns policy", "dns press", "dns pointer"}
            <4>1. \A i \in 1..3 : i = 1 \/ i = 2 \/ i = 3
                OBVIOUS
            <4>2. DnsFacts[1] = "dns policy" /\ DnsFacts[2] = "dns press"
                  /\ DnsFacts[3] = "dns pointer"
                BY DEF DnsFacts
            <4>3. QED BY <4>1, <4>2
        <3>5. QED BY <3>2, <3>3, <3>4
    <2>2. QED BY <2>1 DEF SetupIsSound, SetupIsWhole, SetupInv
<1>2. QED BY <1>1, SetupInvInit, SetupInvNext, PTL DEF SetupSpec
=============================================================================
