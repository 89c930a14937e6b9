---------------------------- MODULE ObliviousPath ----------------------------
(***************************************************************************)
(* How a device reaches its wallet service and the presses without showing    *)
(* them its address (app-sdk/.../transport/ObliviousProtocolTransport,         *)
(* crypto/hpke; relay/src/routes/ohttp, utils/oblivious_targets;              *)
(* wallet-service/src/ohttp-gateway, ohttp-router; press/src/ohttp-gateway,   *)
(* ohttp-router).  The device seals a request to the key the destination       *)
(* publishes, the relay passes it on unread, and the destination's gateway     *)
(* opens it, hands it to the route's own handler and seals the answer.         *)
(*                                                                         *)
(* The press takes its key from its configuration.  The wallet service makes   *)
(* one the first time it is asked and stores it; each of its instances keeps    *)
(* it, or the failure to get it, for as long as it runs.                       *)
(***************************************************************************)
EXTENDS Naturals, FiniteSets

CONSTANTS
    Call,           \* requests a device makes
    DestOf,         \* per request: where it goes
    Bypassed,       \* the requests sent directly, such as public reads
    Known,          \* the requests whose method and path the gateway knows
    Instance,       \* processes of the wallet service
    Key,            \* HPKE key pairs
    Ttl,            \* keyConfigTtlMs: the ticks a key configuration is kept
    MaxFaults,      \* crashes, rotations and losses
    Unset

Wallet == "wallet_service"
Press == "press"
Destination == {Wallet, Press}

ASSUME PathAssumption ==
    /\ DestOf \in [Call -> Destination]
    /\ Ttl \in Nat \ {0}
    /\ Unset \notin Key

VARIABLES
    stored,         \* KV_KEY: the wallet service's key pair, Unset before the first
    holding,        \* per instance: its cachedKeyPromise
    published,      \* the keys that the wallet service has given out
    rivals,         \* the keys made while an instance was about to store another
    pressKey,       \* PRESS_OHTTP_PRIVATE_KEY
    pressReady,     \* isPressReady
    cache,          \* per destination: the device's key configuration
    call,           \* per request: how far it has come
    pathFaults

walletKeyVars == <<stored, holding, published, rivals>>
pressKeyVars == <<pressKey, pressReady>>
pathVars == <<walletKeyVars, pressKeyVars, cache, call, pathFaults>>

Holding == [step : {"none", "reading", "storing", "ready", "failed"}, key : Key \cup {Unset}]
Config == [key : Key, age : 0..Ttl]
AtDevice == {"idle", "fetch", "config", "done", "failed"}
Travelling == {"sealed", "answered"}
AtGateway == {"arrived", "opened", "plain"}
CallState == [step : AtDevice \cup Travelling \cup AtGateway, key : Key \cup {Unset},
              at : Instance \cup {Unset}]

PathTypeOK ==
    /\ stored \in Key \cup {Unset}
    /\ holding \in [Instance -> Holding]
    /\ published \subseteq Key /\ rivals \subseteq Key
    /\ pressKey \in Key /\ pressReady \in BOOLEAN
    /\ cache \in [Destination -> Config \cup {Unset}]
    /\ call \in [Call -> CallState]
    /\ pathFaults \in Nat

NoKey == [step |-> "none", key |-> Unset]
Fresh(k) ==
    /\ k # stored /\ k # pressKey /\ k \notin published
    /\ \A i \in Instance : holding[i].key # k
PathInit ==
    /\ stored = Unset
    /\ holding = [i \in Instance |-> NoKey]
    /\ published = {} /\ rivals = {}
    /\ pressKey \in Key /\ pressReady = TRUE
    /\ cache = [d \in Destination |-> Unset]
    /\ call = [r \in Call |-> [step |-> "idle", key |-> Unset, at |-> Unset]]
    /\ pathFaults = 0

Fault == pathFaults < MaxFaults /\ pathFaults' = pathFaults + 1
Move(r, step) == call' = [call EXCEPT ![r].step = step]
Seal(r, k) == call' = [call EXCEPT ![r] = [step |-> "sealed", key |-> k, at |-> Unset]]

-----------------------------------------------------------------------------
(* The wallet service's key pair: getOrCreateKeypair                          *)

Hold(i, step, k) == holding' = [holding EXCEPT ![i] = [step |-> step, key |-> k]]

\* An instance that is asked for the key for the first time looks for the stored one.
LookForKey(i) ==
    /\ holding[i].step = "none"
    /\ \E r \in Call : DestOf[r] = Wallet /\ call[r].step \in {"fetch", "arrived"}
                       /\ call[r].at = i
    /\ Hold(i, "reading", Unset)
    /\ UNCHANGED <<stored, published, rivals, pressKeyVars, cache, call, pathFaults>>

\* Mutant: the new key is used before it is stored.
UseThenStore(i) ==
    /\ holding[i].step = "reading"
    /\ IF stored # Unset THEN Hold(i, "ready", stored)
       ELSE \E k \in Key : Fresh(k) /\ Hold(i, "ready", k)
    /\ UNCHANGED <<stored, published, rivals, pressKeyVars, cache, call, pathFaults>>

\* Nothing keeps another instance from finding none either, and making its own.
BeingStored == {holding[i].key : i \in {j \in Instance : holding[j].step = "storing"}}
Rivalry(k) == IF BeingStored = {} THEN {} ELSE BeingStored \cup {k}
ReadOrMakeKey(i) ==
    /\ holding[i].step = "reading"
    /\ \/ /\ stored # Unset
          /\ Hold(i, "ready", stored) /\ UNCHANGED rivals
       \/ /\ stored = Unset
          /\ \E k \in Key : /\ Fresh(k) /\ Hold(i, "storing", k)
                            /\ rivals' = rivals \cup Rivalry(k)
    /\ UNCHANGED <<stored, published, pressKeyVars, cache, call, pathFaults>>

StoreKey(i) ==
    /\ holding[i].step = "storing"
    /\ stored' = holding[i].key
    /\ Hold(i, "ready", holding[i].key)
    /\ UNCHANGED <<published, rivals, pressKeyVars, cache, call, pathFaults>>

\* The store or the secrets backend fails: the failure is what the instance keeps.
KeyFails(i) ==
    /\ holding[i].step \in {"reading", "storing"}
    /\ Hold(i, "failed", Unset)
    /\ Fault
    /\ UNCHANGED <<stored, published, rivals, pressKeyVars, cache, call>>

-----------------------------------------------------------------------------
(* The device: HpkeObliviousProtocolTransport                                 *)

\* Mutant: a key configuration is kept for good.
Kept(d) == cache[d] # Unset
\* getKeyConfig: the configuration at hand, while its time is not over.
Current(d) == cache[d] # Unset /\ cache[d].age < Ttl

\* request, and again where it failed: directly; or with the key configuration at hand,
\* or after fetching one from an instance of the destination.
Request(r) ==
    LET d == DestOf[r] IN
    /\ call[r].step \in {"idle", "failed"}
    /\ \/ /\ r \in Bypassed
          /\ Move(r, "plain")
       \/ /\ r \notin Bypassed /\ Current(d)
          /\ Seal(r, cache[d].key)
       \/ /\ r \notin Bypassed /\ ~Current(d)
          /\ \E i \in IF d = Wallet THEN Instance ELSE {Unset} :
                call' = [call EXCEPT ![r] = [step |-> "fetch", key |-> Unset, at |-> i]]
    /\ UNCHANGED <<walletKeyVars, pressKeyVars, cache, pathFaults>>

\* key-config.get
ServeWalletConfig(r) ==
    LET h == holding[call[r].at] IN
    /\ DestOf[r] = Wallet /\ call[r].step = "fetch"
    /\ \/ /\ h.step = "ready"
          /\ call' = [call EXCEPT ![r] = [step |-> "config", key |-> h.key, at |-> Unset]]
          /\ published' = published \cup {h.key}
       \/ /\ h.step = "failed"
          /\ Move(r, "failed")
          /\ UNCHANGED published
    /\ UNCHANGED <<stored, holding, rivals, pressKeyVars, cache, pathFaults>>

ServePressConfig(r) ==
    /\ DestOf[r] = Press /\ call[r].step = "fetch"
    /\ IF pressReady
       THEN call' = [call EXCEPT ![r] = [step |-> "config", key |-> pressKey, at |-> Unset]]
       ELSE Move(r, "failed")
    /\ UNCHANGED <<walletKeyVars, pressKeyVars, cache, pathFaults>>

\* The configuration counts as new when it arrives, and replaces the one at hand.
KeepConfig(r) ==
    /\ call[r].step = "config"
    /\ cache' = [cache EXCEPT ![DestOf[r]] = [key |-> call[r].key, age |-> 0]]
    /\ Seal(r, call[r].key)
    /\ UNCHANGED <<walletKeyVars, pressKeyVars, pathFaults>>

Receive(r) ==
    /\ call[r].step = "answered"
    /\ Move(r, "done")
    /\ UNCHANGED <<walletKeyVars, pressKeyVars, cache, pathFaults>>

Ageing == {d \in Destination : cache[d] # Unset /\ cache[d].age < Ttl}
Age ==
    /\ Ageing # {}
    /\ cache' = [d \in Destination |-> IF d \in Ageing THEN [cache[d] EXCEPT !.age = @ + 1]
                                                       ELSE cache[d]]
    /\ UNCHANGED <<walletKeyVars, pressKeyVars, call, pathFaults>>

-----------------------------------------------------------------------------
(* The relay and the gateways                                                 *)

\* handleOhttpForward: on to the gateway's URL, behind which an instance answers.
ForwardSealed(r) ==
    /\ call[r].step = "sealed"
    /\ \E i \in IF DestOf[r] = Wallet THEN Instance ELSE {Unset} :
          call' = [call EXCEPT ![r].step = "arrived", ![r].at = i]
    /\ UNCHANGED <<walletKeyVars, pressKeyVars, cache, pathFaults>>

\* decapsulate: what is sealed to another key cannot be opened, and the request fails.
OpenAtWallet(r) ==
    LET h == holding[call[r].at] IN
    /\ DestOf[r] = Wallet /\ call[r].step = "arrived"
    /\ h.step \in {"ready", "failed"}
    /\ Move(r, IF h.step = "ready" /\ h.key = call[r].key THEN "opened" ELSE "failed")
    /\ UNCHANGED <<walletKeyVars, pressKeyVars, cache, pathFaults>>

OpenAtPress(r) ==
    /\ DestOf[r] = Press /\ call[r].step = "arrived"
    /\ Move(r, IF pressReady /\ pressKey = call[r].key THEN "opened" ELSE "failed")
    /\ UNCHANGED <<walletKeyVars, pressKeyVars, cache, pathFaults>>

\* dispatch: a handler's refusal and an unknown route are answers too; a handler that
\* throws anything else fails the request.
Dispatch(r) ==
    /\ call[r].step \in {"opened", "plain"}
    /\ \/ Move(r, "answered") /\ UNCHANGED pathFaults
       \/ r \in Known /\ Move(r, "failed") /\ Fault
    /\ UNCHANGED <<walletKeyVars, pressKeyVars, cache>>

-----------------------------------------------------------------------------
(* Faults                                                                    *)

\* A request or an answer is lost; the relay answers 502, or the connection ends.
LoseCall(r) ==
    /\ call[r].step \in {"config"} \cup Travelling
    /\ Move(r, "failed")
    /\ Fault
    /\ UNCHANGED <<walletKeyVars, pressKeyVars, cache>>

Dropped(served) ==
    [r \in Call |-> IF r \in served THEN [call[r] EXCEPT !.step = "failed"] ELSE call[r]]

CrashInstance(i) ==
    /\ holding[i].step # "none"
    /\ Hold(i, "none", Unset)
    /\ call' = Dropped({r \in Call : /\ call[r].step \in {"fetch"} \cup AtGateway
                                     /\ call[r].at = i})
    /\ Fault
    /\ UNCHANGED <<stored, published, rivals, pressKeyVars, cache>>

\* The press is started again, with the key its operator has configured.
RestartPress ==
    /\ pressKey' \in {pressKey} \cup {k \in Key : Fresh(k)}
    /\ pressReady' = FALSE
    /\ call' = Dropped({r \in Call : /\ call[r].step \in {"fetch"} \cup AtGateway
                                     /\ DestOf[r] = Press})
    /\ Fault
    /\ UNCHANGED <<walletKeyVars, cache>>

PressStarts ==
    /\ ~pressReady
    /\ pressReady' = TRUE
    /\ UNCHANGED <<walletKeyVars, pressKey, cache, call, pathFaults>>

-----------------------------------------------------------------------------
CallStep(r) ==
    \/ Request(r) \/ ServeWalletConfig(r) \/ ServePressConfig(r) \/ KeepConfig(r)
    \/ ForwardSealed(r) \/ OpenAtWallet(r) \/ OpenAtPress(r) \/ Dispatch(r)
    \/ Receive(r)
KeyStep(i) == LookForKey(i) \/ ReadOrMakeKey(i) \/ StoreKey(i)
PathNext ==
    \/ \E r \in Call : CallStep(r) \/ LoseCall(r)
    \/ \E i \in Instance : KeyStep(i) \/ KeyFails(i) \/ CrashInstance(i)
    \/ Age \/ RestartPress \/ PressStarts

PathSpec == PathInit /\ [][PathNext]_pathVars

\* Whoever is asked answers, a request that failed is made again, time passes, and a
\* press that is started gets ready.
Pursue(r) == call[r].step # "idle" /\ CallStep(r)
PathFairness ==
    /\ \A r \in Call : WF_pathVars(Pursue(r))
    /\ \A i \in Instance : WF_pathVars(KeyStep(i))
    /\ WF_pathVars(Age) /\ WF_pathVars(PressStarts)

-----------------------------------------------------------------------------
\* The keys that the wallet service has given out, or opens requests with.
InUse == published \cup {holding[i].key : i \in {j \in Instance : holding[j].step = "ready"}}

\* All of them are the stored one, so that what a device sealed can be opened for good,
\* whatever crashes and whenever; unless two instances made the first key at once: then
\* each of them, and the one that is stored in the end, was made in that race
\* (getOrCreateKeypair).
PublishedKeysOpen == InUse \subseteq {stored} \/ (InUse \cup {stored}) \subseteq rivals

\* A request gets its answer in the end although keys are rotated, processes crash and
\* messages are lost: a device does not hang on to a key configuration that is over.
\* The exceptions are an instance of the wallet service that could not get its key, which
\* fails every request until it is started again, and two that have different keys.
Hindered ==
    \/ \E i \in Instance : holding[i].step = "failed"
    \/ \E i, j \in Instance : /\ holding[i].step = "ready" /\ holding[j].step = "ready"
                              /\ holding[i].key # holding[j].key
RequestsGetThrough ==
    \A r \in Call : (call[r].step # "idle") ~> (call[r].step = "done" \/ Hindered)
=============================================================================
