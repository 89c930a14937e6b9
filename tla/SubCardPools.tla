----------------------------- MODULE SubCardPools -----------------------------
(***************************************************************************)
(* The pool of UUIDs that a wallet service keeps for a sub-card: how a device   *)
(* fills it, keeps it filled and gives it up (app-sdk/.../messaging/            *)
(* uuidRegistration, replenishment, uuidDeregistration; wallet-service/src/     *)
(* routes/subcard-uuid-registration, subcard-deregistration,                    *)
(* auth/subcard-uuid-signature, subcard-deregistration-signature,               *)
(* server/db/subcard-action-nonces, uuid-pools).                               *)
(*                                                                         *)
(* Registering and deregistering are signed envelopes with a timestamp and a    *)
(* nonce.  They travel over a path that may deliver them again (ObliviousPath): *)
(* the service honours what is near its timestamp and has a nonce it does not   *)
(* remember, and it forgets nonces after a while.  What becomes of the messages *)
(* the UUIDs are for is in MessageDelivery.                                    *)
(***************************************************************************)
EXTENDS Integers, FiniteSets

CONSTANTS
    SubCard,        \* sub-cards of one device
    Handler,        \* requests the wallet service serves at a time
    Skew,           \* how far the device's clock may be off
    Window,         \* TIMESTAMP_WINDOW_MS
    Stall,          \* the longest a request waits for the chain and IPFS
    Retention,      \* NONCE_RETENTION_HOURS
    Batch,          \* UUIDs registered at a time
    Threshold,      \* the device replenishes at or below it
    MaxTime, MaxSigned, MaxMishaps,
    Vacant

ASSUME PoolsAssumption ==
    /\ Skew \subseteq Int /\ Window \in Nat /\ Stall \in Nat /\ Retention \in Nat
    /\ Batch \in Nat /\ Threshold \in Nat /\ MaxSigned \in Nat

\* A nonce is kept for longer than an envelope can be honoured: from the earliest time
\* its timestamp is accepted to the latest time a request with it is through.
ASSUME RetentionAssumption == Retention >= 2 * Window + Stall

VARIABLES
    now,            \* the service's clock
    signed,         \* the envelopes the device has signed
    underway,       \* those of them that it waits for and that have not arrived
    handler,        \* requests being served
    seen,           \* subcard_action_nonces
    effects,        \* history: how often an envelope has taken effect
    pool,           \* per sub-card: UUIDs the service can use
    onceKnown,      \* sub-cards with rows in uuid_pools
    left,           \* per sub-card: UUIDs that the device believes to be left
    enrolled,       \* sub-cards that the device believes to be registered
    pending,        \* #pending: sub-cards with a replenishment scheduled
    timers,         \* the timers set for them
    stranded,       \* sub-cards whose last request failed
    mishaps

deviceSideVars == <<left, enrolled, pending, timers>>
poolVars == <<pool, onceKnown>>
poolsVars == <<now, signed, underway, handler, seen, effects, poolVars, deviceSideVars,
               stranded, mishaps>>

Id == 1..MaxSigned
Envelope == [id : Id, sub : SubCard, action : {"register", "deregister"}, stamp : Int]
Admitted == [step : {"resolve", "apply"}, envelope : Envelope, since : Int, own : BOOLEAN]
NonceRow == [id : Id, sub : SubCard, action : {"register", "deregister"}, at : Int]

PoolsTypeOK ==
    /\ now \in Int
    /\ signed \subseteq Envelope /\ underway \subseteq signed
    /\ handler \in [Handler -> Admitted \cup {Vacant}]
    /\ seen \subseteq NonceRow
    /\ effects \in [Id -> Nat]
    /\ pool \in [SubCard -> Nat] /\ onceKnown \subseteq SubCard
    /\ left \in [SubCard -> Nat] /\ enrolled \subseteq SubCard
    /\ pending \subseteq SubCard /\ timers \subseteq SubCard
    /\ stranded \subseteq SubCard
    /\ mishaps \in Nat

PoolsInit ==
    /\ now = 0
    /\ signed = {} /\ underway = {}
    /\ handler = [h \in Handler |-> Vacant]
    /\ seen = {}
    /\ effects = [i \in Id |-> 0]
    /\ pool = [s \in SubCard |-> 0] /\ onceKnown = {}
    /\ left = [s \in SubCard |-> 0] /\ enrolled = {}
    /\ pending = {} /\ timers = {} /\ stranded = {}
    /\ mishaps = 0

Mishap == mishaps < MaxMishaps /\ mishaps' = mishaps + 1

-----------------------------------------------------------------------------
(* The device                                                               *)

\* A signature is kept for each replenishment that is scheduled.
SignaturesLeft(scheduled) == Cardinality(signed) + Cardinality(scheduled) < MaxSigned

\* A new envelope: stamped with the device's clock, with a nonce of its own.
Send(s, action) ==
    \E skew \in Skew :
        LET e == [id |-> Cardinality(signed) + 1, sub |-> s, action |-> action,
                  stamp |-> now + skew]
        IN signed' = signed \cup {e} /\ underway' = underway \cup {e}

\* registerCardUuids, for a card that is set up on the device.
Enrol(s) ==
    /\ s \notin enrolled /\ \A e \in underway : e.sub # s
    /\ SignaturesLeft(timers)
    /\ Send(s, "register")
    /\ UNCHANGED <<now, handler, seen, effects, poolVars, deviceSideVars, stranded, mishaps>>

\* reportPoolStatus
Report(s, remaining) ==
    IF remaining <= Threshold /\ s \notin pending
    THEN /\ SignaturesLeft(timers)
         /\ pending' = pending \cup {s} /\ timers' = timers \cup {s}
    ELSE UNCHANGED <<pending, timers>>

\* A message arrives under one of the UUIDs.
TakeMessage(s) ==
    /\ s \in enrolled /\ pool[s] > 0 /\ left[s] > 0
    /\ pool' = [pool EXCEPT ![s] = @ - 1]
    /\ left' = [left EXCEPT ![s] = @ - 1]
    /\ Report(s, left[s] - 1)
    /\ UNCHANGED <<now, signed, underway, handler, seen, effects, onceKnown, enrolled,
                   stranded, mishaps>>

\* Mutant: the entry of a replenishment that fires stays in the map.
FireOnce(s) ==
    /\ s \in timers
    /\ timers' = timers \ {s}
    /\ Send(s, "register")
    /\ UNCHANGED <<now, handler, seen, effects, poolVars, left, enrolled, pending,
                   stranded, mishaps>>

\* The timer of a replenishment fires: onReplenish registers another batch, and nobody
\* waits for it.
FireReplenishment(s) ==
    /\ s \in timers
    /\ timers' = timers \ {s} /\ pending' = pending \ {s}
    /\ Send(s, "register")
    /\ UNCHANGED <<now, handler, seen, effects, poolVars, left, enrolled, stranded, mishaps>>

\* deregisterCardUuids, and cancel for what is scheduled.
GiveUp(s) ==
    /\ s \in enrolled
    /\ SignaturesLeft(timers \ {s})
    /\ timers' = timers \ {s} /\ pending' = pending \ {s}
    /\ Send(s, "deregister")
    /\ UNCHANGED <<now, handler, seen, effects, poolVars, left, enrolled, stranded, mishaps>>

\* What the device makes of an answer to an envelope of its own.
Succeeded(e) ==
    LET s == e.sub IN
    /\ stranded' = stranded \ {s}
    /\ IF e.action = "register"
       THEN /\ left' = [left EXCEPT ![s] = @ + Batch] /\ enrolled' = enrolled \cup {s}
            /\ Report(s, left[s] + Batch)
       ELSE /\ left' = [left EXCEPT ![s] = 0] /\ enrolled' = enrolled \ {s}
            /\ UNCHANGED <<pending, timers>>

Failed(own) ==
    /\ stranded' = stranded \cup own
    /\ UNCHANGED deviceSideVars

-----------------------------------------------------------------------------
(* The wallet service: handleUuidRegistration and handleSubcardDeregistration *)

\* Mutant: a timestamp may lie in the future.
NotTooOld(e) == now <= e.stamp + Window
InWindow(e) == e.stamp - Window <= now /\ now <= e.stamp + Window

\* The envelope's form, its path and its timestamp are looked at on arrival.
Admit(h, e, own) ==
    /\ handler[h] = Vacant
    /\ IF InWindow(e)
       THEN /\ handler' = [handler EXCEPT ![h] = [step |-> "resolve", envelope |-> e,
                                                  since |-> now, own |-> own]]
            /\ UNCHANGED <<deviceSideVars, stranded>>
       ELSE /\ Failed(IF own THEN {e.sub} ELSE {})
            /\ UNCHANGED handler

ReceiveEnvelope(h) ==
    \E e \in underway :
        /\ underway' = underway \ {e}
        /\ Admit(h, e, TRUE)
        /\ UNCHANGED <<now, signed, seen, effects, poolVars, mishaps>>

\* It arrives once more, whoever sends it.
ReceiveCopy(h) ==
    \E e \in signed :
        /\ Admit(h, e, FALSE)
        /\ Mishap
        /\ UNCHANGED <<now, signed, underway, seen, effects, poolVars>>

Own(h) == IF handler[h].own THEN {handler[h].envelope.sub} ELSE {}
Leave(h) == handler' = [handler EXCEPT ![h] = Vacant]

\* The chain or IPFS does not give the sub-card's key.
ResolvingFails(h) ==
    /\ handler[h] # Vacant /\ handler[h].step = "resolve"
    /\ Leave(h)
    /\ Failed(Own(h))
    /\ Mishap
    /\ UNCHANGED <<now, signed, underway, seen, effects, poolVars>>

Remembered(e) == \E n \in seen : n.id = e.id /\ n.sub = e.sub /\ n.action = e.action

\* recordSubcardActionNonceIfNew, when the signature has been verified: one statement.
RecordNonceIfNew(h) ==
    LET e == handler[h].envelope IN
    /\ handler[h] # Vacant /\ handler[h].step = "resolve"
    /\ IF Remembered(e)
       THEN /\ Leave(h)
            /\ Failed(Own(h))
            /\ UNCHANGED seen
       ELSE /\ seen' = seen \cup
                    {[id |-> e.id, sub |-> e.sub, action |-> e.action, at |-> now]}
            /\ handler' = [handler EXCEPT ![h].step = "apply"]
            /\ UNCHANGED <<deviceSideVars, stranded>>
    /\ UNCHANGED <<now, signed, underway, effects, poolVars, mishaps>>

\* registerUuids, or consumeAllForSubcard where there are rows.
Change(e) ==
    IF e.action = "register"
    THEN /\ pool' = [pool EXCEPT ![e.sub] = @ + Batch]
         /\ onceKnown' = onceKnown \cup {e.sub}
    ELSE /\ pool' = IF e.sub \in onceKnown THEN [pool EXCEPT ![e.sub] = 0] ELSE pool
         /\ UNCHANGED onceKnown

\* The change is made and answered; the answer may be lost.
Apply(h) ==
    LET e == handler[h].envelope
        done == e.action = "register" \/ e.sub \in onceKnown
    IN
    /\ handler[h] # Vacant /\ handler[h].step = "apply"
    /\ Leave(h)
    /\ Change(e)
    /\ effects' = [effects EXCEPT ![e.id] = @ + 1]
    /\ \/ /\ IF handler[h].own /\ done THEN Succeeded(e) ELSE Failed(Own(h))
          /\ UNCHANGED mishaps
       \/ handler[h].own /\ Failed(Own(h)) /\ Mishap
    /\ UNCHANGED <<now, signed, underway, seen>>

\* claimNextUuid for a message that the relay does not take: the UUID is used up, and
\* the device does not hear of it.
WasteUuid(s) ==
    /\ pool[s] > 0
    /\ pool' = [pool EXCEPT ![s] = @ - 1]
    /\ Mishap
    /\ UNCHANGED <<now, signed, underway, handler, seen, effects, onceKnown,
                   deviceSideVars, stranded>>

Expired(n) == n.at < now - Retention
\* pruneOldSubcardActionNonces
PruneActionNonces ==
    /\ \E n \in seen : Expired(n)
    /\ seen' = {n \in seen : ~Expired(n)}
    /\ UNCHANGED <<now, signed, underway, handler, effects, poolVars, deviceSideVars,
                   stranded, mishaps>>

-----------------------------------------------------------------------------
\* A request is lost on its way.
LoseEnvelope ==
    \E e \in underway :
        /\ underway' = underway \ {e}
        /\ Failed({e.sub})
        /\ Mishap
        /\ UNCHANGED <<now, signed, handler, seen, effects, poolVars>>

\* The service stops and starts again: a nonce may be spent without an effect.
StopService ==
    /\ \E h \in Handler : handler[h] # Vacant
    /\ handler' = [h \in Handler |-> Vacant]
    /\ Failed(UNION {Own(h) : h \in {g \in Handler : handler[g] # Vacant}})
    /\ Mishap
    /\ UNCHANGED <<now, signed, underway, seen, effects, poolVars>>

\* No request waits for the chain and IPFS for longer than Stall.
Pass ==
    /\ now < MaxTime
    /\ \A h \in Handler :
          handler[h] # Vacant /\ handler[h].step = "resolve" => now < handler[h].since + Stall
    /\ now' = now + 1
    /\ UNCHANGED <<signed, underway, handler, seen, effects, poolVars, deviceSideVars,
                   stranded, mishaps>>

PoolsNext ==
    \/ \E s \in SubCard :
          Enrol(s) \/ TakeMessage(s) \/ FireReplenishment(s) \/ GiveUp(s) \/ WasteUuid(s)
    \/ \E h \in Handler :
          \/ ReceiveEnvelope(h) \/ ReceiveCopy(h)
          \/ ResolvingFails(h) \/ RecordNonceIfNew(h) \/ Apply(h)
    \/ PruneActionNonces \/ LoseEnvelope \/ StopService \/ Pass

PoolsSpec == PoolsInit /\ [][PoolsNext]_poolsVars

\* Timers fire, what is under way arrives, and what is served is answered.
PoolsFairness ==
    /\ \A s \in SubCard : WF_poolsVars(FireReplenishment(s))
    /\ WF_poolsVars(\E h \in Handler : ReceiveEnvelope(h))
    /\ \A h \in Handler : WF_poolsVars(RecordNonceIfNew(h) \/ Apply(h))

-----------------------------------------------------------------------------
\* An envelope takes effect once, however often it arrives, whatever waits for what,
\* and although the service forgets its nonce: a registration or a deregistration that
\* is sent again later changes nothing.
HonouredOnce == \A i \in Id : effects[i] <= 1

Low(s) == s \in enrolled /\ left[s] <= Threshold

\* The device replenishes a pool that runs low, as often as it runs low; unless a
\* request of its own has failed, which nobody makes again.
LowPoolsRefilled == \A s \in SubCard : Low(s) ~> (~Low(s) \/ s \in stranded)
=============================================================================
