--------------------------- MODULE MessageDelivery ---------------------------
(***************************************************************************)
(* Messages on their way from a wallet service through the relay to devices. *)
(* A device (app-sdk/.../messaging) gets UUIDs from the relay, registers them  *)
(* with its wallet service, takes in what arrives over its stream, its         *)
(* WebSocket or GET /pending, and acknowledges what it has stored.             *)
(*                                                                         *)
(* The supply of UUIDs is endless: one that nothing refers to any more stands  *)
(* for a new one.                                                             *)
(***************************************************************************)
EXTENDS WalletMessages

CONSTANT MaxCount       \* UUIDs asked for at a time

ASSUME DeviceAssumption == MaxCount \in Nat \ {0}

VARIABLES
    generation,     \* per device: the credential it holds, 0 before the first
    uuids,          \* per device: the UUIDs the relay gave it
    history,        \* per device: the messages it has stored
    toAck           \* per device: UUIDs of stored messages, not acknowledged

deviceVars == <<generation, uuids, history, toAck>>
allVars == <<relayVars, walletVars, deviceVars>>

DeliveryTypeOK ==
    /\ RelayTypeOK /\ WalletTypeOK
    /\ generation \in [Device -> 0..MaxUpsets + 1]
    /\ uuids \in [Device -> SUBSET Uuid]
    /\ history \in [Device -> SUBSET Msg]
    /\ toAck \in [Device -> SUBSET Uuid]

DeliveryInit ==
    /\ RelayInit /\ WalletInit
    /\ generation = [d \in Device |-> 0]
    /\ uuids = [d \in Device |-> {}]
    /\ history = [d \in Device |-> {}]
    /\ toAck = [d \in Device |-> {}]

CredentialOf(d) == <<d, generation[d]>>

\* Nothing refers to u, which is used up or never reached a device: it may be the
\* next one that the relay makes.
Carried(blobs) == {b[1] : b \in blobs}
Fresh(u) ==
    /\ \/ status[u] \in {"absent", "consumed"}
       \/ status[u] = "unused" /\ pool[u] = Nil /\ \A d \in Device : u \notin uuids[d]
    /\ u \notin deletes \cup clearing
    /\ delivery[u].phase \in Answered
    /\ \A c \in Credential : u \notin Carried(messages[c])
    /\ \A d \in Device : u \notin Carried(received[d]) \cup toAck[d]
    /\ pool[u] # Nil => pool[u].consumed
    /\ \A w \in Worker : worker[w].uuid # u
    /\ \A m \in Held : deliveryUuid[m] # u
    /\ \A s \in Socket : socket[s].uuid = u => socket[s].phase = "over"

-----------------------------------------------------------------------------
(* The device                                                               *)

\* POST /register; a device whose credential is refused bootstraps another.  The
\* answer may be lost, or Redis may fail on the way.
GetUuids(d, fresh) ==
    LET next == IF CredentialOf(d) \in credentials THEN generation[d] ELSE generation[d] + 1
    IN
    /\ fresh # {} /\ Cardinality(fresh) <= MaxCount
    /\ \A u \in fresh : Fresh(u)
    /\ Register(<<d, next>>, fresh)
    /\ delivery' = [u \in Uuid |-> IF u \in fresh THEN [phase |-> "none", msg |-> Nil]
                                                  ELSE delivery[u]]
    /\ pool' = [u \in Uuid |-> IF u \in fresh THEN Nil ELSE pool[u]]
    /\ \/ /\ generation' = [generation EXCEPT ![d] = next]
          /\ uuids' = [e \in Device |-> (uuids[e] \ fresh) \cup (IF e = d THEN fresh ELSE {})]
          /\ Smooth
       \/ /\ uuids' = [e \in Device |-> uuids[e] \ fresh]
          /\ UNCHANGED generation
          /\ Upset
    /\ UNCHANGED <<queue, cleared, deliveryUuid, worker, history, toAck>>

\* registerCardUuids
RegisterCardUuids(d, w, chosen) ==
    /\ chosen # {} /\ chosen \subseteq uuids[d] /\ Cardinality(chosen) <= MaxCount
    /\ RegisterUuids(w, d, chosen)
    /\ UNCHANGED <<relayVars, deviceVars>>

\* deregisterCardUuids
DeregisterCardUuids(d) ==
    /\ ConsumePool(d)
    /\ Upset
    /\ UNCHANGED <<redis, clearing, delivery, connections, received, queue, cleared,
                   deliveryUuid, worker, deviceVars>>

\* Thirty days later a UUID that was not needed is of no use any more, to the
\* relay nor to the wallet service; no request takes that long.
UuidExpires(u) ==
    /\ pool[u] # Nil /\ ~pool[u].consumed
    /\ delivery[u].phase \in Answered
    /\ \A w \in Worker : worker[w] = Idle
    /\ pool' = [pool EXCEPT ![u].consumed = TRUE]
    /\ status' = [status EXCEPT ![u] = "absent"]
    /\ UNCHANGED <<issuedTo, credentials, messages, deletes, clearing, delivery, connections,
                   received, upsets, queue, cleared, deliveryUuid, worker, deviceVars>>

\* openCardWebSocket, with a UUID of the device; openDeviceSse.
OpenConnection(d, s) ==
    /\ \/ \E u \in uuids[d] : OpenSocket(s, "ws", u, CredentialOf(d))
       \/ OpenSocket(s, "sse", Nil, CredentialOf(d))
    /\ UNCHANGED <<walletVars, deviceVars>>

FetchPending(d) ==
    /\ Pending(CredentialOf(d))
    /\ UNCHANGED <<walletVars, deviceVars>>

\* Mutant: what cannot be verified is acknowledged like the rest.
HandleInboundAckAll(d) ==
    \E b \in received[d] :
        /\ received' = [received EXCEPT ![d] = @ \ {b}]
        /\ toAck' = [toAck EXCEPT ![d] = @ \cup {b[1]}]
        /\ \/ history' = [history EXCEPT ![d] = @ \cup {b[2]}] /\ Smooth
           \/ UNCHANGED history /\ Upset
        /\ UNCHANGED <<redis, clearing, delivery, connections, walletVars, generation, uuids>>

\* handleInboundRoutingEnvelope: a message is stored once under its id.  When its
\* signatures cannot be verified just now it is dropped, and not acknowledged.
HandleInbound(d) ==
    \E b \in received[d] :
        /\ received' = [received EXCEPT ![d] = @ \ {b}]
        /\ \/ /\ history' = [history EXCEPT ![d] = @ \cup {b[2]}]
              /\ toAck' = [toAck EXCEPT ![d] = @ \cup {b[1]}]
              /\ Smooth
           \/ /\ UNCHANGED <<history, toAck>>
              /\ Upset
        /\ UNCHANGED <<redis, clearing, delivery, connections, walletVars, generation, uuids>>

\* ack: the request arrives, or it is lost.
SendAck(d) ==
    \E u \in toAck[d] :
        /\ toAck' = [toAck EXCEPT ![d] = @ \ {u}]
        /\ \/ Ack(CredentialOf(d), u)
           \/ Upset /\ UNCHANGED <<redis, clearing, delivery, connections, received>>
        /\ UNCHANGED <<walletVars, generation, uuids, history>>

\* The application ends: what it stored stays.
RestartApp(d) ==
    /\ Upset
    /\ received' = [received EXCEPT ![d] = {}]
    /\ toAck' = [toAck EXCEPT ![d] = {}]
    /\ UNCHANGED <<redis, clearing, delivery, connections, walletVars, generation, uuids, history>>

-----------------------------------------------------------------------------
(* Wallet clearance: DELETE {wallet_url}/messages/{uuid}                     *)

PollDeletes ==
    /\ \E due \in SUBSET deletes : DequeueDeletes(due)
    /\ UNCHANGED <<walletVars, deviceVars>>

ExecuteDelete(u) ==
    /\ u \in clearing
    /\ \/ ClearMessage(u) /\ Settle(u)
       \/ (ClearMessage(u) \/ UNCHANGED cleared) /\ Requeue(u)
    /\ UNCHANGED <<queue, deliveryUuid, pool, worker, deviceVars>>

-----------------------------------------------------------------------------

RelayStep ==
    \/ \E u \in Uuid : Deliver(u)
    \/ \E s \in Socket : Connect(s)
    \/ RestartRelay \/ LoseRedis \/ Expire

DeliveryNext ==
    \/ RelayStep /\ UNCHANGED <<walletVars, deviceVars>>
    \/ \E w \in Worker :
          /\ DeliverMessage(w) \/ \E m \in Msg : CreateMessage(w, m)
          /\ UNCHANGED deviceVars
    \/ RestartWallet /\ UNCHANGED deviceVars
    \/ \E d \in Device :
          \/ \E chosen \in SUBSET Uuid :
                GetUuids(d, chosen) \/ \E w \in Worker : RegisterCardUuids(d, w, chosen)
          \/ DeregisterCardUuids(d)
          \/ \E s \in Socket : OpenConnection(d, s)
          \/ FetchPending(d) \/ HandleInbound(d) \/ SendAck(d) \/ RestartApp(d)
    \/ PollDeletes
    \/ \E u \in Uuid : ExecuteDelete(u) \/ UuidExpires(u)

DeliverySpec == DeliveryInit /\ [][DeliveryNext]_allVars

\* Requests that are being served go on; a device fetches what is pending when it
\* wakes, works off what has arrived and acknowledges it; the deletes are polled.
FairDeliverySpec ==
    /\ DeliverySpec
    /\ \A u \in Uuid : /\ WF_allVars(Deliver(u) /\ UNCHANGED <<walletVars, deviceVars>>)
                       /\ WF_allVars(ExecuteDelete(u))
    /\ \A w \in Worker : WF_allVars(DeliverMessage(w) /\ UNCHANGED deviceVars)
    /\ \A d \in Device : /\ WF_allVars(FetchPending(d))
                         /\ WF_allVars(HandleInbound(d))
                         /\ WF_allVars(SendAck(d))
    /\ WF_allVars(PollDeletes)

-----------------------------------------------------------------------------
(* Properties                                                               *)

\* The wallet's copy is the source of truth for undelivered messages: a message is
\* cleared only when its device has stored it, whatever was lost, retried, handed
\* over twice or forgotten on the way, and whichever UUID it went with.
ClearedIsStored == \A m \in cleared : m \in history[Addressee[m]]

\* One use of a UUID at a time: a delivery that has locked it and the sockets that
\* were opened with it exclude each other.
Uses(u) ==
    {s \in Socket : socket[s].uuid = u /\ socket[s].phase \in {"attached", "closing"}}
    \cup {p \in {delivery[u].phase} : p \in {"store", "roll back", "consume"}}
UuidUsedOnce == \A u \in Uuid : Cardinality(Uses(u)) <= 1

\* A device brings its wallet service a UUID that works.
Replenish(d) ==
    \E w \in Worker, chosen \in SUBSET uuids[d] :
        /\ RegisterCardUuids(d, w, chosen)
        /\ CredentialOf(d) \in credentials
        /\ \E u \in chosen : /\ pool[u] = Nil
                             /\ status[u] = "unused" /\ issuedTo[u] = CredentialOf(d)

\* A device that goes on replenishing its pool gets every message that the wallet
\* service accepted for it, although deliveries fail, credentials expire, stored
\* blobs vanish and answers are lost.
HeldIsDelivered ==
    \A m \in Msg :
        ([]<><<Replenish(Addressee[m])>>_allVars) =>
            (m \in Held ~> m \in history[Addressee[m]])

=============================================================================
