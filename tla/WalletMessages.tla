--------------------------- MODULE WalletMessages ---------------------------
(***************************************************************************)
(* The message queue of a wallet service (wallet-service/server/db/messages, *)
(* uuid-pools, server/utils/message-delivery, src/routes/messages-create,     *)
(* subcard-uuid-registration, subcard-deregistration): it keeps each message  *)
(* until the relay asks for its deletion, and hands it to the relay when it   *)
(* arrives and again whenever its sub-card registers UUIDs.                   *)
(*                                                                         *)
(* A worker is a request being served.  Requests arrive as admitted by the    *)
(* routing check, or by the signature, timestamp and nonce checks.            *)
(***************************************************************************)
EXTENDS Relay, Sequences, Functions

CONSTANTS
    Addressee,      \* the device whose sub-card each message is encrypted to
    Worker,         \* requests served at a time
    MaxAttempts     \* MAX_UUID_ATTEMPTS

ASSUME WalletAssumption ==
    /\ Addressee \in [Msg -> Device]
    /\ MaxAttempts \in Nat \ {0}

VARIABLES
    queue,          \* message_queue: the messages accepted, oldest first
    cleared,        \* those of them that are cleared
    deliveryUuid,   \* per message: the UUID it was last handed over with
    pool,           \* uuid_pools: per UUID, its sub-card and whether it is consumed
    worker          \* requests being served

database == <<queue, cleared, deliveryUuid, pool>>
walletVars == <<database, worker>>

PoolEntry == [device : Device, consumed : BOOLEAN]
ASSUME NilIsNoEntry == Nil \notin PoolEntry
WorkerState ==
    [step : {"idle", "find", "claim", "post", "wait", "record"}, msg : Msg \cup {Nil},
     todo : SUBSET Msg, device : Device \cup {Nil}, uuid : Uuid \cup {Nil},
     attempts : 0..MaxAttempts - 1]
Idle == [step |-> "idle", msg |-> Nil, todo |-> {}, device |-> Nil, uuid |-> Nil,
         attempts |-> 0]

WalletTypeOK ==
    /\ queue \in Seq(Msg) /\ IsInjective(queue)
    /\ cleared \subseteq Range(queue)
    /\ deliveryUuid \in [Msg -> Uuid \cup {Nil}]
    /\ pool \in [Uuid -> {Nil} \cup PoolEntry]
    /\ worker \in [Worker -> WorkerState]

WalletInit ==
    /\ queue = <<>> /\ cleared = {}
    /\ deliveryUuid = [m \in Msg |-> Nil]
    /\ pool = [u \in Uuid |-> Nil]
    /\ worker = [w \in Worker |-> Idle]

Held == Range(queue) \ cleared
Become(w, state) == worker' = [worker EXCEPT ![w] = state]

\* The loop over the messages found, in the order in which they were received
Oldest(m, todo) ==
    \A n \in todo, i, j \in DOMAIN queue : queue[i] = m /\ queue[j] = n => i <= j
TakeUp(w, todo) ==
    \/ todo = {} /\ Become(w, Idle)
    \/ \E m \in todo :
          /\ Oldest(m, todo)
          /\ Become(w, [Idle EXCEPT !.step = "claim", !.msg = m, !.todo = todo \ {m}])
NextMessage(w) == TakeUp(w, worker[w].todo)

-----------------------------------------------------------------------------
(* Requests                                                                 *)

\* handleMessagesCreate
CreateMessage(w, m) ==
    /\ worker[w].step = "idle" /\ m \notin Range(queue)
    /\ queue' = Append(queue, m)
    /\ Become(w, [Idle EXCEPT !.step = "claim", !.msg = m])
    /\ UNCHANGED <<relayVars, cleared, deliveryUuid, pool>>

\* handleUuidRegistration: a UUID that the pool knows stays as it is.
RegisterUuids(w, d, uuids) ==
    /\ worker[w].step = "idle"
    /\ pool' = [u \in Uuid |-> IF u \in uuids /\ pool[u] = Nil
                               THEN [device |-> d, consumed |-> FALSE] ELSE pool[u]]
    /\ Become(w, [Idle EXCEPT !.step = "find", !.device = d])
    /\ UNCHANGED <<queue, cleared, deliveryUuid>>

\* Mutant: messages that the relay once accepted are taken for delivered.
FindNeverSent(w) ==
    /\ worker[w].step = "find"
    /\ TakeUp(w, {m \in Held : Addressee[m] = worker[w].device /\ deliveryUuid[m] = Nil})
    /\ UNCHANGED <<relayVars, database>>
FindUncleared(w) ==
    /\ worker[w].step = "find"
    /\ TakeUp(w, {m \in Held : Addressee[m] = worker[w].device})
    /\ UNCHANGED <<relayVars, database>>

\* handleSubcardDeregistration
ConsumePool(d) ==
    pool' = [u \in Uuid |-> IF pool[u] # Nil /\ pool[u].device = d
                            THEN [pool[u] EXCEPT !.consumed = TRUE] ELSE pool[u]]

\* clearMessageByDeliveryUuid
ClearMessage(u) == cleared' = cleared \cup {m \in Held : deliveryUuid[m] = u}

-----------------------------------------------------------------------------
(* deliverMessage                                                           *)

TryNextUuid(w) ==
    IF worker[w].attempts + 1 = MaxAttempts THEN NextMessage(w)
    ELSE Become(w, [worker[w] EXCEPT !.step = "claim", !.uuid = Nil, !.attempts = @ + 1])

Available(d) == {u \in Uuid : pool[u] # Nil /\ pool[u].device = d /\ ~pool[u].consumed}

\* claimNextUuid: claimed before the relay is asked, and never given back.
ClaimUuid(w) ==
    LET available == Available(Addressee[worker[w].msg]) IN
    /\ worker[w].step = "claim"
    /\ \/ \E u \in available :
             /\ pool' = [pool EXCEPT ![u].consumed = TRUE]
             /\ Become(w, [worker[w] EXCEPT !.step = "post", !.uuid = u])
       \/ available = {} /\ NextMessage(w) /\ UNCHANGED pool
    /\ UNCHANGED <<relayVars, queue, cleared, deliveryUuid>>

\* deliverToRelay: the request arrives, or the relay is out of reach.
PostToRelay(w) ==
    /\ worker[w].step = "post"
    /\ \/ /\ Post(worker[w].uuid, worker[w].msg)
          /\ Become(w, [worker[w] EXCEPT !.step = "wait"])
          /\ Smooth
       \/ /\ TryNextUuid(w)
          /\ UNCHANGED delivery
          /\ Upset
    /\ UNCHANGED <<database, redis, clearing, connections, received>>

\* The answer, or its loss while the relay goes on.
RelayAnswers(w) ==
    LET answer == delivery[worker[w].uuid].phase IN
    /\ worker[w].step = "wait"
    /\ \/ /\ answer = "200"
          /\ Become(w, [worker[w] EXCEPT !.step = "record"])
          /\ Smooth
       \/ /\ answer \in Answered \ {"200"}
          /\ TryNextUuid(w)
          /\ Smooth
       \/ /\ TryNextUuid(w)
          /\ Upset
    /\ UNCHANGED <<database, redis, clearing, delivery, connections, received>>

\* The row is written whatever became of it; if the database fails, so does the request.
SetDeliveryUuid(w) ==
    /\ worker[w].step = "record"
    /\ \/ /\ deliveryUuid' = [deliveryUuid EXCEPT ![worker[w].msg] = worker[w].uuid]
          /\ NextMessage(w)
          /\ Smooth
       \/ /\ Become(w, Idle)
          /\ UNCHANGED deliveryUuid
          /\ Upset
    /\ UNCHANGED <<redis, clearing, delivery, connections, received, queue, cleared, pool>>

DeliverMessage(w) ==
    FindUncleared(w) \/ ClaimUuid(w) \/ PostToRelay(w) \/ RelayAnswers(w) \/ SetDeliveryUuid(w)

RestartWallet ==
    /\ Upset
    /\ worker' = [w \in Worker |-> Idle]
    /\ UNCHANGED <<database, redis, clearing, delivery, connections, received>>
=============================================================================
