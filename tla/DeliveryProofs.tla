--------------------------- MODULE DeliveryProofs ---------------------------
(***************************************************************************)
(* What is proved of MessageDelivery, for any number of devices, messages,    *)
(* UUIDs, sockets, requests and upsets: a UUID is in one use at a time, and a *)
(* message is cleared only when its device has stored it.                    *)
(***************************************************************************)
EXTENDS MessageDelivery, FiniteSetTheorems, TLAPS

-----------------------------------------------------------------------------
(* MessageDelivery: types                                                   *)

Status == {"absent", "unused", "in_flight", "active", "consumed"}
RelayTyped ==
    /\ status \in [Uuid -> Status]
    /\ issuedTo \in [Uuid -> Credential]
    /\ credentials \subseteq Credential
    /\ messages \in [Credential -> SUBSET Blob]
    /\ deletes \subseteq Uuid /\ clearing \subseteq Uuid
    /\ delivery \in [Uuid -> Delivery]
    /\ received \in [Device -> SUBSET Blob]
    /\ upsets \in 0..MaxUpsets
WalletTyped ==
    /\ queue \in Seq(Msg)
    /\ deliveryUuid \in [Msg -> Uuid \cup {Nil}]
    /\ pool \in [Uuid -> {Nil} \cup PoolEntry]
    /\ worker \in [Worker -> WorkerState]
DeviceTyped ==
    /\ generation \in [Device -> Nat]
    /\ uuids \in [Device -> SUBSET Uuid]
    /\ history \in [Device -> SUBSET Msg]
    /\ toAck \in [Device -> SUBSET Uuid]
\* Another credential takes another upset.
Generations ==
    \A d \in Device : /\ generation[d] <= upsets + 1
                      /\ CredentialOf(d) \notin credentials => generation[d] <= upsets
\* Who works on a message, or with a UUID, has one.
Sends == \A u \in Uuid : delivery[u].phase \notin Answered => delivery[u].msg \in Msg
Serves ==
    \A w \in Worker :
        /\ worker[w].step \notin {"idle", "find"} => worker[w].msg \in Msg
        /\ worker[w].step \in {"post", "wait", "record"} <=> worker[w].uuid \in Uuid
Typed == RelayTyped /\ WalletTyped /\ DeviceTyped /\ Generations /\ Sends /\ Serves

LEMMA IdleTyped == Idle \in WorkerState
BY WalletAssumption DEF Idle, WorkerState

LEMMA TypedInitially == DeliveryInit => Typed
<1> SUFFICES ASSUME DeliveryInit PROVE Typed
    OBVIOUS
<1>1. RelayTyped
    BY RelayAssumption
    DEF DeliveryInit, RelayInit, RelayTyped, Status, Credential, Delivery, Answered
<1>2. WalletTyped
    BY IdleTyped DEF DeliveryInit, WalletInit, WalletTyped
<1>3. DeviceTyped
    BY DEF DeliveryInit, DeviceTyped
<1>4. Generations
    BY <1>3 DEF DeliveryInit, RelayInit, Generations, DeviceTyped
<1>5. Sends /\ Serves
    BY RelayAssumption DEF DeliveryInit, RelayInit, WalletInit, Sends, Serves, Answered, Idle
<1>6. QED
    BY <1>1, <1>2, <1>3, <1>4, <1>5 DEF Typed

\* What the relay does on its own keeps the types, ...
LEMMA UpsetCounts == ASSUME Typed, Upset \/ Smooth
                     PROVE  upsets' \in 0..MaxUpsets /\ upsets <= upsets'
BY RelayAssumption DEF Typed, RelayTyped, Upset, Smooth

LEMMA GenerationsKept ==
    ASSUME Typed, upsets' \in 0..MaxUpsets, UNCHANGED generation,
           \/ credentials \subseteq credentials' /\ upsets <= upsets'
           \/ upsets' = upsets + 1
    PROVE  Generations'
<1>1. upsets \in Nat /\ upsets' \in Nat /\ generation \in [Device -> Nat]
    BY RelayAssumption DEF Typed, RelayTyped, DeviceTyped
<1>2. CASE credentials \subseteq credentials' /\ upsets <= upsets'
    BY <1>1, <1>2 DEF Typed, Generations, CredentialOf
<1>3. CASE upsets' = upsets + 1
    BY <1>1, <1>3 DEF Typed, Generations
<1>4. QED
    BY <1>2, <1>3

LEMMA DeliveryMoved ==
    ASSUME RelayTyped, NEW u \in Uuid, NEW phase, GoTo(u, phase),
           phase \in {"read", "lock", "store", "roll back", "consume"} \cup Answered
    PROVE  /\ delivery' \in [Uuid -> Delivery]
           /\ delivery'[u].phase = phase /\ delivery'[u].msg = delivery[u].msg
           /\ \A v \in Uuid : v # u => delivery'[v] = delivery[v]
<1> DEFINE r == [delivery[u] EXCEPT !.phase = phase]
<1>1. delivery[u] \in Delivery
    BY DEF RelayTyped
<1>2. r \in Delivery /\ r.phase = phase /\ r.msg = delivery[u].msg
    BY <1>1 DEF Delivery
<1>3. delivery' = [delivery EXCEPT ![u] = r]
    BY DEF GoTo, RelayTyped
<1> HIDE DEF r
<1>4. QED
    BY <1>2, <1>3 DEF RelayTyped

LEMMA StatusMoved ==
    ASSUME RelayTyped, NEW u \in Uuid, NEW from \in Status, NEW to \in Status, Move(u, from, to)
    PROVE  /\ status' \in [Uuid -> Status]
           /\ \A v \in Uuid : v # u => status'[v] = status[v]
           /\ status'[u] = IF status[u] = from THEN to ELSE status[u]
BY DEF Move, CanMove, RelayTyped

LEMMA DeliverTyped ==
    ASSUME Typed, NEW u \in Uuid, Deliver(u), UNCHANGED <<walletVars, deviceVars>>
    PROVE  Typed'
<1>1. UNCHANGED <<issuedTo, credentials, deletes, clearing, socket, walletVars, deviceVars>>
    BY DEF Deliver, ReadUuid, LockUuid, StoreMessage, RollBack, ConsumeUuid, redis, connections
<1>2. Upset \/ Smooth
    BY DEF Deliver, ReadUuid, LockUuid, StoreMessage, RollBack, ConsumeUuid
<1>3. PICK phase \in {"lock", "store", "roll back", "consume"} \cup Answered : GoTo(u, phase)
    BY DEF Deliver, ReadUuid, LockUuid, StoreMessage, RollBack, ConsumeUuid, Answered
<1>4. delivery' \in [Uuid -> Delivery]
    BY <1>3, DeliveryMoved DEF Typed
<1>5. status' \in [Uuid -> Status]
    BY StatusMoved
    DEF Typed, RelayTyped, Status, Deliver, ReadUuid, LockUuid, StoreMessage, RollBack,
        ConsumeUuid, redis
<1>6. /\ messages' \in [Credential -> SUBSET Blob]
      /\ received' \in [Device -> SUBSET Blob]
  <2>0. /\ messages \in [Credential -> SUBSET Blob] /\ received \in [Device -> SUBSET Blob]
        /\ issuedTo[u] \in Credential /\ issuedTo[u][1] \in Device
        /\ delivery[u].phase \notin Answered => <<u, delivery[u].msg>> \in Blob
      BY DEF Typed, RelayTyped, Delivery, Sends, Blob, Credential
  <2>1. CASE UNCHANGED <<messages, received>>
      BY <2>0, <2>1
  <2>2. CASE StoreMessage(u)
    <3>1. messages' \in {messages, [messages EXCEPT ![issuedTo[u]] =
                                          @ \cup {<<u, delivery[u].msg>>}]}
        BY <2>2 DEF StoreMessage
    <3>2. <<u, delivery[u].msg>> \in Blob /\ received' = received
        BY <2>0, <2>2 DEF StoreMessage, Answered
    <3>3. QED
        BY <2>0, <3>1, <3>2
  <2>3. CASE ConsumeUuid(u)
    <3>1. received' \in {received, [received EXCEPT ![issuedTo[u][1]] =
                                          @ \cup {<<u, delivery[u].msg>>}]}
        BY <2>3 DEF ConsumeUuid
    <3>2. <<u, delivery[u].msg>> \in Blob /\ messages' = messages
        BY <2>0, <2>3 DEF ConsumeUuid, Answered
    <3>3. QED
        BY <2>0, <3>1, <3>2, ZenonT(60)
  <2>4. QED
      BY <2>1, <2>2, <2>3 DEF Deliver, ReadUuid, LockUuid, RollBack, redis
<1>7. Sends'
  <2>1. delivery[u].phase = "read" \/ delivery[u].phase \notin Answered
      BY DEF Deliver, ReadUuid, LockUuid, StoreMessage, RollBack, ConsumeUuid, Answered
  <2>2. QED
      BY <1>3, <2>1, DeliveryMoved DEF Typed, Sends, Answered
<1>8. QED
    BY <1>1, <1>2, <1>4, <1>5, <1>6, <1>7, UpsetCounts, GenerationsKept
    DEF Typed, RelayTyped, WalletTyped, DeviceTyped, Serves, walletVars, deviceVars, database

LEMMA ConnectTyped ==
    ASSUME Typed, NEW s \in Socket, Connect(s), UNCHANGED <<walletVars, deviceVars>>
    PROVE  Typed'
<1>1. UNCHANGED <<issuedTo, credentials, messages, deletes, clearing, delivery, received,
                  walletVars, deviceVars>>
    BY DEF Connect, WsLookup, WsLock, WsTeardown, SseAttach, Close, redis
<1>2. Upset \/ Smooth
    BY DEF Connect, WsLookup, WsLock, WsTeardown, SseAttach, Close, Smooth
<1>3. status' \in [Uuid -> Status]
    BY DEF Typed, RelayTyped, Status, Move, Connect, WsLookup, WsLock, WsTeardown, SseAttach,
           Close, redis
<1>4. QED
    BY <1>1, <1>2, <1>3, UpsetCounts, GenerationsKept
    DEF Typed, RelayTyped, WalletTyped, DeviceTyped, Sends, Serves, walletVars, deviceVars,
        database

LEMMA UpsetTyped ==
    ASSUME Typed, RestartRelay \/ LoseRedis \/ Expire, UNCHANGED <<walletVars, deviceVars>>
    PROVE  Typed'
<1>1. upsets' = upsets + 1 /\ upsets' \in 0..MaxUpsets
    BY UpsetCounts DEF RestartRelay, LoseRedis, Expire, Upset
<1>2. UNCHANGED <<issuedTo, received, walletVars, deviceVars>>
    BY DEF RestartRelay, LoseRedis, Expire
<1>3. /\ status' \in [Uuid -> Status] /\ credentials' \subseteq Credential
      /\ messages' \in [Credential -> SUBSET Blob]
      /\ deletes' \subseteq Uuid /\ clearing' \subseteq Uuid
    BY ZenonT(60) DEF RestartRelay, LoseRedis, Expire, Typed, RelayTyped, Status
<1>4. delivery' \in [Uuid -> Delivery] /\ Sends'
  <2>1. CASE delivery' = delivery
      BY <2>1 DEF Typed, RelayTyped, Sends
  <2>2. CASE RestartRelay
    <3>1. \A u \in Uuid : [delivery[u] EXCEPT !.phase = "lost"] \in Delivery
      <4>1. \A u \in Uuid : delivery[u] \in Delivery
          BY DEF Typed, RelayTyped
      <4>2. QED
          BY <4>1 DEF Delivery, Answered
    <3>2. \A u \in Uuid : /\ delivery'[u] \in Delivery
                          /\ delivery'[u].phase \in Answered
        BY <2>2, <3>1, ZenonT(60) DEF RestartRelay, Typed, RelayTyped, Answered, Delivery
    <3>3. QED
        BY <2>2, <3>2 DEF RestartRelay, Sends
  <2>3. QED
      BY <2>1, <2>2 DEF LoseRedis, Expire
<1>5. QED
    BY <1>1, <1>2, <1>3, <1>4, GenerationsKept
    DEF Typed, RelayTyped, WalletTyped, DeviceTyped, Serves, walletVars, deviceVars, database

\* ... so does the wallet service, ...
\* One worker changes.
LEMMA WorkerBecomes ==
    ASSUME WalletTyped, Serves, NEW w \in Worker, NEW state \in WorkerState, Become(w, state),
           state.step \notin {"idle", "find"} => state.msg \in Msg,
           state.step \in {"post", "wait", "record"} <=> state.uuid \in Uuid
    PROVE  /\ worker' \in [Worker -> WorkerState] /\ Serves'
           /\ worker'[w] = state /\ \A x \in Worker : x # w => worker'[x] = worker[x]
BY DEF Become, WalletTyped, Serves

LEMMA TakesUp ==
    ASSUME WalletTyped, Serves, NEW w \in Worker, NEW todo \in SUBSET Msg, TakeUp(w, todo)
    PROVE  /\ worker' \in [Worker -> WorkerState] /\ Serves'
           /\ worker'[w].uuid = Nil /\ worker'[w].msg \in todo \cup {Nil}
           /\ worker'[w].todo \subseteq todo
           /\ \A x \in Worker : x # w => worker'[x] = worker[x]
<1>1. CASE todo = {} /\ Become(w, Idle)
    BY <1>1, IdleTyped, WorkerBecomes, RelayAssumption DEF Idle
<1>2. CASE \E m \in todo :
              Become(w, [Idle EXCEPT !.step = "claim", !.msg = m, !.todo = todo \ {m}])
  <2>1. PICK m \in todo :
            Become(w, [Idle EXCEPT !.step = "claim", !.msg = m, !.todo = todo \ {m}])
      BY <1>2
  <2> DEFINE r == [Idle EXCEPT !.step = "claim", !.msg = m, !.todo = todo \ {m}]
  <2>2. r \in WorkerState /\ r.step = "claim" /\ r.msg = m /\ r.uuid = Nil /\ r.todo = todo \ {m}
      BY IdleTyped DEF Idle, WorkerState
  <2>3. Become(w, r)
      BY <2>1
  <2> HIDE DEF r
  <2>4. QED
      BY <2>2, <2>3, WorkerBecomes, RelayAssumption
<1>3. QED
    BY <1>1, <1>2 DEF TakeUp

LEMMA TriesNext ==
    ASSUME WalletTyped, Serves, NEW w \in Worker, worker[w].step \in {"post", "wait", "record"},
           TryNextUuid(w)
    PROVE  /\ worker' \in [Worker -> WorkerState] /\ Serves'
           /\ worker'[w].uuid = Nil /\ worker'[w].msg \in worker[w].todo \cup {Nil, worker[w].msg}
           /\ worker'[w].todo \subseteq worker[w].todo
           /\ \A x \in Worker : x # w => worker'[x] = worker[x]
<1>0. worker[w] \in WorkerState
    BY DEF WalletTyped
<1>1. CASE NextMessage(w)
  <2>1. worker[w].todo \in SUBSET Msg
      BY <1>0 DEF WorkerState
  <2>2. QED
      BY <1>1, <2>1, TakesUp DEF NextMessage
<1>2. CASE /\ worker[w].attempts + 1 # MaxAttempts
           /\ Become(w, [worker[w] EXCEPT !.step = "claim", !.uuid = Nil, !.attempts = @ + 1])
  <2> DEFINE r == [worker[w] EXCEPT !.step = "claim", !.uuid = Nil, !.attempts = @ + 1]
  <2>1. worker[w].attempts + 1 \in 0..MaxAttempts - 1
    <3>1. worker[w].attempts \in 0..MaxAttempts - 1
        BY <1>0 DEF WorkerState
    <3>2. QED
        BY <1>2, <3>1, WalletAssumption
  <2>2. /\ r \in WorkerState /\ r.step = "claim" /\ r.uuid = Nil /\ r.msg = worker[w].msg
        /\ r.todo = worker[w].todo
      BY <1>0, <2>1 DEF WorkerState
  <2>3. r.msg \in Msg
      BY <2>2 DEF Serves
  <2>4. Become(w, r)
      BY <1>2
  <2> HIDE DEF r
  <2>5. QED
      BY <2>2, <2>3, <2>4, WorkerBecomes, RelayAssumption
<1>3. QED
    BY <1>1, <1>2 DEF TryNextUuid

\* What a worker changes beside its own record
LEMMA WorkerKeepsTypes ==
    ASSUME Typed, worker' \in [Worker -> WorkerState], Serves', Upset \/ Smooth,
           UNCHANGED <<redis, clearing, received, deviceVars>>,
           queue' \in Seq(Msg), deliveryUuid' \in [Msg -> Uuid \cup {Nil}],
           pool' \in [Uuid -> {Nil} \cup PoolEntry],
           delivery' \in [Uuid -> Delivery], Sends'
    PROVE  Typed'
BY UpsetCounts, GenerationsKept, SMTT(30) DEF Typed, RelayTyped, WalletTyped, DeviceTyped, redis, deviceVars

LEMMA ClaimTyped ==
    ASSUME Typed, NEW w \in Worker, ClaimUuid(w)
    PROVE  /\ worker' \in [Worker -> WorkerState] /\ Serves'
           /\ pool' \in [Uuid -> {Nil} \cup PoolEntry]
           /\ UNCHANGED <<relayVars, queue, cleared, deliveryUuid>>
           /\ \A x \in Worker : x # w => worker'[x] = worker[x]
           /\ \/ /\ pool' = pool /\ worker'[w].uuid = Nil
                 /\ worker'[w].msg \in worker[w].todo \cup {Nil}
                 /\ worker'[w].todo \subseteq worker[w].todo
              \/ \E u \in Available(Addressee[worker[w].msg]) :
                    /\ pool' = [pool EXCEPT ![u].consumed = TRUE]
                    /\ worker[w].msg \in Msg /\ worker'[w].msg = worker[w].msg
                    /\ worker'[w].uuid = u /\ worker'[w].todo = worker[w].todo
<1>0. /\ worker[w] \in WorkerState /\ worker[w].msg \in Msg /\ worker[w].todo \in SUBSET Msg
      /\ UNCHANGED <<relayVars, queue, cleared, deliveryUuid>>
  <2>1. worker[w] \in WorkerState /\ worker[w].step = "claim"
      BY DEF Typed, WalletTyped, ClaimUuid
  <2>2. QED
      BY <2>1 DEF Typed, Serves, WorkerState, ClaimUuid
<1>1. CASE NextMessage(w) /\ UNCHANGED pool
    BY <1>0, <1>1, TakesUp DEF NextMessage, Typed, WalletTyped
<1>2. ASSUME NEW u \in Available(Addressee[worker[w].msg]),
             pool' = [pool EXCEPT ![u].consumed = TRUE],
             Become(w, [worker[w] EXCEPT !.step = "post", !.uuid = u])
      PROVE  /\ worker' \in [Worker -> WorkerState] /\ Serves'
             /\ pool' \in [Uuid -> {Nil} \cup PoolEntry]
             /\ \A x \in Worker : x # w => worker'[x] = worker[x]
             /\ worker'[w].msg = worker[w].msg /\ worker'[w].uuid = u
             /\ worker'[w].todo = worker[w].todo
  <2>1. u \in Uuid /\ pool[u] \in PoolEntry
      BY DEF Available, Typed, WalletTyped
  <2> DEFINE r == [worker[w] EXCEPT !.step = "post", !.uuid = u]
  <2>2. /\ r \in WorkerState /\ r.step = "post" /\ r.uuid = u /\ r.msg = worker[w].msg
        /\ r.todo = worker[w].todo
      BY <1>0, <2>1 DEF WorkerState
  <2>3. Become(w, r)
      BY <1>2
  <2> HIDE DEF r
  <2>4. /\ worker' \in [Worker -> WorkerState] /\ Serves' /\ worker'[w] = r
        /\ \A x \in Worker : x # w => worker'[x] = worker[x]
      BY <1>0, <2>1, <2>2, <2>3, WorkerBecomes DEF Typed
  <2> DEFINE e == [pool[u] EXCEPT !.consumed = TRUE]
  <2>5. e \in PoolEntry
      BY <2>1 DEF PoolEntry
  <2>6. pool' = [pool EXCEPT ![u] = e]
      BY <1>2 DEF Typed, WalletTyped
  <2> HIDE DEF e
  <2>7. pool' \in [Uuid -> {Nil} \cup PoolEntry]
      BY <2>5, <2>6 DEF Typed, WalletTyped
  <2>8. QED
      BY <2>2, <2>4, <2>7
<1>3. QED
    BY <1>0, <1>1, <1>2 DEF ClaimUuid

LEMMA PostTyped ==
    ASSUME Typed, NEW w \in Worker, PostToRelay(w)
    PROVE  /\ worker' \in [Worker -> WorkerState] /\ Serves'
           /\ UNCHANGED <<database, redis, clearing, connections, received>>
           /\ Upset \/ Smooth
           /\ delivery' \in [Uuid -> Delivery] /\ Sends'
           /\ \A x \in Worker : x # w => worker'[x] = worker[x]
           /\ worker'[w].todo \subseteq worker[w].todo
           /\ worker[w].uuid \in Uuid /\ worker[w].msg \in Msg
           /\ \/ /\ delivery' = delivery /\ worker'[w].uuid = Nil
                 /\ worker'[w].msg \in worker[w].todo \cup {Nil, worker[w].msg}
              \/ /\ worker'[w].uuid = worker[w].uuid /\ worker'[w].msg = worker[w].msg
                 /\ delivery'[worker[w].uuid] = [phase |-> "read", msg |-> worker[w].msg]
                 /\ \A u \in Uuid : u # worker[w].uuid => delivery'[u] = delivery[u]
<1>0. /\ worker[w] \in WorkerState /\ worker[w].msg \in Msg /\ worker[w].uuid \in Uuid
      /\ worker[w].step = "post"
      /\ UNCHANGED <<database, redis, clearing, connections, received>>
    BY DEF Typed, WalletTyped, Serves, PostToRelay
<1>1. CASE TryNextUuid(w) /\ UNCHANGED delivery /\ Upset
    BY <1>0, <1>1, TriesNext DEF Typed, RelayTyped, Sends
<1>2. CASE /\ Post(worker[w].uuid, worker[w].msg) /\ Smooth
           /\ Become(w, [worker[w] EXCEPT !.step = "wait"])
  <2> DEFINE r == [worker[w] EXCEPT !.step = "wait"]
  <2>1. /\ r \in WorkerState /\ r.step = "wait" /\ r.uuid = worker[w].uuid /\ r.msg = worker[w].msg
        /\ r.todo = worker[w].todo
      BY <1>0 DEF WorkerState
  <2>2. Become(w, r)
      BY <1>2
  <2> HIDE DEF r
  <2>3. /\ worker' \in [Worker -> WorkerState] /\ Serves' /\ worker'[w] = r
        /\ \A x \in Worker : x # w => worker'[x] = worker[x]
      BY <1>0, <2>1, <2>2, WorkerBecomes DEF Typed
  <2> DEFINE q == [phase |-> "read", msg |-> worker[w].msg]
  <2>4. q \in Delivery /\ q.phase = "read" /\ q.msg = worker[w].msg
      BY <1>0 DEF Delivery
  <2>5. delivery' = [delivery EXCEPT ![worker[w].uuid] = q]
      BY <1>2 DEF Post
  <2> HIDE DEF q
  <2>6. /\ delivery' \in [Uuid -> Delivery] /\ Sends' /\ delivery'[worker[w].uuid] = q
        /\ \A u \in Uuid : u # worker[w].uuid => delivery'[u] = delivery[u]
      BY <1>0, <2>4, <2>5 DEF Typed, RelayTyped, Sends
  <2>7. QED
      BY <1>0, <1>2, <2>1, <2>3, <2>6 DEF q
<1>3. QED
    BY <1>0, <1>1, <1>2 DEF PostToRelay

LEMMA AnswersTyped ==
    ASSUME Typed, NEW w \in Worker, RelayAnswers(w)
    PROVE  /\ worker' \in [Worker -> WorkerState] /\ Serves'
           /\ UNCHANGED <<database, redis, clearing, delivery, connections, received>>
           /\ Upset \/ Smooth
           /\ \A x \in Worker : x # w => worker'[x] = worker[x]
           /\ worker'[w].todo \subseteq worker[w].todo
           /\ \/ /\ worker'[w].uuid = Nil
                 /\ worker'[w].msg \in worker[w].todo \cup {Nil, worker[w].msg}
              \/ worker'[w].uuid = worker[w].uuid /\ worker'[w].msg = worker[w].msg
<1>0. /\ worker[w] \in WorkerState /\ worker[w].msg \in Msg /\ worker[w].uuid \in Uuid
      /\ worker[w].step = "wait"
      /\ UNCHANGED <<database, redis, clearing, delivery, connections, received>>
      /\ Upset \/ Smooth
    BY DEF Typed, WalletTyped, Serves, RelayAnswers
<1>1. CASE TryNextUuid(w)
    BY <1>0, <1>1, TriesNext DEF Typed
<1>2. CASE Become(w, [worker[w] EXCEPT !.step = "record"])
  <2> DEFINE r == [worker[w] EXCEPT !.step = "record"]
  <2>1. /\ r \in WorkerState /\ r.step = "record" /\ r.uuid = worker[w].uuid
        /\ r.msg = worker[w].msg
        /\ r.todo = worker[w].todo
      BY <1>0 DEF WorkerState
  <2>2. Become(w, r)
      BY <1>2
  <2> HIDE DEF r
  <2>3. QED
      BY <1>0, <2>1, <2>2, WorkerBecomes DEF Typed
<1>3. QED
    BY <1>1, <1>2 DEF RelayAnswers

LEMMA RecordTyped ==
    ASSUME Typed, NEW w \in Worker, SetDeliveryUuid(w)
    PROVE  /\ worker' \in [Worker -> WorkerState] /\ Serves'
           /\ UNCHANGED <<redis, clearing, delivery, connections, received, queue, cleared, pool>>
           /\ Upset \/ Smooth
           /\ \A x \in Worker : x # w => worker'[x] = worker[x]
           /\ worker'[w].todo \subseteq worker[w].todo
           /\ worker'[w].uuid = Nil /\ worker'[w].msg \in worker[w].todo \cup {Nil}
           /\ worker[w].uuid \in Uuid /\ worker[w].msg \in Msg
           /\ \/ deliveryUuid' = deliveryUuid
              \/ deliveryUuid' = [deliveryUuid EXCEPT ![worker[w].msg] = worker[w].uuid]
<1>0. /\ worker[w] \in WorkerState /\ worker[w].msg \in Msg /\ worker[w].uuid \in Uuid
      /\ worker[w].step = "record"
      /\ UNCHANGED <<redis, clearing, delivery, connections, received, queue, cleared, pool>>
      /\ Upset \/ Smooth
    BY DEF Typed, WalletTyped, Serves, SetDeliveryUuid
<1>1. worker[w].todo \in SUBSET Msg
    BY <1>0 DEF WorkerState
<1>2. CASE Become(w, Idle) /\ UNCHANGED deliveryUuid
    BY <1>0, <1>2, IdleTyped, WorkerBecomes, RelayAssumption DEF Idle, Typed
<1>3. CASE /\ NextMessage(w)
           /\ deliveryUuid' = [deliveryUuid EXCEPT ![worker[w].msg] = worker[w].uuid]
    BY <1>0, <1>1, <1>3, TakesUp DEF NextMessage, Typed
<1>4. QED
    BY <1>0, <1>2, <1>3 DEF SetDeliveryUuid

LEMMA FindTyped ==
    ASSUME Typed, NEW w \in Worker, FindUncleared(w)
    PROVE  /\ worker' \in [Worker -> WorkerState] /\ Serves'
           /\ UNCHANGED <<relayVars, database>>
           /\ \A x \in Worker : x # w => worker'[x] = worker[x]
           /\ worker'[w].uuid = Nil /\ worker'[w].msg \in Held \cup {Nil}
           /\ worker'[w].todo \subseteq Held
<1> DEFINE todo == {m \in Held : Addressee[m] = worker[w].device}
<1>1. todo \in SUBSET Msg
    BY DEF Held, Range, Typed, WalletTyped
<1>2. TakeUp(w, todo) /\ UNCHANGED <<relayVars, database>>
    BY DEF FindUncleared
<1>3. todo \subseteq Held
    OBVIOUS
<1> HIDE DEF todo
<1>4. QED
    BY <1>1, <1>2, <1>3, TakesUp DEF Typed

LEMMA CreateTyped ==
    ASSUME Typed, NEW w \in Worker, NEW m \in Msg, CreateMessage(w, m)
    PROVE  /\ worker' \in [Worker -> WorkerState] /\ Serves'
           /\ UNCHANGED <<relayVars, cleared, deliveryUuid, pool>>
           /\ \A x \in Worker : x # w => worker'[x] = worker[x]
           /\ worker'[w].uuid = Nil /\ worker'[w].msg = m /\ worker'[w].todo = {}
           /\ queue' \in Seq(Msg) /\ Range(queue') = Range(queue) \cup {m}
           /\ m \notin Range(queue)
<1> DEFINE r == [Idle EXCEPT !.step = "claim", !.msg = m]
<1>1. r \in WorkerState /\ r.step = "claim" /\ r.msg = m /\ r.uuid = Nil /\ r.todo = {}
    BY IdleTyped DEF Idle, WorkerState
<1>2. Become(w, r)
    BY DEF CreateMessage
<1> HIDE DEF r
<1>3. queue \in Seq(Msg) /\ queue' = Append(queue, m)
    BY DEF CreateMessage, Typed, WalletTyped
<1>4. Range(queue') = Range(queue) \cup {m}
  <2>1. /\ DOMAIN queue' = 1..Len(queue) + 1 /\ DOMAIN queue = 1..Len(queue)
        /\ Len(queue) \in Nat
        /\ queue'[Len(queue) + 1] = m /\ \A i \in 1..Len(queue) : queue'[i] = queue[i]
      BY <1>3
  <2>2. QED
      BY <2>1 DEF Range
<1>5. QED
    BY <1>1, <1>2, <1>3, <1>4, WorkerBecomes, RelayAssumption DEF CreateMessage, Typed

LEMMA WorkerStepTyped ==
    ASSUME Typed, NEW w \in Worker, DeliverMessage(w) \/ \E m \in Msg : CreateMessage(w, m),
           UNCHANGED deviceVars
    PROVE  Typed'
<1> USE DEF relayVars, database
<1>0. WalletTyped /\ RelayTyped /\ Sends
    BY DEF Typed
<1>1. CASE FindUncleared(w)
    BY <1>0, <1>1, FindTyped, WorkerKeepsTypes DEF WalletTyped, RelayTyped, Sends, Smooth
<1>2. CASE ClaimUuid(w)
    BY <1>0, <1>2, ClaimTyped, WorkerKeepsTypes DEF WalletTyped, RelayTyped, Sends, Smooth
<1>3. CASE PostToRelay(w)
    BY <1>0, <1>3, PostTyped, WorkerKeepsTypes DEF WalletTyped
<1>4. CASE RelayAnswers(w)
    BY <1>0, <1>4, AnswersTyped, WorkerKeepsTypes DEF WalletTyped, RelayTyped, Sends
<1>5. CASE SetDeliveryUuid(w)
  <2>1. deliveryUuid' \in [Msg -> Uuid \cup {Nil}]
      BY <1>0, <1>5, RecordTyped DEF WalletTyped
  <2>2. QED
      BY <1>0, <1>5, <2>1, RecordTyped, WorkerKeepsTypes DEF WalletTyped, RelayTyped, Sends
<1>6. CASE \E m \in Msg : CreateMessage(w, m)
    BY <1>0, <1>6, CreateTyped, WorkerKeepsTypes DEF WalletTyped, RelayTyped, Sends, Smooth
<1>7. QED
    BY <1>1, <1>2, <1>3, <1>4, <1>5, <1>6 DEF DeliverMessage

LEMMA RestartWalletTyped ==
    ASSUME Typed, RestartWallet, UNCHANGED deviceVars
    PROVE  Typed'
<1>1. worker' \in [Worker -> WorkerState] /\ Serves'
    BY IdleTyped, RelayAssumption DEF RestartWallet, Serves, Idle
<1>2. QED
    BY <1>1, WorkerKeepsTypes
    DEF RestartWallet, database, Typed, WalletTyped, RelayTyped, Sends

\* ... and a device does.
\* The credential of a device is one of those there are bounds for.
LEMMA CredentialTyped ==
    ASSUME Typed, NEW d \in Device
    PROVE  /\ CredentialOf(d) \in Credential
           /\ CredentialOf(d) \notin credentials => <<d, generation[d] + 1>> \in Credential
<1>1. generation[d] \in Nat /\ upsets \in Nat /\ upsets <= MaxUpsets /\ MaxUpsets \in Nat
    BY RelayAssumption DEF Typed, DeviceTyped, RelayTyped
<1>2. generation[d] <= upsets + 1 /\ (CredentialOf(d) \notin credentials => generation[d] <= upsets)
    BY DEF Typed, Generations
<1>3. QED
    BY <1>1, <1>2 DEF Credential, CredentialOf

LEMMA GetUuidsTyped ==
    ASSUME Typed, NEW d \in Device, NEW fresh \in SUBSET Uuid, GetUuids(d, fresh)
    PROVE  Typed'
<1> DEFINE next == IF CredentialOf(d) \in credentials THEN generation[d] ELSE generation[d] + 1
<1>1. <<d, next>> \in Credential /\ next \in Nat /\ generation[d] \in Nat
  <2>1. generation[d] \in Nat
      BY DEF Typed, DeviceTyped
  <2>2. CASE CredentialOf(d) \in credentials
      BY <2>1, <2>2, CredentialTyped DEF CredentialOf
  <2>3. CASE CredentialOf(d) \notin credentials
      BY <2>1, <2>3, CredentialTyped
  <2>4. QED
      BY <2>2, <2>3
<1>2. /\ credentials' = credentials \cup {<<d, next>>}
      /\ status' = [u \in Uuid |-> IF u \in fresh THEN "unused" ELSE status[u]]
      /\ issuedTo' = [u \in Uuid |-> IF u \in fresh THEN <<d, next>> ELSE issuedTo[u]]
      /\ UNCHANGED <<messages, deletes, clearing, received, queue, deliveryUuid, worker, history,
                     toAck>>
      /\ Upset \/ Smooth
    BY DEF GetUuids, Register
<1>3. /\ delivery' \in [Uuid -> Delivery] /\ Sends'
      /\ pool' \in [Uuid -> {Nil} \cup PoolEntry]
  <2>1. /\ delivery' = [u \in Uuid |-> IF u \in fresh THEN [phase |-> "none", msg |-> Nil]
                                                      ELSE delivery[u]]
        /\ pool' = [u \in Uuid |-> IF u \in fresh THEN Nil ELSE pool[u]]
      BY DEF GetUuids
  <2>2. [phase |-> "none", msg |-> Nil] \in Delivery
      BY DEF Delivery, Answered
  <2>3. \A u \in Uuid : delivery'[u] \in Delivery
      BY <2>1, <2>2 DEF Typed, RelayTyped
  <2>4. Sends'
      BY <2>1 DEF Typed, Sends, Answered
  <2>5. QED
      BY <2>1, <2>3, <2>4 DEF Typed, WalletTyped
<1>4. generation' \in [Device -> Nat] /\ uuids' \in [Device -> SUBSET Uuid]
    BY <1>1 DEF GetUuids, Typed, DeviceTyped
<1>5. Generations'
  <2>0. /\ upsets \in Nat /\ upsets' \in Nat /\ generation \in [Device -> Nat]
        /\ \A e \in Device : generation[e] <= upsets + 1
        /\ \A e \in Device : <<e, generation[e]>> \notin credentials => generation[e] <= upsets
    <3>1. upsets \in Nat /\ upsets' \in Nat /\ generation \in [Device -> Nat]
        BY <1>2, UpsetCounts, RelayAssumption DEF Typed, RelayTyped, DeviceTyped
    <3>2. Generations
        BY DEF Typed
    <3>3. QED
        BY <3>1, <3>2 DEF Generations, CredentialOf
  <2>1. CASE generation' = [generation EXCEPT ![d] = next] /\ Smooth
    <3>1. generation'[d] = next /\ upsets' = upsets /\ next <= upsets + 1
        BY <2>0, <2>1 DEF Smooth, CredentialOf
    <3>2. <<d, next>> \in credentials'
        BY <1>2
    <3>3. \A e \in Device : e # d => generation'[e] = generation[e]
        BY <2>0, <2>1
    <3>4. credentials \subseteq credentials'
        BY <1>2
    <3> HIDE DEF next
    <3>5. QED
        BY <2>0, <3>1, <3>2, <3>3, <3>4 DEF Generations, CredentialOf
  <2>2. CASE UNCHANGED generation /\ Upset
    <3>1. upsets' = upsets + 1
        BY <2>2 DEF Upset
    <3>2. QED
        BY <2>0, <2>2, <3>1 DEF Generations, CredentialOf
  <2>3. QED
      BY <2>1, <2>2 DEF GetUuids
<1>6. status' \in [Uuid -> Status] /\ issuedTo' \in [Uuid -> Credential]
      /\ credentials' \subseteq Credential
    BY <1>1, <1>2 DEF Typed, RelayTyped, Status
<1>7. QED
    BY <1>2, <1>3, <1>4, <1>5, <1>6, UpsetCounts
    DEF Typed, RelayTyped, WalletTyped, DeviceTyped, Serves

LEMMA PoolTyped ==
    ASSUME Typed, pool' \in [Uuid -> {Nil} \cup PoolEntry],
           status' \in [Uuid -> Status], Upset \/ Smooth,
           worker' \in [Worker -> WorkerState], Serves',
           UNCHANGED <<issuedTo, credentials, messages, deletes, clearing, delivery, received,
                       queue, deliveryUuid, deviceVars>>
    PROVE  Typed'
BY UpsetCounts, GenerationsKept
DEF Typed, RelayTyped, WalletTyped, DeviceTyped, Sends, deviceVars

LEMMA RegisterTyped ==
    ASSUME Typed, NEW d \in Device, NEW w \in Worker, NEW chosen \in SUBSET Uuid,
           RegisterCardUuids(d, w, chosen)
    PROVE  /\ Typed'
           /\ worker'[w].uuid = Nil /\ worker'[w].msg = Nil /\ worker'[w].todo = {}
           /\ \A x \in Worker : x # w => worker'[x] = worker[x]
<1> DEFINE r == [Idle EXCEPT !.step = "find", !.device = d]
<1>1. r \in WorkerState /\ r.step = "find" /\ r.uuid = Nil /\ r.msg = Nil /\ r.todo = {}
    BY IdleTyped DEF Idle, WorkerState
<1>2. Become(w, r) /\ UNCHANGED <<relayVars, queue, deliveryUuid, deviceVars>>
    BY DEF RegisterCardUuids, RegisterUuids
<1>3. /\ worker' \in [Worker -> WorkerState] /\ Serves' /\ worker'[w] = r
      /\ \A x \in Worker : x # w => worker'[x] = worker[x]
  <2> HIDE DEF r
  <2>1. QED
      BY <1>1, <1>2, WorkerBecomes, RelayAssumption DEF Typed
<1>4. pool' \in [Uuid -> {Nil} \cup PoolEntry]
    BY DEF RegisterCardUuids, RegisterUuids, Typed, WalletTyped, PoolEntry
<1> HIDE DEF r
<1>5. QED
    BY <1>1, <1>2, <1>3, <1>4, PoolTyped DEF relayVars, redis, Typed, RelayTyped, Smooth

LEMMA PoolEmptied ==
    ASSUME Typed, \/ \E d \in Device : DeregisterCardUuids(d)
                  \/ \E u \in Uuid : UuidExpires(u)
    PROVE  /\ Typed'
           /\ \A v \in Uuid : /\ pool[v] = Nil => pool'[v] = Nil
                              /\ pool[v] # Nil => pool'[v] # Nil /\ pool'[v].device = pool[v].device
                              /\ pool[v] # Nil /\ pool[v].consumed => pool'[v].consumed
<1>0. pool \in [Uuid -> {Nil} \cup PoolEntry]
    BY DEF Typed, WalletTyped
<1>1. ASSUME NEW p \in PoolEntry
      PROVE  /\ [p EXCEPT !.consumed = TRUE] \in PoolEntry
             /\ [p EXCEPT !.consumed = TRUE].device = p.device
             /\ [p EXCEPT !.consumed = TRUE].consumed
    BY DEF PoolEntry
<1>2. ASSUME NEW v \in Uuid
      PROVE  pool'[v] \in {pool[v], [pool[v] EXCEPT !.consumed = TRUE]}
             /\ (pool[v] = Nil => pool'[v] = Nil)
    BY <1>0 DEF DeregisterCardUuids, ConsumePool, UuidExpires
<1>3. pool' \in [Uuid -> {Nil} \cup PoolEntry]
    BY <1>0, <1>1, <1>2 DEF DeregisterCardUuids, ConsumePool, UuidExpires
<1>4. ASSUME NEW v \in Uuid, pool[v] # Nil
      PROVE  /\ pool'[v] # Nil /\ pool'[v].device = pool[v].device
             /\ pool[v].consumed => pool'[v].consumed
  <2>1. pool[v] \in PoolEntry
      BY <1>0, <1>4
  <2>2. CASE pool'[v] = pool[v]
      BY <1>4, <2>2
  <2>3. CASE pool'[v] = [pool[v] EXCEPT !.consumed = TRUE]
    <3> DEFINE e == [pool[v] EXCEPT !.consumed = TRUE]
    <3>1. e \in PoolEntry /\ e.device = pool[v].device /\ e.consumed
        BY <1>1, <2>1
    <3>2. pool'[v] = e
        BY <2>3
    <3> HIDE DEF e
    <3>3. QED
        BY <3>1, <3>2, NilIsNoEntry
  <2>4. QED
      BY <1>2, <2>2, <2>3
<1>5. status' \in [Uuid -> Status]
    BY DEF DeregisterCardUuids, UuidExpires, redis, Typed, RelayTyped, Status
<1>6. Typed'
  <2>1. UNCHANGED <<issuedTo, credentials, messages, deletes, clearing, delivery, received, queue,
                    deliveryUuid, worker, deviceVars>> /\ (Upset \/ Smooth)
      BY DEF DeregisterCardUuids, UuidExpires, redis, Smooth
  <2>2. worker' \in [Worker -> WorkerState] /\ Serves'
      BY <2>1 DEF Typed, WalletTyped, Serves
  <2>3. QED
      BY <1>3, <1>5, <2>1, <2>2, PoolTyped
<1>7. QED
    BY <1>2, <1>4, <1>6

\* A blob that is handed on is one.
LEMMA PairOf == ASSUME NEW b \in Blob PROVE b[1] \in Uuid /\ b[2] \in Msg /\ b = <<b[1], b[2]>>
BY DEF Blob

LEMMA DeviceStepTyped ==
    ASSUME Typed, NEW d \in Device,
           \/ \E s \in Socket : OpenConnection(d, s)
           \/ FetchPending(d) \/ HandleInbound(d) \/ SendAck(d) \/ RestartApp(d)
    PROVE  Typed'
<1> DEFINE Same == UNCHANGED <<status, issuedTo, credentials, clearing, delivery, walletVars,
                               generation, uuids>>
<1>0. /\ received \in [Device -> SUBSET Blob] /\ toAck \in [Device -> SUBSET Uuid]
      /\ history \in [Device -> SUBSET Msg] /\ messages \in [Credential -> SUBSET Blob]
      /\ deletes \subseteq Uuid /\ CredentialOf(d) \in Credential /\ CredentialOf(d)[1] = d
    BY CredentialTyped DEF Typed, RelayTyped, DeviceTyped, CredentialOf
<1>1. ASSUME Same, Upset \/ Smooth,
             received' \in [Device -> SUBSET Blob], messages' \in [Credential -> SUBSET Blob],
             toAck' \in [Device -> SUBSET Uuid], history' \in [Device -> SUBSET Msg],
             deletes' \subseteq Uuid
      PROVE  Typed'
  <2>1. RelayTyped' /\ Sends' /\ upsets' \in 0..MaxUpsets /\ upsets <= upsets'
      BY <1>1, UpsetCounts DEF Typed, RelayTyped, Sends
  <2>2. WalletTyped' /\ DeviceTyped' /\ Serves'
      BY <1>1 DEF Typed, WalletTyped, DeviceTyped, Serves, walletVars, database
  <2>3. QED
      BY <1>1, <2>1, <2>2, GenerationsKept DEF Typed
<1>2. CASE \E s \in Socket : OpenConnection(d, s)
    BY <1>0, <1>1, <1>2 DEF OpenConnection, OpenSocket, redis, deviceVars, Smooth
<1>3. CASE FetchPending(d)
  <2>1. received' \in [Device -> SUBSET Blob] /\ messages' \in [Credential -> SUBSET Blob]
      BY <1>0, <1>3 DEF FetchPending, Pending
  <2>2. QED
      BY <1>0, <1>1, <1>3, <2>1 DEF FetchPending, Pending, deviceVars
<1>4. CASE HandleInbound(d)
  <2>1. PICK b \in received[d] :
            /\ received' = [received EXCEPT ![d] = @ \ {b}]
            /\ \/ /\ history' = [history EXCEPT ![d] = @ \cup {b[2]}]
                  /\ toAck' = [toAck EXCEPT ![d] = @ \cup {b[1]}]
               \/ UNCHANGED <<history, toAck>>
      BY <1>4 DEF HandleInbound
  <2>2. b[1] \in Uuid /\ b[2] \in Msg
      BY <1>0, PairOf
  <2>3. /\ received' \in [Device -> SUBSET Blob] /\ history' \in [Device -> SUBSET Msg]
        /\ toAck' \in [Device -> SUBSET Uuid]
      BY <1>0, <2>1, <2>2
  <2>4. QED
      BY <1>0, <1>1, <1>4, <2>3 DEF HandleInbound, redis
<1>5. CASE SendAck(d)
  <2>1. /\ toAck' \in [Device -> SUBSET Uuid] /\ deletes' \subseteq Uuid
        /\ UNCHANGED <<received, messages, history>> /\ Same /\ (Upset \/ Smooth)
      BY <1>0, <1>5 DEF SendAck, Ack, redis
  <2>2. QED
      BY <1>0, <1>1, <2>1
<1>6. CASE RestartApp(d)
  <2>1. received' \in [Device -> SUBSET Blob] /\ toAck' \in [Device -> SUBSET Uuid]
      BY <1>0, <1>6 DEF RestartApp
  <2>2. QED
      BY <1>0, <1>1, <1>6, <2>1 DEF RestartApp, redis
<1>7. QED
    BY <1>2, <1>3, <1>4, <1>5, <1>6

LEMMA ClearanceTyped ==
    ASSUME Typed, PollDeletes \/ \E u \in Uuid : ExecuteDelete(u)
    PROVE  Typed'
<1>1. /\ UNCHANGED <<status, issuedTo, credentials, messages, delivery, received, queue,
                     deliveryUuid, pool, worker, deviceVars>>
      /\ Upset \/ Smooth
    BY DEF PollDeletes, ExecuteDelete, DequeueDeletes, Settle, Requeue, redis, walletVars,
           database, Smooth
<1>2. deletes' \subseteq Uuid /\ clearing' \subseteq Uuid
    BY DEF PollDeletes, ExecuteDelete, DequeueDeletes, Settle, Requeue, redis, Typed, RelayTyped
<1>3. QED
    BY <1>1, <1>2, UpsetCounts, GenerationsKept
    DEF Typed, RelayTyped, WalletTyped, DeviceTyped, Sends, Serves, deviceVars

LEMMA TypedStep == Typed /\ [DeliveryNext]_allVars => Typed'
<1> SUFFICES ASSUME Typed, [DeliveryNext]_allVars PROVE Typed'
    OBVIOUS
<1>1. CASE UNCHANGED allVars
    BY <1>1 DEF allVars, relayVars, redis, connections, walletVars, database, deviceVars, Typed,
                RelayTyped, WalletTyped, DeviceTyped, Sends, Serves, Generations, CredentialOf
<1>2. CASE RelayStep /\ UNCHANGED <<walletVars, deviceVars>>
    BY <1>2, DeliverTyped, ConnectTyped, UpsetTyped DEF RelayStep
<1>3. CASE \E d \in Device :
              \/ \E chosen \in SUBSET Uuid :
                    GetUuids(d, chosen) \/ \E w \in Worker : RegisterCardUuids(d, w, chosen)
              \/ DeregisterCardUuids(d)
              \/ \E s \in Socket : OpenConnection(d, s)
              \/ FetchPending(d) \/ HandleInbound(d) \/ SendAck(d) \/ RestartApp(d)
    BY <1>3, GetUuidsTyped, RegisterTyped, PoolEmptied, DeviceStepTyped
<1>4. QED
    BY <1>1, <1>2, <1>3, WorkerStepTyped, RestartWalletTyped, ClearanceTyped, PoolEmptied
    DEF DeliveryNext

-----------------------------------------------------------------------------
(* MessageDelivery: the uses of a UUID                                       *)

InUse == {"store", "roll back", "consume"}
Attached(s, u) == socket[s].uuid = u /\ socket[s].phase \in {"attached", "closing"}
SocketsTyped ==
    /\ socket \in [Socket -> SocketState]
    /\ \A s \in Socket :
          /\ socket[s].kind = "sse" => socket[s].uuid = Nil
          /\ socket[s].kind = "ws" /\ socket[s].phase # "new" => socket[s].uuid \in Uuid
\* A UUID that may be locked is in no use, and a socket excludes a delivery.
OneUse(u) ==
    /\ \A s, t \in Socket : Attached(s, u) /\ Attached(t, u) => s = t
    /\ \A s \in Socket : Attached(s, u) => delivery[u].phase \notin InUse
    /\ status[u] = "unused" =>
          delivery[u].phase \notin InUse /\ \A s \in Socket : ~Attached(s, u)
UsesIInv == SocketsTyped /\ \A u \in Uuid : OneUse(u)

LEMMA UsesInitially == DeliveryInit => UsesIInv
<1> SUFFICES ASSUME DeliveryInit PROVE UsesIInv
    OBVIOUS
<1>1. NewSocket \in SocketState /\ NewSocket.kind = "ws" /\ NewSocket.phase = "new"
    BY DEF NewSocket, SocketState
<1>2. QED
    BY <1>1 DEF DeliveryInit, RelayInit, UsesIInv, SocketsTyped, OneUse, Attached, InUse

LEMMA OneUseIsOnce == UsesIInv => UuidUsedOnce
<1> SUFFICES ASSUME UsesIInv, NEW u \in Uuid PROVE Cardinality(Uses(u)) <= 1
    BY DEF UuidUsedOnce
<1>1. OneUse(u)
    BY DEF UsesIInv
<1>2. CASE \E s \in Socket : Attached(s, u)
  <2>1. PICK s \in Socket : Attached(s, u)
      BY <1>2
  <2>2. Uses(u) = {s}
      BY <1>1, <2>1 DEF Uses, OneUse, Attached, InUse
  <2>3. Cardinality({s}) = 1
      BY FS_Singleton
  <2>4. QED
      BY <2>2, <2>3
<1>3. CASE (\A s \in Socket : ~Attached(s, u)) /\ delivery[u].phase \in InUse
  <2>1. Uses(u) = {delivery[u].phase}
      BY <1>3 DEF Uses, Attached, InUse
  <2>2. Cardinality({delivery[u].phase}) = 1
      BY FS_Singleton
  <2>3. QED
      BY <2>1, <2>2
<1>4. CASE (\A s \in Socket : ~Attached(s, u)) /\ delivery[u].phase \notin InUse
  <2>1. Uses(u) = {}
      BY <1>4 DEF Uses, Attached, InUse
  <2>2. QED
      BY <2>1, FS_EmptySet
<1>5. QED
    BY <1>2, <1>3, <1>4

\* Nothing new is in use, and what may be locked newly is in no use.
LEMMA NoNewUse ==
    ASSUME UsesIInv, SocketsTyped',
           \A s \in Socket, u \in Uuid : Attached(s, u)' => Attached(s, u),
           \A u \in Uuid :
               /\ delivery'[u].phase \in InUse => delivery[u].phase \in InUse
               /\ status'[u] = "unused" =>
                     \/ status[u] = "unused"
                     \/ delivery'[u].phase \notin InUse /\ \A s \in Socket : ~Attached(s, u)'
    PROVE  UsesIInv'
BY DEF UsesIInv, OneUse

\* The sockets stay, and deliveries and statuses are not touched where they matter.
LEMMA NoUseTouched ==
    ASSUME UsesIInv, UNCHANGED socket,
           \A u \in Uuid :
               /\ delivery'[u].phase \in InUse => delivery[u].phase \in InUse
               /\ status'[u] = "unused" => status[u] = "unused"
    PROVE  UsesIInv'
<1>1. SocketsTyped' /\ \A s \in Socket, u \in Uuid : Attached(s, u)' => Attached(s, u)
    BY DEF UsesIInv, SocketsTyped, Attached
<1>2. QED
    BY <1>1, NoNewUse

LEMMA DeliverUses ==
    ASSUME Typed, UsesIInv, NEW u \in Uuid, Deliver(u)
    PROVE  UsesIInv'
<1>0. socket' = socket
    BY DEF Deliver, connections
<1>1. PICK phase \in {"lock", "store", "roll back", "consume"} \cup Answered : GoTo(u, phase)
    BY DEF Deliver, ReadUuid, LockUuid, StoreMessage, RollBack, ConsumeUuid, Answered
<1>2. /\ delivery'[u].phase = phase
      /\ \A v \in Uuid : v # u => delivery'[v] = delivery[v]
    BY <1>1, DeliveryMoved DEF Typed
<1>3. \A v \in Uuid : v # u => status'[v] = status[v]
    BY StatusMoved
    DEF Typed, Status, Deliver, ReadUuid, LockUuid, StoreMessage, RollBack, ConsumeUuid, redis
<1>4. \A v \in Uuid : v # u => OneUse(v)'
    BY <1>0, <1>2, <1>3, ZenonT(60) DEF UsesIInv, OneUse, Attached
<1>5. SocketsTyped' /\ OneUse(u)
    BY <1>0 DEF UsesIInv, SocketsTyped
<1>6. OneUse(u)'
  <2>1. CASE ReadUuid(u)
    <3>1. phase \notin InUse /\ status' = status
      <4>1. phase \in {"lock", "gone", "500"}
          BY <1>2, <2>1, DeliveryMoved DEF ReadUuid, Typed, Answered
      <4>2. QED
          BY <2>1, <4>1 DEF ReadUuid, redis, InUse
    <3>2. QED
        BY <1>0, <1>2, <1>5, <3>1 DEF OneUse, Attached
  <2>2. CASE LockUuid(u)
    <3>1. CASE phase = "store"
      <4>1. status[u] = "unused" /\ status'[u] = "in_flight"
        <5>1. /\ GoTo(u, IF CanMove(u, "unused") THEN "store" ELSE "gone")
              /\ Move(u, "unused", "in_flight")
          <6>1. ASSUME GoTo(u, "500") PROVE FALSE
            <7>1. delivery'[u].phase = "500"
                BY <6>1, DeliveryMoved DEF Typed, Answered
            <7>2. QED
                BY <1>2, <3>1, <7>1
          <6>2. QED
              BY <2>2, <6>1 DEF LockUuid
        <5>2. ASSUME GoTo(u, "gone") PROVE FALSE
          <6>1. delivery'[u].phase = "gone"
              BY <5>2, DeliveryMoved DEF Typed, Answered
          <6>2. QED
              BY <1>2, <3>1, <6>1
        <5>3. CanMove(u, "unused")
            BY <5>1, <5>2
        <5>4. QED
            BY <5>1, <5>3, StatusMoved DEF CanMove, Typed, Status
      <4>2. QED
          BY <1>0, <1>5, <4>1 DEF OneUse, Attached
    <3>2. CASE phase # "store"
      <4>1. phase \notin InUse /\ (status'[u] = "unused" => status[u] = "unused")
        <5>1. phase \in {"gone", "500"}
            BY <1>2, <2>2, <3>2, DeliveryMoved DEF LockUuid, Typed, Answered
        <5>2. status'[u] = "unused" => status[u] = "unused"
            BY <2>2, StatusMoved DEF LockUuid, Typed, Status
        <5>3. QED
            BY <5>1, <5>2 DEF InUse
      <4>2. QED
          BY <1>0, <1>2, <1>5, <4>1 DEF OneUse, Attached
    <3>3. QED
        BY <3>1, <3>2
  <2>3. CASE StoreMessage(u)
      BY <1>0, <1>5, <2>3 DEF StoreMessage, OneUse, Attached, InUse
  <2>4. CASE RollBack(u)
    <3>1. delivery[u].phase \in InUse /\ delivery'[u].phase = "500"
        BY <2>4, DeliveryMoved DEF RollBack, InUse, Answered, Typed
    <3>2. QED
        BY <1>0, <1>5, <3>1 DEF OneUse, Attached, InUse
  <2>5. CASE ConsumeUuid(u)
    <3>1. delivery[u].phase \in InUse /\ delivery'[u].phase = "200"
        BY <2>5, DeliveryMoved DEF ConsumeUuid, InUse, Answered, Typed
    <3>2. QED
        BY <1>0, <1>5, <3>1 DEF OneUse, Attached, InUse
  <2>6. QED
      BY <2>1, <2>2, <2>3, <2>4, <2>5 DEF Deliver
<1>7. QED
    BY <1>4, <1>5, <1>6 DEF UsesIInv

\* One socket changes.
LEMMA SocketSet ==
    ASSUME SocketsTyped, NEW s \in Socket, NEW r \in SocketState,
           r.kind = "sse" => r.uuid = Nil,
           r.kind = "ws" /\ r.phase # "new" => r.uuid \in Uuid,
           socket' = [socket EXCEPT ![s] = r]
    PROVE  /\ SocketsTyped' /\ socket'[s] = r
           /\ \A t \in Socket : t # s => socket'[t] = socket[t]
BY DEF SocketsTyped

\* What a step does to its socket
LEMMA SocketMoves ==
    ASSUME SocketsTyped, NEW s \in Socket,
           NEW phase \in {"lock", "attached", "closing", "over"} \cup {socket[s].phase},
           socket[s].phase = "new" => phase = "new",
           \/ socket' = [socket EXCEPT ![s].phase = phase]
           \/ socket' = [socket EXCEPT ![s].phase = phase, ![s].open = FALSE]
           \/ phase = socket[s].phase /\ socket' = [socket EXCEPT ![s].open = FALSE]
           \/ \E c \in Credential :
                 socket' = [socket EXCEPT ![s].phase = phase, ![s].credential = c]
    PROVE  /\ SocketsTyped'
           /\ socket'[s].phase = phase /\ socket'[s].uuid = socket[s].uuid
           /\ \A t \in Socket : t # s => socket'[t] = socket[t]
<1>1. /\ socket[s] \in SocketState
      /\ phase \in {"new", "lookup", "lock", "attached", "closing", "over"}
    BY DEF SocketsTyped, SocketState
<1>2. ASSUME NEW r \in SocketState, socket' = [socket EXCEPT ![s] = r],
             r.kind = socket[s].kind, r.uuid = socket[s].uuid, r.phase = phase
      PROVE  /\ SocketsTyped'
             /\ socket'[s].phase = phase /\ socket'[s].uuid = socket[s].uuid
             /\ \A t \in Socket : t # s => socket'[t] = socket[t]
  <2>1. /\ r.kind = "sse" => r.uuid = Nil
        /\ r.kind = "ws" /\ r.phase # "new" => r.uuid \in Uuid
      BY <1>2 DEF SocketsTyped
  <2>2. QED
      BY <1>2, <2>1, SocketSet
<1>3. CASE socket' = [socket EXCEPT ![s].phase = phase]
  <2> DEFINE r == [socket[s] EXCEPT !.phase = phase]
  <2>1. r \in SocketState /\ r.kind = socket[s].kind /\ r.uuid = socket[s].uuid /\ r.phase = phase
      BY <1>1 DEF SocketState
  <2>2. socket' = [socket EXCEPT ![s] = r]
      BY <1>3 DEF SocketsTyped
  <2> HIDE DEF r
  <2>3. QED
      BY <1>2, <2>1, <2>2
<1>4. CASE socket' = [socket EXCEPT ![s].phase = phase, ![s].open = FALSE]
  <2> DEFINE r == [socket[s] EXCEPT !.phase = phase, !.open = FALSE]
  <2>1. r \in SocketState /\ r.kind = socket[s].kind /\ r.uuid = socket[s].uuid /\ r.phase = phase
      BY <1>1 DEF SocketState
  <2>2. socket' = [socket EXCEPT ![s] = r]
      BY <1>4 DEF SocketsTyped
  <2> HIDE DEF r
  <2>3. QED
      BY <1>2, <2>1, <2>2
<1>5. CASE phase = socket[s].phase /\ socket' = [socket EXCEPT ![s].open = FALSE]
  <2> DEFINE r == [socket[s] EXCEPT !.open = FALSE]
  <2>1. r \in SocketState /\ r.kind = socket[s].kind /\ r.uuid = socket[s].uuid /\ r.phase = phase
      BY <1>1, <1>5 DEF SocketState
  <2>2. socket' = [socket EXCEPT ![s] = r]
      BY <1>5 DEF SocketsTyped
  <2> HIDE DEF r
  <2>3. QED
      BY <1>2, <2>1, <2>2
<1>6. ASSUME NEW c \in Credential,
             socket' = [socket EXCEPT ![s].phase = phase, ![s].credential = c]
      PROVE  /\ SocketsTyped'
             /\ socket'[s].phase = phase /\ socket'[s].uuid = socket[s].uuid
             /\ \A t \in Socket : t # s => socket'[t] = socket[t]
  <2> DEFINE r == [socket[s] EXCEPT !.phase = phase, !.credential = c]
  <2>1. r \in SocketState /\ r.kind = socket[s].kind /\ r.uuid = socket[s].uuid /\ r.phase = phase
      BY <1>1 DEF SocketState
  <2>2. socket' = [socket EXCEPT ![s] = r]
      BY <1>6 DEF SocketsTyped
  <2> HIDE DEF r
  <2>3. QED
      BY <1>2, <2>1, <2>2
<1>7. QED
    BY <1>3, <1>4, <1>5, <1>6

\* A socket that lets go, or only looks
LEMMA SocketLetsGo ==
    ASSUME Typed, UsesIInv, NEW s \in Socket, delivery' = delivery, SocketsTyped',
           socket'[s].uuid = socket[s].uuid,
           \/ socket'[s].phase \notin {"attached", "closing"}
           \/ socket[s].phase \in {"attached", "closing"}
           \/ socket[s].uuid \notin Uuid,
           \A t \in Socket : t # s => socket'[t] = socket[t],
           \A u \in Uuid : status'[u] = "unused" => status[u] = "unused"
    PROVE  UsesIInv'
<1>1. \A t \in Socket, u \in Uuid : Attached(t, u)' => Attached(t, u)
    BY DEF Attached
<1>2. QED
    BY <1>1, NoNewUse

LEMMA LockUses ==
    ASSUME Typed, UsesIInv, NEW s \in Socket, WsLock(s), delivery' = delivery
    PROVE  UsesIInv'
<1>u. PICK u : u = socket[s].uuid
    OBVIOUS
<1>0. SocketsTyped /\ socket[s].phase = "lock" /\ socket[s] \in SocketState
    BY DEF UsesIInv, SocketsTyped, WsLock
<1>7. delivery' = delivery
    OBVIOUS
<1>1. /\ \A v \in Uuid : status'[v] = "unused" => status[v] = "unused"
      /\ \A v \in Uuid : v # u => status'[v] = status[v]
    BY <1>u DEF WsLock, Move, CanMove, Typed, RelayTyped
<1>2. CASE Hang(s)
  <2>1. /\ SocketsTyped' /\ socket'[s].phase = "over" /\ socket'[s].uuid = socket[s].uuid
        /\ \A t \in Socket : t # s => socket'[t] = socket[t]
      BY <1>0, <1>2, SocketMoves DEF Hang
  <2>2. QED
      BY <1>1, <2>1, SocketLetsGo, SMTT(30)
<1>3. CASE SetSocket(s, "attached") /\ CanMove(u, "unused") /\ Move(u, "unused", "active")
  <2>1. /\ SocketsTyped' /\ socket'[s].phase = "attached" /\ socket'[s].uuid = socket[s].uuid
        /\ \A t \in Socket : t # s => socket'[t] = socket[t]
      BY <1>0, <1>3, SocketMoves DEF SetSocket
  <2>2. CASE u \notin Uuid
      BY <1>u, <1>1, <2>1, <2>2, <1>7, SocketLetsGo
  <2>3. CASE u \in Uuid
    <3>1. status[u] = "unused" /\ status'[u] = "active"
        BY <1>3, <2>3, StatusMoved DEF CanMove, Typed, Status
    <3>2. delivery[u].phase \notin InUse /\ \A t \in Socket : ~Attached(t, u)
        BY <2>3, <3>1 DEF UsesIInv, OneUse
    <3>3. \A t \in Socket : Attached(t, u)' => t = s
        BY <1>u, <2>1, <3>2 DEF Attached
    <3>4. OneUse(u)'
      <4>1. delivery'[u].phase \notin InUse /\ status'[u] # "unused"
          BY <1>7, <3>1, <3>2
      <4>2. \A t, x \in Socket : Attached(t, u)' /\ Attached(x, u)' => t = x
          BY <3>3
      <4>3. QED
          BY <4>1, <4>2 DEF OneUse
    <3>5. \A t \in Socket, v \in Uuid : v # u => (Attached(t, v)' => Attached(t, v))
        BY <1>u, <2>1 DEF Attached
    <3>6. \A v \in Uuid : v # u => OneUse(v)'
        BY <1>1, <1>7, <3>5 DEF UsesIInv, OneUse
    <3>7. QED
        BY <2>1, <3>4, <3>6 DEF UsesIInv
  <2>4. QED
      BY <2>2, <2>3
<1>4. QED
    BY <1>u, <1>2, <1>3 DEF WsLock

LEMMA ConnectUses ==
    ASSUME Typed, UsesIInv, NEW s \in Socket, Connect(s)
    PROVE  UsesIInv'
<1>0. delivery' = delivery /\ SocketsTyped /\ socket[s] \in SocketState
    BY DEF Connect, UsesIInv, SocketsTyped
<1>1. CASE WsLookup(s)
  <2>1. socket[s].phase = "lookup" /\ socket[s].uuid \in Uuid /\ UNCHANGED status
      BY <1>0, <1>1 DEF WsLookup, SocketsTyped, redis
  <2>2. issuedTo[socket[s].uuid] \in Credential
      BY <2>1 DEF Typed, RelayTyped
  <2>3. PICK phase \in {"lock", "over"} :
            \/ socket' = [socket EXCEPT ![s].phase = phase, ![s].open = FALSE]
            \/ \E c \in Credential :
                  socket' = [socket EXCEPT ![s].phase = phase, ![s].credential = c]
      BY <1>1, <2>2 DEF WsLookup, Hang
  <2>4. /\ SocketsTyped' /\ socket'[s].phase = phase /\ socket'[s].uuid = socket[s].uuid
        /\ \A t \in Socket : t # s => socket'[t] = socket[t]
      BY <1>0, <2>1, <2>3, SocketMoves
  <2>5. QED
      BY <1>0, <2>1, <2>4, SocketLetsGo
<1>2. CASE WsTeardown(s)
  <2>1. socket[s].phase = "closing" /\ SetSocket(s, "over")
      BY <1>2 DEF WsTeardown
  <2>2. \A u \in Uuid : status'[u] = "unused" => status[u] = "unused"
      BY <1>2 DEF WsTeardown, Move, CanMove, Typed, RelayTyped
  <2>3. /\ SocketsTyped' /\ socket'[s].uuid = socket[s].uuid
        /\ \A t \in Socket : t # s => socket'[t] = socket[t]
      BY <1>0, <2>1, SocketMoves DEF SetSocket
  <2>4. QED
      BY <1>0, <2>1, <2>2, <2>3, SocketLetsGo
<1>3. CASE SseAttach(s)
  <2>1. /\ socket[s].phase = "lookup" /\ socket[s].uuid = Nil /\ UNCHANGED status
        /\ SetSocket(s, "attached") \/ Hang(s)
      BY <1>0, <1>3 DEF SseAttach, SocketsTyped, redis
  <2>2. /\ SocketsTyped' /\ socket'[s].uuid = socket[s].uuid
        /\ \A t \in Socket : t # s => socket'[t] = socket[t]
      BY <1>0, <2>1, SocketMoves DEF SetSocket, Hang
  <2>3. QED
      BY <1>0, <2>1, <2>2, SocketLetsGo, RelayAssumption
<1>4. CASE Close(s)
  <2>1. UNCHANGED status
      BY <1>4 DEF Close, redis
  <2>2. CASE socket[s].phase # "attached" /\ socket' = [socket EXCEPT ![s].open = FALSE]
    <3>1. /\ SocketsTyped' /\ socket'[s].uuid = socket[s].uuid
          /\ socket'[s].phase = socket[s].phase
          /\ \A t \in Socket : t # s => socket'[t] = socket[t]
        BY <1>0, <2>2, SocketMoves
    <3>2. QED
        BY <1>0, <2>1, <3>1, SocketLetsGo
  <2>3. CASE /\ socket[s].phase = "attached"
             /\ \/ socket' = [socket EXCEPT ![s].open = FALSE, ![s].phase = "closing"]
                \/ Hang(s)
    <3>1. PICK phase \in {"closing", "over"} :
              socket' = [socket EXCEPT ![s].phase = phase, ![s].open = FALSE]
      <4>1. CASE Hang(s)
          BY <4>1 DEF Hang
      <4>2. CASE socket' = [socket EXCEPT ![s].open = FALSE, ![s].phase = "closing"]
        <5>1. [socket[s] EXCEPT !.open = FALSE, !.phase = "closing"] =
                  [socket[s] EXCEPT !.phase = "closing", !.open = FALSE]
            BY <1>0 DEF SocketState
        <5>2. QED
            BY <4>2, <5>1 DEF SocketsTyped
      <4>3. QED
          BY <2>3, <4>1, <4>2
    <3>2. /\ SocketsTyped' /\ socket'[s].uuid = socket[s].uuid
          /\ \A t \in Socket : t # s => socket'[t] = socket[t]
        BY <1>0, <2>3, <3>1, SocketMoves
    <3>3. QED
        BY <1>0, <2>1, <2>3, <3>2, SocketLetsGo
  <2>4. QED
      BY <1>4, <2>2, <2>3 DEF Close
<1>5. QED
    BY <1>0, <1>1, <1>2, <1>3, <1>4, LockUses DEF Connect

\* A connection is opened: nothing is attached yet.
LEMMA OpenUses ==
    ASSUME Typed, UsesIInv, NEW d \in Device, NEW s \in Socket, OpenConnection(d, s)
    PROVE  UsesIInv'
<1>0. SocketsTyped /\ delivery' = delivery /\ status' = status
  <2>1. delivery' = delivery /\ status' = status
      BY DEF OpenConnection, OpenSocket, redis
  <2>2. QED
      BY <2>1 DEF UsesIInv
<1>1. ASSUME NEW kind \in {"ws", "sse"}, NEW u \in Uuid \cup {Nil},
             kind = "ws" => u \in Uuid, kind = "sse" => u = Nil,
             OpenSocket(s, kind, u, CredentialOf(d))
      PROVE  UsesIInv'
  <2> DEFINE r == [phase |-> "lookup", kind |-> kind, uuid |-> u, credential |-> CredentialOf(d),
                   open |-> TRUE]
  <2>1. r \in SocketState /\ r.kind = kind /\ r.uuid = u /\ r.phase = "lookup"
      BY CredentialTyped DEF SocketState
  <2>2. socket' = [socket EXCEPT ![s] = r]
      BY <1>1 DEF OpenSocket
  <2> HIDE DEF r
  <2>3. /\ SocketsTyped' /\ socket'[s] = r
        /\ \A t \in Socket : t # s => socket'[t] = socket[t]
      BY <1>0, <1>1, <2>1, <2>2, SocketSet
  <2>4. \A t \in Socket, v \in Uuid : Attached(t, v)' => Attached(t, v)
      BY <2>1, <2>3 DEF Attached
  <2>5. QED
      BY <1>0, <2>3, <2>4, NoNewUse
<1>2. CASE \E u \in uuids[d] : OpenSocket(s, "ws", u, CredentialOf(d))
  <2>1. PICK u \in uuids[d] : OpenSocket(s, "ws", u, CredentialOf(d))
      BY <1>2
  <2>2. u \in Uuid
      BY DEF Typed, DeviceTyped
  <2>3. QED
      BY <1>1, <2>1, <2>2
<1>3. CASE OpenSocket(s, "sse", Nil, CredentialOf(d))
    BY <1>1, <1>3
<1>4. QED
    BY <1>2, <1>3 DEF OpenConnection

LEMMA RestartUses ==
    ASSUME Typed, UsesIInv, RestartRelay
    PROVE  UsesIInv'
<1>1. /\ status' = [u \in Uuid |-> IF status[u] \in {"active", "in_flight"} THEN "consumed"
                                                                            ELSE status[u]]
      /\ delivery' = [u \in Uuid |-> IF delivery[u].phase \in Answered THEN delivery[u]
                                     ELSE [delivery[u] EXCEPT !.phase = "lost"]]
      /\ socket' = [s \in Socket |-> IF socket[s].phase = "new" THEN socket[s]
                                     ELSE [socket[s] EXCEPT !.phase = "over", !.open = FALSE]]
    BY DEF RestartRelay
<1>2. \A u \in Uuid : delivery'[u].phase \notin InUse
  <2>1. ASSUME NEW u \in Uuid PROVE delivery'[u].phase \notin InUse
    <3>1. delivery[u] \in Delivery
        BY DEF Typed, RelayTyped
    <3>2. [delivery[u] EXCEPT !.phase = "lost"].phase = "lost"
        BY <3>1 DEF Delivery
    <3>3. CASE delivery[u].phase \in Answered
        BY <1>1, <3>3 DEF Answered, InUse
    <3>4. CASE delivery[u].phase \notin Answered
      <4>1. delivery'[u].phase = "lost"
          BY <1>1, <3>2, <3>4
      <4>2. QED
          BY <4>1 DEF InUse
    <3>5. QED
        BY <3>3, <3>4
  <2>2. QED
      BY <2>1
<1>3. \A s \in Socket : /\ socket'[s] \in SocketState
                        /\ socket'[s].phase \in {"new", "over"}
                        /\ socket'[s].phase = "new" <=> socket[s].phase = "new"
                        /\ socket'[s].kind = socket[s].kind /\ socket'[s].uuid = socket[s].uuid
  <2>1. ASSUME NEW s \in Socket
        PROVE  /\ socket'[s] \in SocketState
               /\ socket'[s].phase \in {"new", "over"}
               /\ socket'[s].phase = "new" <=> socket[s].phase = "new"
               /\ socket'[s].kind = socket[s].kind /\ socket'[s].uuid = socket[s].uuid
    <3> DEFINE r == [socket[s] EXCEPT !.phase = "over", !.open = FALSE]
    <3>1. socket[s] \in SocketState
        BY DEF UsesIInv, SocketsTyped
    <3>2. /\ r \in SocketState /\ r.phase = "over"
          /\ r.kind = socket[s].kind /\ r.uuid = socket[s].uuid
        BY <3>1 DEF SocketState
    <3>3. socket'[s] = IF socket[s].phase = "new" THEN socket[s] ELSE r
        BY <1>1
    <3> HIDE DEF r
    <3>4. QED
        BY <3>1, <3>2, <3>3
  <2>2. QED
      BY <2>1
<1>4. SocketsTyped'
  <2>1. socket' \in [Socket -> SocketState]
      BY <1>1, <1>3
  <2>2. SocketsTyped
      BY DEF UsesIInv
  <2>3. QED
      BY <1>3, <2>1, <2>2 DEF SocketsTyped
<1>5. \A s \in Socket, u \in Uuid : ~Attached(s, u)'
    BY <1>3 DEF Attached
<1>6. QED
    BY <1>2, <1>4, <1>5 DEF UsesIInv, OneUse

LEMMA GetUuidsUses ==
    ASSUME Typed, UsesIInv, NEW d \in Device, NEW fresh \in SUBSET Uuid, GetUuids(d, fresh)
    PROVE  UsesIInv'
<1>1. /\ socket' = socket
      /\ delivery' = [u \in Uuid |-> IF u \in fresh THEN [phase |-> "none", msg |-> Nil]
                                                    ELSE delivery[u]]
      /\ status' = [u \in Uuid |-> IF u \in fresh THEN "unused" ELSE status[u]]
      /\ \A u \in fresh, s \in Socket : socket[s].uuid = u => socket[s].phase = "over"
    BY DEF GetUuids, Register, connections, Fresh
<1>2. SocketsTyped' /\ \A s \in Socket, u \in Uuid : Attached(s, u)' => Attached(s, u)
    BY <1>1 DEF UsesIInv, SocketsTyped, Attached
<1>3. \A u \in Uuid :
          /\ delivery'[u].phase \in InUse => delivery[u].phase \in InUse
          /\ status'[u] = "unused" =>
                \/ status[u] = "unused"
                \/ delivery'[u].phase \notin InUse /\ \A s \in Socket : ~Attached(s, u)'
  <2>1. ASSUME NEW u \in fresh
        PROVE  delivery'[u].phase = "none" /\ \A s \in Socket : ~Attached(s, u)'
      BY <1>1 DEF Attached
  <2>2. \A u \in Uuid \ fresh : delivery'[u] = delivery[u] /\ status'[u] = status[u]
      BY <1>1
  <2>3. QED
      BY <2>1, <2>2 DEF InUse
<1>4. QED
    BY <1>2, <1>3, NoNewUse

LEMMA UsesStep == Typed /\ UsesIInv /\ [DeliveryNext]_allVars => UsesIInv'
<1> SUFFICES ASSUME Typed, UsesIInv, [DeliveryNext]_allVars PROVE UsesIInv'
    OBVIOUS
<1>1. ASSUME UNCHANGED <<status, delivery, socket>> PROVE UsesIInv'
    BY <1>1, NoUseTouched
<1>2. CASE UNCHANGED allVars
    BY <1>1, <1>2 DEF allVars, relayVars, redis, connections
<1>3. CASE RelayStep
  <2>1. CASE LoseRedis
    <3>1. UNCHANGED <<delivery, socket>> /\ \A u \in Uuid : status'[u] = "absent"
        BY <2>1 DEF LoseRedis, connections
    <3>2. QED
        BY <3>1, NoUseTouched
  <2>2. CASE Expire
    <3>1. /\ UNCHANGED <<delivery, socket>>
          /\ \A u \in Uuid : status'[u] \in {"absent", status[u]}
        BY <2>2 DEF Expire, connections, Typed, RelayTyped
    <3>2. QED
        BY <3>1, NoUseTouched
  <2>3. QED
      BY <1>3, <2>1, <2>2, DeliverUses, ConnectUses, RestartUses DEF RelayStep
<1>4. ASSUME NEW w \in Worker, DeliverMessage(w) \/ \E m \in Msg : CreateMessage(w, m)
      PROVE  UsesIInv'
  <2>1. CASE PostToRelay(w)
    <3>1. UNCHANGED <<status, socket>>
        BY <2>1 DEF PostToRelay, redis, connections
    <3>2. ASSUME NEW u \in Uuid, delivery'[u].phase \in InUse PROVE delivery[u].phase \in InUse
      <4>1. CASE delivery'[u] = delivery[u]
          BY <3>2, <4>1
      <4>2. CASE delivery'[u] = [phase |-> "read", msg |-> worker[w].msg]
        <5>1. delivery'[u].phase = "read"
            BY <4>2, SMTT(30)
        <5>2. QED
            BY <3>2, <5>1 DEF InUse
      <4>3. QED
          BY <2>1, <4>1, <4>2, PostTyped
    <3>3. QED
        BY <3>1, <3>2, NoUseTouched
  <2>2. CASE ~PostToRelay(w)
      BY <1>1, <1>4, <2>2 DEF DeliverMessage, FindUncleared, ClaimUuid, RelayAnswers,
              SetDeliveryUuid, CreateMessage, relayVars, redis, connections
  <2>3. QED
      BY <2>1, <2>2
<1>5. CASE RestartWallet
    BY <1>1, <1>5 DEF RestartWallet, redis, connections
<1>6. ASSUME NEW d \in Device,
             \/ \E chosen \in SUBSET Uuid :
                   GetUuids(d, chosen) \/ \E w \in Worker : RegisterCardUuids(d, w, chosen)
             \/ DeregisterCardUuids(d)
             \/ \E s \in Socket : OpenConnection(d, s)
             \/ FetchPending(d) \/ HandleInbound(d) \/ SendAck(d) \/ RestartApp(d)
      PROVE  UsesIInv'
  <2>1. CASE \E chosen \in SUBSET Uuid : GetUuids(d, chosen)
      BY <2>1, GetUuidsUses
  <2>2. CASE \E s \in Socket : OpenConnection(d, s)
      BY <2>2, OpenUses
  <2>3. CASE \/ \E chosen \in SUBSET Uuid, w \in Worker : RegisterCardUuids(d, w, chosen)
             \/ DeregisterCardUuids(d)
             \/ FetchPending(d) \/ HandleInbound(d) \/ SendAck(d) \/ RestartApp(d)
    <3>1. UNCHANGED <<status, delivery, socket>>
        BY <2>3 DEF RegisterCardUuids, DeregisterCardUuids, FetchPending, Pending, HandleInbound,
                SendAck, Ack, RestartApp, relayVars, redis, connections
    <3>2. QED
        BY <1>1, <3>1
  <2>4. QED
      BY <1>6, <2>1, <2>2, <2>3
<1>7. CASE PollDeletes
    BY <1>1, <1>7 DEF PollDeletes, DequeueDeletes, connections
<1>8. ASSUME NEW u \in Uuid, ExecuteDelete(u) PROVE UsesIInv'
    BY <1>1, <1>8 DEF ExecuteDelete, Settle, Requeue, redis, connections
<1>9. ASSUME NEW u \in Uuid, UuidExpires(u) PROVE UsesIInv'
  <2>1. UNCHANGED <<delivery, socket>> /\ status' = [status EXCEPT ![u] = "absent"]
      BY <1>9 DEF UuidExpires, connections
  <2>2. \A v \in Uuid : status'[v] \in {"absent", status[v]}
      BY <2>1 DEF Typed, RelayTyped
  <2>3. QED
      BY <2>1, <2>2, NoUseTouched
<1>10. QED
    BY <1>2, <1>3, <1>4, <1>5, <1>6, <1>7, <1>8, <1>9 DEF DeliveryNext

\* A delivery that has locked a UUID and the sockets opened with it exclude each
\* other, through restarts and losses: transitionUuid (relay/src/utils/storage/redis.ts)
\* compares and sets in one step.
THEOREM UuidsUsedOnce == DeliverySpec => []UuidUsedOnce
<1>1. DeliveryInit => Typed /\ UsesIInv
    BY TypedInitially, UsesInitially
<1>2. Typed /\ UsesIInv /\ [DeliveryNext]_allVars => (Typed /\ UsesIInv)'
    BY TypedStep, UsesStep
<1>3. Typed /\ UsesIInv => UuidUsedOnce
    BY OneUseIsOnce
<1>4. QED
    BY <1>1, <1>2, <1>3, PTL DEF DeliverySpec

-----------------------------------------------------------------------------
(* MessageDelivery: what is cleared is stored                                *)

\* A UUID is live once the wallet service has claimed it, until it is made anew.
Live(u) == pool[u] # Nil /\ pool[u].consumed
\* The wallet service would take a delete of u for one of m, ...
Bound(u, m) ==
    \/ m \in Held /\ deliveryUuid[m] = u
    \/ \E w \in Worker : worker[w].uuid = u /\ worker[w].msg = m
\* ... m is under way with u, and u is acknowledged.
Sent(u, m) == delivery[u].phase \notin Answered /\ delivery[u].msg = m
Around(u, m) ==
    \/ Sent(u, m)
    \/ \E c \in Credential : <<u, m>> \in messages[c]
    \/ \E d \in Device : <<u, m>> \in received[d]
Acked(u) == u \in deletes \cup clearing \/ \E d \in Device : u \in toAck[d]

\* Messages go to the device they are addressed to.
Directed ==
    /\ \A u \in Uuid, m \in Msg : Sent(u, m) => issuedTo[u][1] = Addressee[m]
    /\ \A u \in Uuid, m \in Msg, c \in Credential :
          <<u, m>> \in messages[c] => c[1] = Addressee[m]
    /\ \A u \in Uuid, m \in Msg, d \in Device : <<u, m>> \in received[d] => d = Addressee[m]
    /\ \A u \in Uuid : pool[u] # Nil => pool[u].device = issuedTo[u][1]
    /\ \A d \in Device, u \in Uuid : u \in uuids[d] => issuedTo[u][1] = d
    /\ \A w \in Worker, u \in Uuid :
          worker[w].uuid = u => pool[u] # Nil /\ pool[u].device = Addressee[worker[w].msg]
\* What is handed over was accepted.
Queued ==
    /\ cleared \subseteq Msg
    /\ \A m \in Msg : deliveryUuid[m] # Nil => m \in Range(queue)
    /\ \A w \in Worker : /\ worker[w].msg \in Range(queue) \cup {Nil}
                         /\ worker[w].todo \subseteq Range(queue)
\* A UUID stands for one message, and for none before it is claimed.
OneMessage == \A u \in Uuid, m, n \in Msg : Bound(u, m) /\ (Bound(u, n) \/ Around(u, n)) => m = n
Free(u) == ~Acked(u) /\ \A m \in Msg : ~Bound(u, m) /\ ~Around(u, m)
Unclaimed == \A u \in Uuid : Live(u) \/ Free(u)
AckedIsStored ==
    \A u \in Uuid, m \in Msg : Acked(u) /\ Bound(u, m) => m \in history[Addressee[m]]
Tracked == OneMessage /\ Unclaimed /\ AckedIsStored /\ ClearedIsStored
ClearIInv == Directed /\ Queued /\ Tracked

\* How a step may change what is known of UUIDs and messages
Evolves ==
    /\ \A u \in Uuid : Live(u) => Live(u)' \/ Free(u)'
    /\ \A u \in Uuid :
          Acked(u)' => Acked(u) \/ \E n \in Msg : Around(u, n) /\ n \in history'[Addressee[n]]
    /\ \A u \in Uuid, m \in Msg :
          Bound(u, m)' => \/ Bound(u, m)
                          \/ ~Live(u) /\ Live(u)' /\ \A n \in Msg : Bound(u, n)' => n = m
    /\ \A u \in Uuid, m \in Msg : Around(u, m)' => Around(u, m) \/ Bound(u, m)
    /\ \A m \in Msg : m \in history[Addressee[m]] => m \in history'[Addressee[m]]
    /\ \A m \in cleared' : m \in cleared \/ \E u \in Uuid : Acked(u) /\ Bound(u, m)

LEMMA EvolvesKeeps ==
    ASSUME Tracked, Evolves, cleared' \subseteq Msg
    PROVE  Tracked'
<1>0. OneMessage /\ Unclaimed /\ AckedIsStored /\ ClearedIsStored
    BY DEF Tracked
<1>1. Unclaimed'
  <2>1. ASSUME NEW u \in Uuid, ~Live(u)', ~Live(u) PROVE Free(u)'
    <3>1. Free(u)
        BY <1>0, <2>1 DEF Unclaimed
    <3>2. QED
        BY <2>1, <3>1 DEF Evolves, Free
  <2>2. QED
      BY <2>1 DEF Evolves, Unclaimed
<1>2. ASSUME NEW u \in Uuid, NEW m \in Msg, Bound(u, m)', ~Bound(u, m)
      PROVE  /\ \A n \in Msg : (Bound(u, n)' => n = m) /\ ~Around(u, n)'
             /\ ~Acked(u)'
  <2>1. ~Live(u) /\ \A n \in Msg : Bound(u, n)' => n = m
      BY <1>2 DEF Evolves
  <2>2. Free(u)
      BY <1>0, <2>1 DEF Unclaimed
  <2>3. QED
      BY <2>1, <2>2 DEF Evolves, Free
<1>3. OneMessage'
  <2>1. ASSUME NEW u \in Uuid, NEW m \in Msg, NEW n \in Msg, Bound(u, m)',
               Bound(u, n)' \/ Around(u, n)'
        PROVE  m = n
    <3>1. CASE ~Bound(u, m)
        BY <1>2, <2>1, <3>1
    <3>2. CASE Bound(u, m) /\ ~Bound(u, n) /\ Bound(u, n)'
        BY <1>2, <2>1, <3>2
    <3>3. CASE Bound(u, m) /\ (Bound(u, n) \/ ~Bound(u, n)')
      <4>1. Bound(u, n) \/ Around(u, n)
          BY <2>1, <3>3 DEF Evolves
      <4>2. QED
          BY <1>0, <3>3, <4>1 DEF OneMessage
    <3>4. QED
        BY <3>1, <3>2, <3>3
  <2>2. QED
      BY <2>1 DEF OneMessage
<1>4. AckedIsStored'
  <2>1. ASSUME NEW u \in Uuid, NEW m \in Msg, Acked(u)', Bound(u, m)'
        PROVE  m \in history'[Addressee[m]]
    <3>1. Bound(u, m)
        BY <1>2, <2>1
    <3>2. CASE Acked(u)
        BY <1>0, <3>1, <3>2 DEF AckedIsStored, Evolves
    <3>3. CASE ~Acked(u)
      <4>1. PICK n \in Msg : Around(u, n) /\ n \in history'[Addressee[n]]
          BY <2>1, <3>3 DEF Evolves
      <4>2. m = n
          BY <1>0, <3>1, <4>1 DEF OneMessage
      <4>3. QED
          BY <4>1, <4>2
    <3>4. QED
        BY <3>2, <3>3
  <2>2. QED
      BY <2>1 DEF AckedIsStored
<1>5. ClearedIsStored'
  <2>1. ASSUME NEW m \in cleared' PROVE m \in history'[Addressee[m]]
    <3>1. m \in Msg
        OBVIOUS
    <3>2. m \in history[Addressee[m]]
        BY <1>0, <2>1, <3>1 DEF Evolves, ClearedIsStored, AckedIsStored
    <3>3. QED
        BY <3>1, <3>2 DEF Evolves
  <2>2. QED
      BY <2>1 DEF ClearedIsStored
<1>6. QED
    BY <1>1, <1>3, <1>4, <1>5 DEF Tracked

LEMMA ClearInitially == DeliveryInit => ClearIInv
<1> SUFFICES ASSUME DeliveryInit PROVE ClearIInv
    OBVIOUS
<1>1. \A u \in Uuid : /\ delivery[u].phase \in Answered /\ pool[u] = Nil /\ ~Acked(u)
                      /\ \A m \in Msg : ~Bound(u, m) /\ ~Around(u, m) /\ ~Sent(u, m)
  <2>1. ASSUME NEW u \in Uuid
        PROVE  /\ delivery[u].phase \in Answered /\ pool[u] = Nil /\ ~Acked(u)
               /\ u # Nil /\ \A w \in Worker : worker[w].uuid = Nil
      BY RelayAssumption
      DEF DeliveryInit, RelayInit, WalletInit, Acked, Answered, Idle
  <2>2. QED
      BY <2>1 DEF DeliveryInit, RelayInit, WalletInit, Bound, Around, Sent
<1>2. Directed
  <2>1. \A w \in Worker : worker[w].uuid = Nil
      BY DEF DeliveryInit, WalletInit, Idle
  <2>2. QED
      BY <1>1, <2>1, RelayAssumption DEF Directed, DeliveryInit, RelayInit, WalletInit
<1>3. Queued
    BY DEF Queued, DeliveryInit, WalletInit, Idle
<1>4. Tracked
    BY <1>1 DEF Tracked, OneMessage, Unclaimed, Free, AckedIsStored, ClearedIsStored, DeliveryInit,
                WalletInit
<1>5. QED
    BY <1>2, <1>3, <1>4 DEF ClearIInv

\* Nothing new is bound when the tables stay and no worker takes up a UUID, ...
LEMMA NothingBound ==
    ASSUME UNCHANGED <<queue, cleared, deliveryUuid>>,
           \A w \in Worker : \/ worker'[w] = worker[w]
                             \/ worker'[w].uuid = Nil
                             \/ /\ worker'[w].uuid = worker[w].uuid
                                /\ worker'[w].msg = worker[w].msg
    PROVE  \A u \in Uuid, m \in Msg : Bound(u, m)' => Bound(u, m)
BY RelayAssumption DEF Bound, Held

\* ... and a step that leaves the wallet service and the acknowledgements alone ...
LEMMA OnlyAround ==
    ASSUME UNCHANGED <<walletVars, history>>,
           \A u \in Uuid : Acked(u)' => Acked(u),
           \A u \in Uuid, m \in Msg : Around(u, m)' => Around(u, m)
    PROVE  Evolves
<1>1. \A u \in Uuid, m \in Msg : Bound(u, m)' => Bound(u, m)
    BY NothingBound DEF walletVars, database
<1>2. \A u \in Uuid : Live(u) => Live(u)'
    BY DEF Live, walletVars, database
<1>3. cleared' = cleared
    BY DEF walletVars, database
<1>4. QED
    BY <1>1, <1>2, <1>3 DEF Evolves

\* What the relay passes on
Passes ==
    /\ \A u \in Uuid, m \in Msg, c \in Credential :
          <<u, m>> \in messages'[c] => \/ <<u, m>> \in messages[c]
                                       \/ Sent(u, m) /\ c = issuedTo[u]
    /\ \A u \in Uuid, m \in Msg, d \in Device :
          <<u, m>> \in received'[d] =>
              \/ <<u, m>> \in received[d]
              \/ Sent(u, m) /\ d = issuedTo[u][1]
              \/ \E c \in Credential : <<u, m>> \in messages[c] /\ c[1] = d

LEMMA PassesAround ==
    ASSUME Typed, Passes, \A u \in Uuid, m \in Msg : Sent(u, m)' => Sent(u, m)
    PROVE  \A u \in Uuid, m \in Msg : Around(u, m)' => Around(u, m)
BY ZenonT(120) DEF Passes, Around

LEMMA RelayKeeps ==
    ASSUME Typed, ClearIInv, UNCHANGED <<issuedTo, walletVars, history, uuids>>, Passes,
           \A u \in Uuid, m \in Msg : Sent(u, m)' => Sent(u, m),
           \A u \in Uuid : Acked(u)' => Acked(u)
    PROVE  ClearIInv'
<1>0. Directed /\ Queued /\ Tracked
    BY DEF ClearIInv
<1>1. Directed'
  <2>1. /\ \A u \in Uuid, m \in Msg : Sent(u, m)' => issuedTo'[u][1] = Addressee[m]
        /\ \A u \in Uuid, m \in Msg, c \in Credential :
              <<u, m>> \in messages'[c] => c[1] = Addressee[m]
        /\ \A u \in Uuid, m \in Msg, d \in Device :
              <<u, m>> \in received'[d] => d = Addressee[m]
      BY <1>0 DEF Directed, Passes
  <2>2. /\ \A u \in Uuid : pool'[u] # Nil => pool'[u].device = issuedTo'[u][1]
        /\ \A d \in Device, u \in Uuid : u \in uuids'[d] => issuedTo'[u][1] = d
        /\ \A w \in Worker, u \in Uuid :
              worker'[w].uuid = u => pool'[u] # Nil /\ pool'[u].device = Addressee[worker'[w].msg]
      BY <1>0 DEF Directed, walletVars, database
  <2>3. QED
      BY <2>1, <2>2 DEF Directed
<1>2. Queued'
    BY <1>0 DEF Queued, walletVars, database
<1>3. Evolves
    BY PassesAround, OnlyAround
<1>4. cleared' \subseteq Msg
  <2>1. cleared' = cleared
      BY DEF walletVars, database
  <2>2. QED
      BY <1>0, <2>1 DEF Queued
<1>5. QED
    BY <1>0, <1>1, <1>2, <1>3, <1>4, EvolvesKeeps DEF ClearIInv

LEMMA DeliverClear ==
    ASSUME Typed, ClearIInv, NEW u \in Uuid, Deliver(u), UNCHANGED <<walletVars, deviceVars>>
    PROVE  ClearIInv'
<1>0. /\ UNCHANGED <<issuedTo, deletes, clearing, toAck, history, uuids, walletVars>>
      /\ delivery[u] \in Delivery /\ issuedTo[u] \in Credential
      /\ messages \in [Credential -> SUBSET Blob] /\ received \in [Device -> SUBSET Blob]
    BY DEF Deliver, ReadUuid, LockUuid, StoreMessage, RollBack, ConsumeUuid, redis, deviceVars,
           Typed, RelayTyped
<1>1. delivery[u].phase \notin Answered
    BY DEF Deliver, ReadUuid, LockUuid, StoreMessage, RollBack, ConsumeUuid, Answered
<1>2. PICK phase \in {"lock", "store", "roll back", "consume"} \cup Answered : GoTo(u, phase)
    BY DEF Deliver, ReadUuid, LockUuid, StoreMessage, RollBack, ConsumeUuid, Answered
<1>3. \A v \in Uuid, m \in Msg : Sent(v, m)' => Sent(v, m)
    BY <1>1, <1>2, DeliveryMoved DEF Sent, Typed
<1>4. \A m \in Msg : m = delivery[u].msg => Sent(u, m)
    BY <1>1 DEF Sent
<1>5. Passes
  <2>1. CASE StoreMessage(u)
    <3>1. /\ received' = received
          /\ messages' \in {messages, [messages EXCEPT ![issuedTo[u]] =
                                          @ \cup {<<u, delivery[u].msg>>}]}
        BY <2>1 DEF StoreMessage
    <3>2. ASSUME NEW v \in Uuid, NEW m \in Msg, NEW c \in Credential, <<v, m>> \in messages'[c],
                 <<v, m>> \notin messages[c]
          PROVE  v = u /\ m = delivery[u].msg /\ c = issuedTo[u]
      <4>1. c = issuedTo[u]
          BY <1>0, <3>1, <3>2
      <4>2. messages'[c] \subseteq messages[c] \cup {<<u, delivery[u].msg>>}
          BY <1>0, <3>1, <4>1
      <4>3. <<v, m>> = <<u, delivery[u].msg>>
          BY <3>2, <4>2
      <4>4. QED
          BY <4>1, <4>3
    <3>3. QED
        BY <1>4, <3>1, <3>2, ZenonT(60) DEF Passes
  <2>2. CASE ConsumeUuid(u)
    <3>1. /\ messages' = messages
          /\ received' \in {received, [received EXCEPT ![issuedTo[u][1]] =
                                          @ \cup {<<u, delivery[u].msg>>}]}
        BY <2>2 DEF ConsumeUuid
    <3>2. ASSUME NEW v \in Uuid, NEW m \in Msg, NEW d \in Device, <<v, m>> \in received'[d],
                 <<v, m>> \notin received[d]
          PROVE  v = u /\ m = delivery[u].msg /\ d = issuedTo[u][1]
      <4>1. d = issuedTo[u][1]
          BY <1>0, <3>1, <3>2
      <4>2. received'[d] \subseteq received[d] \cup {<<u, delivery[u].msg>>}
          BY <1>0, <3>1, <4>1
      <4>3. <<v, m>> = <<u, delivery[u].msg>>
          BY <3>2, <4>2
      <4>4. QED
          BY <4>1, <4>3
    <3>3. QED
        BY <1>4, <3>1, <3>2, ZenonT(60) DEF Passes
  <2>3. CASE ReadUuid(u) \/ LockUuid(u) \/ RollBack(u)
    <3>1. UNCHANGED <<messages, received>>
        BY <2>3 DEF ReadUuid, LockUuid, RollBack, redis
    <3>2. QED
        BY <3>1 DEF Passes
  <2>4. QED
      BY <2>1, <2>2, <2>3 DEF Deliver
<1>6. \A v \in Uuid : Acked(v)' => Acked(v)
    BY <1>0 DEF Acked
<1>7. QED
    BY <1>0, <1>3, <1>5, <1>6, RelayKeeps

LEMMA RelayClear ==
    ASSUME Typed, ClearIInv, UNCHANGED <<walletVars, deviceVars>>,
           (\E s \in Socket : Connect(s)) \/ RestartRelay \/ LoseRedis \/ Expire
    PROVE  ClearIInv'
<1>1. UNCHANGED <<issuedTo, received, toAck, history, uuids, walletVars>>
    BY ZenonT(60) DEF Connect, WsLookup, WsLock, WsTeardown, SseAttach, Close, RestartRelay, LoseRedis,
           Expire, redis, deviceVars
<1>2. messages \in [Credential -> SUBSET Blob]
    BY DEF Typed, RelayTyped
<1>3. \A c \in Credential : messages'[c] \subseteq messages[c]
    BY <1>2, ZenonT(60) DEF Connect, WsLookup, WsLock, WsTeardown, SseAttach, Close, RestartRelay, LoseRedis,
           Expire, redis
<1>4. deletes' \subseteq deletes /\ clearing' \subseteq clearing
    BY DEF Connect, WsLookup, WsLock, WsTeardown, SseAttach, Close, RestartRelay, LoseRedis,
           Expire, redis
<1>5. \A u \in Uuid, m \in Msg : Sent(u, m)' => Sent(u, m)
  <2>1. CASE delivery' = delivery
      BY <2>1 DEF Sent
  <2>2. CASE RestartRelay
    <3>1. ASSUME NEW u \in Uuid PROVE delivery'[u].phase \in Answered
      <4>1. delivery[u] \in Delivery
          BY DEF Typed, RelayTyped
      <4>2. [delivery[u] EXCEPT !.phase = "lost"].phase = "lost"
          BY <4>1 DEF Delivery
      <4>3. QED
          BY <2>2, <4>2 DEF RestartRelay, Answered
    <3>2. QED
        BY <3>1 DEF Sent
  <2>3. QED
      BY <2>1, <2>2 DEF Connect, LoseRedis, Expire
<1>6. Passes /\ \A u \in Uuid : Acked(u)' => Acked(u)
    BY <1>1, <1>3, <1>4 DEF Passes, Acked
<1>7. QED
    BY <1>1, <1>5, <1>6, RelayKeeps

\* The device: what it only passes on, ...
LEMMA DeviceClear ==
    ASSUME Typed, ClearIInv, NEW d \in Device,
           \/ \E s \in Socket : OpenConnection(d, s)
           \/ FetchPending(d) \/ SendAck(d) \/ RestartApp(d)
    PROVE  ClearIInv'
<1>0. /\ UNCHANGED <<issuedTo, delivery, clearing, history, uuids, walletVars>>
      /\ messages \in [Credential -> SUBSET Blob] /\ received \in [Device -> SUBSET Blob]
      /\ toAck \in [Device -> SUBSET Uuid]
      /\ CredentialOf(d) \in Credential /\ CredentialOf(d)[1] = d
    BY CredentialTyped
    DEF OpenConnection, OpenSocket, FetchPending, Pending, SendAck, Ack, RestartApp, redis,
        deviceVars, Typed, RelayTyped, DeviceTyped, CredentialOf
<1>1. \A u \in Uuid, m \in Msg : Sent(u, m)' => Sent(u, m)
    BY <1>0 DEF Sent
<1>2. Passes
  <2>1. CASE FetchPending(d)
    <3>1. /\ messages' = [messages EXCEPT ![CredentialOf(d)] = {}]
          /\ received' \in {received,
                            [received EXCEPT ![d] = @ \cup messages[CredentialOf(d)]]}
        BY <1>0, <2>1 DEF FetchPending, Pending
    <3>2. \A c \in Credential : messages'[c] \subseteq messages[c]
        BY <1>0, <3>1
    <3>3. \A e \in Device : \/ received'[e] = received[e]
                            \/ /\ e = CredentialOf(d)[1]
                               /\ received'[e] = received[e] \cup messages[CredentialOf(d)]
        BY <1>0, <3>1
    <3>4. QED
        BY <1>0, <3>2, <3>3 DEF Passes
  <2>2. CASE (\E s \in Socket : OpenConnection(d, s)) \/ SendAck(d) \/ RestartApp(d)
    <3>1. messages' = messages /\ \A e \in Device : received'[e] \subseteq received[e]
        BY <1>0, <2>2 DEF OpenConnection, OpenSocket, SendAck, Ack, RestartApp, redis
    <3>2. QED
        BY <3>1 DEF Passes
  <2>3. QED
      BY <2>1, <2>2
<1>3. \A u \in Uuid : Acked(u)' => Acked(u)
  <2>1. CASE SendAck(d)
    <3>1. PICK v \in toAck[d] : /\ toAck' = [toAck EXCEPT ![d] = @ \ {v}]
                                /\ deletes' \in {deletes, deletes \cup {v}}
        BY <2>1 DEF SendAck, Ack, redis
    <3>2. QED
        BY <1>0, <3>1 DEF Acked
  <2>2. CASE (\E s \in Socket : OpenConnection(d, s)) \/ FetchPending(d) \/ RestartApp(d)
    <3>1. deletes' = deletes /\ \A e \in Device : toAck'[e] \subseteq toAck[e]
        BY <1>0, <2>2 DEF OpenConnection, OpenSocket, FetchPending, Pending, RestartApp, redis,
                deviceVars
    <3>2. QED
        BY <1>0, <3>1 DEF Acked
  <2>3. QED
      BY <2>1, <2>2
<1>4. QED
    BY <1>0, <1>1, <1>2, <1>3, RelayKeeps

\* ... stores and acknowledges ...
LEMMA InboundClear ==
    ASSUME Typed, ClearIInv, NEW d \in Device, HandleInbound(d)
    PROVE  ClearIInv'
<1>0. /\ Directed /\ Queued /\ Tracked
      /\ UNCHANGED <<issuedTo, messages, delivery, deletes, clearing, uuids, walletVars>>
      /\ received \in [Device -> SUBSET Blob] /\ toAck \in [Device -> SUBSET Uuid]
      /\ history \in [Device -> SUBSET Msg]
    BY DEF ClearIInv, HandleInbound, redis, Typed, RelayTyped, DeviceTyped
<1>1. PICK b \in received[d] :
          /\ received' = [received EXCEPT ![d] = @ \ {b}]
          /\ \/ /\ history' = [history EXCEPT ![d] = @ \cup {b[2]}]
                /\ toAck' = [toAck EXCEPT ![d] = @ \cup {b[1]}]
             \/ UNCHANGED <<history, toAck>>
    BY DEF HandleInbound
<1>2. /\ \A e \in Device : received'[e] \subseteq received[e] /\ history[e] \subseteq history'[e]
      /\ b[1] \in Uuid /\ b[2] \in Msg /\ <<b[1], b[2]>> \in received[d]
    BY <1>0, <1>1, PairOf
<1>3. \A u \in Uuid, m \in Msg : Sent(u, m)' <=> Sent(u, m)
    BY <1>0 DEF Sent
<1>4. \A u \in Uuid, m \in Msg : Around(u, m)' => Around(u, m)
    BY <1>0, <1>2, <1>3 DEF Around
<1>5. Directed'
    BY <1>0, <1>2, <1>3 DEF Directed, walletVars, database
<1>6. Queued' /\ cleared' = cleared
    BY <1>0 DEF Queued, walletVars, database
<1>7. Evolves
  <2>1. ASSUME NEW u \in Uuid, Acked(u)', ~Acked(u)
        PROVE  \E n \in Msg : Around(u, n) /\ n \in history'[Addressee[n]]
    <3>1. PICK e \in Device : u \in toAck'[e] /\ u \notin toAck[e]
        BY <1>0, <2>1 DEF Acked
    <3>2. e = d /\ u = b[1] /\ b[2] \in history'[d]
        BY <1>0, <1>1, <3>1
    <3>3. Around(u, b[2])
        BY <1>2, <3>2 DEF Around
    <3>4. d = Addressee[b[2]]
        BY <1>0, <1>2 DEF Directed
    <3>5. QED
        BY <1>2, <3>2, <3>3, <3>4
  <2>2. \A m \in Msg : m \in history[Addressee[m]] => m \in history'[Addressee[m]]
      BY <1>2, WalletAssumption
  <2>3. \A u \in Uuid, m \in Msg : Bound(u, m)' => Bound(u, m)
      BY <1>0, NothingBound DEF walletVars, database
  <2>4. \A u \in Uuid : Live(u) => Live(u)'
      BY <1>0 DEF Live, walletVars, database
  <2>5. QED
      BY <1>4, <1>6, <2>1, <2>2, <2>3, <2>4 DEF Evolves
<1>8. QED
    BY <1>0, <1>5, <1>6, <1>7, EvolvesKeeps DEF ClearIInv, Queued

\* ... and the relay has the copy cleared.
LEMMA ClearanceClear ==
    ASSUME Typed, ClearIInv, PollDeletes \/ \E u \in Uuid : ExecuteDelete(u)
    PROVE  ClearIInv'
<1>0. /\ Directed /\ Queued /\ Tracked
      /\ UNCHANGED <<issuedTo, messages, delivery, received, queue, deliveryUuid, pool, worker,
                     deviceVars>>
    BY DEF ClearIInv, PollDeletes, ExecuteDelete, DequeueDeletes, Settle, Requeue, redis,
           walletVars, database
<1>1. deletes' \cup clearing' \subseteq deletes \cup clearing
    BY DEF PollDeletes, ExecuteDelete, DequeueDeletes, Settle, Requeue, redis
<1>2. Directed'
  <2>1. \A u \in Uuid, m \in Msg : Sent(u, m)' => Sent(u, m)
      BY <1>0 DEF Sent
  <2>2. QED
      BY <1>0, <2>1 DEF Directed, deviceVars
<1>3. \A m \in cleared' : m \in cleared \/ \E u \in Uuid : Acked(u) /\ Bound(u, m)
  <2>1. CASE PollDeletes
      BY <2>1 DEF PollDeletes, walletVars, database
  <2>2. ASSUME NEW u \in Uuid, ExecuteDelete(u), NEW m \in cleared', m \notin cleared
        PROVE  Acked(u) /\ Bound(u, m)
    <3>1. u \in clearing /\ cleared' \subseteq cleared \cup {n \in Held : deliveryUuid[n] = u}
        BY <2>2 DEF ExecuteDelete, ClearMessage
    <3>2. m \in Held /\ deliveryUuid[m] = u
        BY <2>2, <3>1
    <3>3. QED
        BY <3>1, <3>2 DEF Acked, Bound
  <2>3. QED
      BY <2>1, <2>2
<1>4. cleared \subseteq cleared' /\ cleared' \subseteq Msg
  <2>1. Held \subseteq Msg
      BY DEF Held, Range, Typed, WalletTyped
  <2>2. QED
      BY <1>0, <2>1 DEF PollDeletes, ExecuteDelete, ClearMessage, walletVars, database, Queued
<1>5. Queued'
    BY <1>0, <1>4 DEF Queued
<1>6. Evolves
  <2>1. \A u \in Uuid, m \in Msg : Bound(u, m)' => Bound(u, m)
      BY <1>0, <1>4 DEF Bound, Held
  <2>2. \A u \in Uuid, m \in Msg : Around(u, m)' => Around(u, m)
      BY <1>0 DEF Around, Sent
  <2>3. \A u \in Uuid : (Live(u) => Live(u)') /\ (Acked(u)' => Acked(u))
      BY <1>0, <1>1 DEF Live, Acked, deviceVars
  <2>4. QED
      BY <1>0, <1>3, <2>1, <2>2, <2>3 DEF Evolves, deviceVars
<1>7. QED
    BY <1>0, <1>2, <1>4, <1>5, <1>6, EvolvesKeeps DEF ClearIInv

\* The wallet service: its requests send messages where they belong ...
LEMMA WalletDirected ==
    ASSUME Directed, UNCHANGED <<issuedTo, messages, received, uuids>>,
           \A u \in Uuid : /\ pool'[u] # Nil => pool[u] # Nil
                           /\ pool[u] # Nil => pool'[u] # Nil /\ pool'[u].device = pool[u].device,
           \A w \in Worker : \/ worker'[w] = worker[w]
                             \/ worker'[w].uuid = Nil
                             \/ /\ worker'[w].uuid = worker[w].uuid
                                /\ worker'[w].msg = worker[w].msg
                             \/ /\ pool[worker'[w].uuid] # Nil
                                /\ pool[worker'[w].uuid].device = Addressee[worker'[w].msg],
           \A u \in Uuid, m \in Msg :
               Sent(u, m)' => \/ Sent(u, m)
                              \/ \E w \in Worker : worker[w].uuid = u /\ worker[w].msg = m
    PROVE  Directed'
<1>1. /\ \A u \in Uuid, m \in Msg : Sent(u, m)' => issuedTo'[u][1] = Addressee[m]
      /\ \A u \in Uuid : pool'[u] # Nil => pool'[u].device = issuedTo'[u][1]
    BY DEF Directed
<1>2. \A w \in Worker, u \in Uuid :
          worker'[w].uuid = u => pool'[u] # Nil /\ pool'[u].device = Addressee[worker'[w].msg]
    BY RelayAssumption DEF Directed
<1>3. QED
    BY <1>1, <1>2 DEF Directed

\* ... and bind nothing but what they claim.
LEMMA WalletEvolves ==
    ASSUME UNCHANGED <<messages, deletes, clearing, received, cleared, toAck, history>>,
           \A u \in Uuid : Live(u) => Live(u)',
           \A u \in Uuid, m \in Msg :
               Sent(u, m)' => \/ Sent(u, m)
                              \/ \E w \in Worker : worker[w].uuid = u /\ worker[w].msg = m,
           \A u \in Uuid, m \in Msg :
               Bound(u, m)' => \/ Bound(u, m)
                               \/ ~Live(u) /\ Live(u)' /\ \A n \in Msg : Bound(u, n)' => n = m
    PROVE  Evolves
<1>1. \A u \in Uuid, m \in Msg : Around(u, m)' => Around(u, m) \/ Bound(u, m)
    BY DEF Around, Bound
<1>2. \A u \in Uuid : Acked(u)' => Acked(u)
    BY DEF Acked
<1>3. QED
    BY <1>1, <1>2 DEF Evolves

\* Requests that claim nothing, and keep the pool as it is but for its entries
\* being consumed
LEMMA WalletClear ==
    ASSUME Typed, ClearIInv,
           UNCHANGED <<issuedTo, messages, deletes, clearing, received, queue, cleared, uuids,
                       toAck, history>>,
           \A u \in Uuid : /\ pool'[u] # Nil => pool[u] # Nil
                           /\ pool[u] # Nil => /\ pool'[u] # Nil /\ pool'[u].device = pool[u].device
                                               /\ pool[u].consumed => pool'[u].consumed,
           \A w \in Worker :
               \/ worker'[w] = worker[w]
               \/ /\ worker'[w].msg \in Range(queue) \cup {Nil}
                  /\ worker'[w].todo \subseteq Range(queue)
                  /\ \/ worker'[w].uuid = Nil
                     \/ worker'[w].uuid = worker[w].uuid /\ worker'[w].msg = worker[w].msg,
           \A u \in Uuid, m \in Msg :
               Sent(u, m)' => \/ Sent(u, m)
                              \/ \E w \in Worker : worker[w].uuid = u /\ worker[w].msg = m,
           \/ deliveryUuid' = deliveryUuid
           \/ \E w \in Worker : /\ worker[w].uuid \in Uuid /\ worker[w].msg \in Msg
                                /\ deliveryUuid' = [deliveryUuid EXCEPT ![worker[w].msg] =
                                                                          worker[w].uuid]
    PROVE  ClearIInv'
<1>0. /\ Directed /\ Queued /\ Tracked
      /\ deliveryUuid \in [Msg -> Uuid \cup {Nil}]
    BY DEF ClearIInv, Typed, WalletTyped
<1>1. Directed'
    BY <1>0, WalletDirected
<1>2. Queued'
  <2>1. \A m \in Msg : deliveryUuid'[m] # Nil => m \in Range(queue')
    <3>1. CASE deliveryUuid' = deliveryUuid
        BY <1>0, <3>1 DEF Queued
    <3>2. ASSUME NEW w \in Worker, worker[w].uuid \in Uuid, worker[w].msg \in Msg,
                 deliveryUuid' = [deliveryUuid EXCEPT ![worker[w].msg] = worker[w].uuid]
          PROVE  \A m \in Msg : deliveryUuid'[m] # Nil => m \in Range(queue')
      <4>1. worker[w].msg \in Range(queue)
          BY <1>0, <3>2, RelayAssumption DEF Queued
      <4>2. QED
          BY <1>0, <3>2, <4>1 DEF Queued
    <3>3. QED
        BY <3>1, <3>2
  <2>2. \A w \in Worker : /\ worker'[w].msg \in Range(queue') \cup {Nil}
                          /\ worker'[w].todo \subseteq Range(queue')
      BY <1>0 DEF Queued
  <2>3. QED
      BY <1>0, <2>1, <2>2 DEF Queued
<1>3. \A u \in Uuid, m \in Msg : Bound(u, m)' => Bound(u, m)
  <2>1. ASSUME NEW u \in Uuid, NEW m \in Msg, m \in Held', deliveryUuid'[m] = u
        PROVE  Bound(u, m)
    <3>1. m \in Held
        BY <2>1 DEF Held
    <3>2. CASE deliveryUuid'[m] = deliveryUuid[m]
        BY <2>1, <3>1, <3>2 DEF Bound
    <3>3. CASE \E w \in Worker : worker[w].msg = m /\ deliveryUuid'[m] = worker[w].uuid
        BY <2>1, <3>3 DEF Bound
    <3>4. QED
        BY <1>0, <3>2, <3>3
  <2>2. ASSUME NEW u \in Uuid, NEW m \in Msg, NEW w \in Worker, worker'[w].uuid = u,
               worker'[w].msg = m
        PROVE  Bound(u, m)
      BY <2>2, RelayAssumption DEF Bound
  <2>3. QED
      BY <2>1, <2>2 DEF Bound
<1>4. \A u \in Uuid : Live(u) => Live(u)'
    BY DEF Live
<1>5. Evolves
    BY <1>3, <1>4, WalletEvolves
<1>6. QED
    BY <1>0, <1>1, <1>2, <1>5, EvolvesKeeps DEF ClearIInv, Queued

LEMMA WorkerClear ==
    ASSUME Typed, ClearIInv, NEW w \in Worker, UNCHANGED deviceVars,
           FindUncleared(w) \/ PostToRelay(w) \/ RelayAnswers(w) \/ SetDeliveryUuid(w)
    PROVE  ClearIInv'
<1>0. /\ worker[w] \in WorkerState /\ Queued
      /\ UNCHANGED <<issuedTo, messages, deletes, clearing, received, queue, cleared, pool,
                     uuids, toAck, history>>
    BY DEF FindUncleared, PostToRelay, RelayAnswers, SetDeliveryUuid, relayVars, database, redis,
           connections, deviceVars, Typed, WalletTyped, ClearIInv
<1>1. \A x \in Worker : x # w => worker'[x] = worker[x]
    BY FindTyped, PostTyped, AnswersTyped, RecordTyped
<1>2. /\ worker'[w].msg \in Range(queue) \cup {Nil}
      /\ worker'[w].todo \subseteq Range(queue)
      /\ \/ worker'[w].uuid = Nil
         \/ worker'[w].uuid = worker[w].uuid /\ worker'[w].msg = worker[w].msg
  <2>0. /\ worker[w].todo \subseteq Range(queue)
        /\ worker[w].msg \in Range(queue) \cup {Nil}
        /\ Held \subseteq Range(queue)
      BY <1>0 DEF Queued, Held
  <2>1. CASE FindUncleared(w)
      BY <2>0, <2>1, FindTyped
  <2>2. CASE PostToRelay(w)
      BY <2>0, <2>2, PostTyped
  <2>3. CASE RelayAnswers(w)
      BY <2>0, <2>3, AnswersTyped
  <2>4. CASE SetDeliveryUuid(w)
      BY <2>0, <2>4, RecordTyped
  <2>5. QED
      BY <2>1, <2>2, <2>3, <2>4
<1>3. \A u \in Uuid, m \in Msg :
          Sent(u, m)' => Sent(u, m) \/ \E x \in Worker : worker[x].uuid = u /\ worker[x].msg = m
  <2>1. CASE delivery' = delivery
      BY <2>1 DEF Sent
  <2>2. CASE PostToRelay(w) /\ delivery' # delivery
    <3>1. /\ delivery'[worker[w].uuid] = [phase |-> "read", msg |-> worker[w].msg]
          /\ \A u \in Uuid : u # worker[w].uuid => delivery'[u] = delivery[u]
        BY <2>2, PostTyped
    <3>2. delivery'[worker[w].uuid].msg = worker[w].msg
        BY <3>1
    <3>3. QED
        BY <3>1, <3>2 DEF Sent
  <2>3. QED
      BY <2>1, <2>2, FindTyped, AnswersTyped, RecordTyped DEF relayVars
<1>4. \/ deliveryUuid' = deliveryUuid
      \/ \E x \in Worker : /\ worker[x].uuid \in Uuid /\ worker[x].msg \in Msg
                           /\ deliveryUuid' = [deliveryUuid EXCEPT ![worker[x].msg] =
                                                                     worker[x].uuid]
    BY FindTyped, PostTyped, AnswersTyped, RecordTyped DEF database
<1>5. QED
    BY <1>0, <1>1, <1>2, <1>3, <1>4, WalletClear

LEMMA ClaimClear ==
    ASSUME Typed, ClearIInv, NEW w \in Worker, ClaimUuid(w), UNCHANGED deviceVars
    PROVE  ClearIInv'
<1>0. /\ Directed /\ Queued /\ Tracked /\ worker[w] \in WorkerState
      /\ UNCHANGED <<issuedTo, messages, deletes, clearing, received, delivery, queue, cleared,
                     deliveryUuid, uuids, toAck, history>>
      /\ \A x \in Worker : x # w => worker'[x] = worker[x]
      /\ pool \in [Uuid -> {Nil} \cup PoolEntry]
    BY ClaimTyped
    DEF relayVars, redis, deviceVars, Typed, WalletTyped, ClearIInv
<1>1. \A u \in Uuid, m \in Msg : Sent(u, m)' => Sent(u, m)
    BY <1>0 DEF Sent
<1>2. CASE /\ pool' = pool /\ worker'[w].uuid = Nil
           /\ worker'[w].msg \in worker[w].todo \cup {Nil}
           /\ worker'[w].todo \subseteq worker[w].todo
  <2>1. /\ worker'[w].msg \in Range(queue) \cup {Nil}
        /\ worker'[w].todo \subseteq Range(queue)
      BY <1>0, <1>2 DEF Queued
  <2>2. QED
      BY <1>0, <1>1, <1>2, <2>1, WalletClear
<1>3. ASSUME NEW u \in Available(Addressee[worker[w].msg]),
             pool' = [pool EXCEPT ![u].consumed = TRUE],
             worker[w].msg \in Msg, worker'[w].msg = worker[w].msg,
             worker'[w].uuid = u, worker'[w].todo = worker[w].todo
      PROVE  ClearIInv'
  <2>1. /\ u \in Uuid /\ pool[u] \in PoolEntry /\ ~pool[u].consumed
        /\ pool[u].device = Addressee[worker[w].msg]
      BY <1>0 DEF Available
  <2>2. /\ pool'[u] # Nil /\ pool'[u].device = pool[u].device /\ pool'[u].consumed
        /\ \A v \in Uuid : v # u => pool'[v] = pool[v]
    <3> DEFINE e == [pool[u] EXCEPT !.consumed = TRUE]
    <3>1. e \in PoolEntry /\ e.device = pool[u].device /\ e.consumed
        BY <2>1 DEF PoolEntry
    <3>2. pool' = [pool EXCEPT ![u] = e]
        BY <1>0, <1>3
    <3> HIDE DEF e
    <3>3. QED
        BY <1>0, <2>1, <3>1, <3>2, NilIsNoEntry
  <2>3. pool[u] # Nil
      BY <2>1, NilIsNoEntry
  <2>4. Directed'
      BY <1>0, <1>1, <1>3, <2>1, <2>2, <2>3, WalletDirected
  <2>5. Queued'
      BY <1>0, <1>3 DEF Queued
  <2>6. \A v \in Uuid : Live(v) => Live(v)'
      BY <2>2 DEF Live
  <2>7. ~Live(u) /\ Live(u)'
      BY <2>1, <2>2 DEF Live
  <2>8. \A v \in Uuid, m \in Msg :
            Bound(v, m)' => \/ Bound(v, m)
                            \/ v = u /\ m = worker[w].msg
      BY <1>0, <1>3 DEF Bound, Held
  <2>9. \A m \in Msg : ~Bound(u, m)
      BY <1>0, <2>1, <2>7 DEF Tracked, Unclaimed, Free
  <2>10. Evolves
      BY <1>0, <1>1, <2>6, <2>7, <2>8, <2>9, WalletEvolves
  <2>11. QED
      BY <1>0, <2>4, <2>5, <2>10, EvolvesKeeps DEF ClearIInv, Queued
<1>4. QED
    BY <1>2, <1>3, ClaimTyped

LEMMA CreateClear ==
    ASSUME Typed, ClearIInv, NEW w \in Worker, NEW m \in Msg, CreateMessage(w, m),
           UNCHANGED deviceVars
    PROVE  ClearIInv'
<1>0. /\ Directed /\ Queued /\ Tracked /\ worker[w] \in WorkerState
      /\ UNCHANGED <<issuedTo, messages, deletes, clearing, received, delivery, cleared,
                     deliveryUuid, pool, uuids, toAck, history>>
      /\ \A x \in Worker : x # w => worker'[x] = worker[x]
      /\ worker'[w].uuid = Nil /\ worker'[w].msg = m /\ worker'[w].todo = {}
      /\ Range(queue') = Range(queue) \cup {m} /\ m \notin Range(queue)
    BY CreateTyped DEF relayVars, redis, deviceVars, Typed, WalletTyped, ClearIInv
<1>1. \A u \in Uuid, n \in Msg : Sent(u, n)' => Sent(u, n)
    BY <1>0 DEF Sent
<1>2. Directed'
    BY <1>0, <1>1, WalletDirected
<1>3. Queued'
    BY <1>0 DEF Queued
<1>4. deliveryUuid[m] = Nil
    BY <1>0 DEF Queued
<1>5. \A u \in Uuid, n \in Msg : Bound(u, n)' => Bound(u, n)
  <2>1. ASSUME NEW u \in Uuid, NEW n \in Msg, n \in Held', deliveryUuid'[n] = u
        PROVE  n \in Held /\ deliveryUuid[n] = u
      BY <1>0, <1>4, <2>1, RelayAssumption DEF Held
  <2>2. ASSUME NEW u \in Uuid, NEW n \in Msg, NEW x \in Worker, worker'[x].uuid = u,
               worker'[x].msg = n
        PROVE  Bound(u, n)
      BY <1>0, <2>2, RelayAssumption DEF Bound
  <2>3. QED
      BY <2>1, <2>2 DEF Bound
<1>6. Evolves
    BY <1>0, <1>1, <1>5, WalletEvolves DEF Live
<1>7. QED
    BY <1>0, <1>2, <1>3, <1>6, EvolvesKeeps DEF ClearIInv, Queued

LEMMA PoolClear ==
    ASSUME Typed, ClearIInv,
           \/ RestartWallet /\ UNCHANGED deviceVars
           \/ \E d \in Device : DeregisterCardUuids(d)
           \/ \E u \in Uuid : UuidExpires(u)
    PROVE  ClearIInv'
<1>1. UNCHANGED <<issuedTo, messages, deletes, clearing, received, delivery, queue, cleared,
                  deliveryUuid, uuids, toAck, history>>
    BY DEF RestartWallet, DeregisterCardUuids, UuidExpires, redis, database, deviceVars
<1>2. \A u \in Uuid : /\ pool'[u] # Nil => pool[u] # Nil
                      /\ pool[u] # Nil => /\ pool'[u] # Nil /\ pool'[u].device = pool[u].device
                                          /\ pool[u].consumed => pool'[u].consumed
  <2>1. CASE RestartWallet
      BY <2>1 DEF RestartWallet, database
  <2>2. CASE ~RestartWallet
    <3>1. \/ \E d \in Device : DeregisterCardUuids(d)
          \/ \E u \in Uuid : UuidExpires(u)
        BY <2>2
    <3>2. /\ Typed'
          /\ \A v \in Uuid : /\ pool[v] = Nil => pool'[v] = Nil
                             /\ pool[v] # Nil => pool'[v] # Nil /\ pool'[v].device = pool[v].device
                             /\ pool[v] # Nil /\ pool[v].consumed => pool'[v].consumed
        BY <3>1, PoolEmptied
    <3>3. QED
        BY <3>2
  <2>3. QED
      BY <2>1, <2>2
<1>3. \A w \in Worker : \/ worker'[w] = worker[w]
                        \/ /\ worker'[w].msg \in Range(queue) \cup {Nil}
                           /\ worker'[w].todo \subseteq Range(queue)
                           /\ worker'[w].uuid = Nil
    BY DEF RestartWallet, DeregisterCardUuids, UuidExpires, Idle
<1>4. \A u \in Uuid, m \in Msg : Sent(u, m)' => Sent(u, m)
    BY <1>1 DEF Sent
<1>5. QED
    BY <1>1, <1>2, <1>3, <1>4, WalletClear

LEMMA RegisterClear ==
    ASSUME Typed, ClearIInv, NEW d \in Device, NEW w \in Worker, NEW chosen \in SUBSET Uuid,
           RegisterCardUuids(d, w, chosen)
    PROVE  ClearIInv'
<1>0. /\ Directed /\ Queued /\ Tracked
      /\ UNCHANGED <<issuedTo, messages, deletes, clearing, received, delivery, queue, cleared,
                     deliveryUuid, uuids, toAck, history>>
      /\ worker'[w].uuid = Nil /\ worker'[w].msg = Nil /\ worker'[w].todo = {}
      /\ \A x \in Worker : x # w => worker'[x] = worker[x]
      /\ chosen \subseteq uuids[d]
      /\ pool' = [u \in Uuid |-> IF u \in chosen /\ pool[u] = Nil
                                 THEN [device |-> d, consumed |-> FALSE] ELSE pool[u]]
    BY RegisterTyped DEF RegisterCardUuids, RegisterUuids, relayVars, redis, deviceVars, ClearIInv
<1>1. \A u \in Uuid : \/ pool'[u] = pool[u]
                      \/ /\ pool[u] = Nil /\ pool'[u].device = issuedTo[u][1]
                         /\ ~pool'[u].consumed
  <2>1. ASSUME NEW u \in Uuid, u \in chosen, pool[u] = Nil
        PROVE  pool'[u].device = issuedTo[u][1] /\ ~pool'[u].consumed
    <3>1. pool'[u] = [device |-> d, consumed |-> FALSE]
        BY <1>0, <2>1
    <3>2. pool'[u].device = d /\ pool'[u].consumed = FALSE
        BY <3>1
    <3>3. issuedTo[u][1] = d
        BY <1>0, <2>1 DEF Directed
    <3>4. QED
        BY <3>2, <3>3
  <2>2. QED
      BY <1>0, <2>1
<1>2. Directed'
  <2>1. \A x \in Worker, u \in Uuid :
            worker'[x].uuid = u => pool'[u] # Nil /\ pool'[u].device = Addressee[worker'[x].msg]
      BY <1>0, <1>1, RelayAssumption DEF Directed
  <2>2. \A u \in Uuid, m \in Msg : Sent(u, m)' <=> Sent(u, m)
      BY <1>0 DEF Sent
  <2>3. \A u \in Uuid : pool'[u] # Nil => pool'[u].device = issuedTo'[u][1]
      BY <1>0, <1>1 DEF Directed
  <2>4. QED
      BY <1>0, <2>1, <2>2, <2>3 DEF Directed
<1>3. Queued'
    BY <1>0 DEF Queued
<1>4. \A u \in Uuid, n \in Msg : Bound(u, n)' => Bound(u, n)
    BY <1>0, NothingBound
<1>5. \A u \in Uuid : Live(u) => Live(u)'
    BY <1>1 DEF Live
<1>6. \A u \in Uuid, m \in Msg : Sent(u, m)' => Sent(u, m)
    BY <1>0 DEF Sent
<1>7. Evolves
    BY <1>0, <1>4, <1>5, <1>6, WalletEvolves
<1>8. QED
    BY <1>0, <1>2, <1>3, <1>7, EvolvesKeeps DEF ClearIInv, Queued

\* A UUID is made anew when nothing refers to it.
LEMMA GetUuidsClear ==
    ASSUME Typed, ClearIInv, NEW d \in Device, NEW fresh \in SUBSET Uuid, GetUuids(d, fresh)
    PROVE  ClearIInv'
<1>0. /\ Directed /\ Queued /\ Tracked
      /\ UNCHANGED <<messages, deletes, clearing, received, queue, cleared, deliveryUuid, worker,
                     toAck, history>>
      /\ issuedTo \in [Uuid -> Credential]
      /\ messages \in [Credential -> SUBSET Blob] /\ received \in [Device -> SUBSET Blob]
    BY DEF GetUuids, Register, ClearIInv, Typed, RelayTyped
<1>1. PICK c : /\ c[1] = d
               /\ issuedTo' = [u \in Uuid |-> IF u \in fresh THEN c ELSE issuedTo[u]]
  <2>1. \A n : <<d, n>>[1] = d
      OBVIOUS
  <2>2. QED
      BY <2>1 DEF GetUuids, Register
<1>2. /\ delivery' = [u \in Uuid |-> IF u \in fresh THEN [phase |-> "none", msg |-> Nil]
                                                    ELSE delivery[u]]
      /\ pool' = [u \in Uuid |-> IF u \in fresh THEN Nil ELSE pool[u]]
      /\ \A e \in Device : uuids'[e] \subseteq (uuids[e] \ fresh) \cup (IF e = d THEN fresh ELSE {})
      /\ \A u \in fresh : Fresh(u)
    BY DEF GetUuids
<1>3. ASSUME NEW u \in fresh
      PROVE  /\ ~Acked(u) /\ \A w \in Worker : worker[w].uuid # u
             /\ \A m \in Msg : /\ ~Bound(u, m) /\ ~Sent(u, m)'
                               /\ \A k \in Credential : <<u, m>> \notin messages[k]
                               /\ \A e \in Device : <<u, m>> \notin received[e]
  <2>1. /\ u \notin deletes \cup clearing
        /\ \A k \in Credential : u \notin Carried(messages[k])
        /\ \A e \in Device : u \notin Carried(received[e]) \cup toAck[e]
        /\ \A w \in Worker : worker[w].uuid # u
        /\ \A m \in Held : deliveryUuid[m] # u
      BY <1>2 DEF Fresh
  <2>2. ASSUME NEW blobs, NEW m \in Msg, u \notin Carried(blobs) PROVE <<u, m>> \notin blobs
    <3>1. <<u, m>>[1] = u
        OBVIOUS
    <3>2. QED
        BY <2>2, <3>1 DEF Carried
  <2>3. delivery'[u].phase \in Answered
    <3>1. delivery'[u].phase = "none"
        BY <1>2
    <3>2. QED
        BY <3>1 DEF Answered
  <2>4. QED
      BY <2>1, <2>2, <2>3 DEF Acked, Bound, Sent
<1>4. \A u \in Uuid \ fresh : /\ pool'[u] = pool[u] /\ issuedTo'[u] = issuedTo[u]
                              /\ \A m \in Msg : Sent(u, m)' <=> Sent(u, m)
    BY <1>1, <1>2 DEF Sent
<1>5. \A u \in fresh : pool'[u] = Nil /\ issuedTo'[u][1] = d
    BY <1>1, <1>2
<1>6. Directed'
  <2>1. ASSUME NEW u \in Uuid, NEW m \in Msg, Sent(u, m)' PROVE issuedTo'[u][1] = Addressee[m]
    <3>1. u \notin fresh
        BY <1>3, <2>1
    <3>2. Sent(u, m) /\ issuedTo'[u] = issuedTo[u]
        BY <1>4, <2>1, <3>1
    <3>3. QED
        BY <1>0, <3>2 DEF Directed
  <2>5. \A u \in Uuid : pool'[u] # Nil => pool'[u].device = issuedTo'[u][1]
    <3>1. ASSUME NEW u \in Uuid, u \notin fresh, pool'[u] # Nil
          PROVE  pool'[u].device = issuedTo'[u][1]
      <4>1. pool'[u] = pool[u] /\ issuedTo'[u] = issuedTo[u]
          BY <1>4, <3>1
      <4>2. QED
          BY <1>0, <3>1, <4>1 DEF Directed
    <3>2. QED
        BY <1>5, <3>1
  <2>2. ASSUME NEW e \in Device, NEW u \in Uuid, u \in uuids'[e] PROVE issuedTo'[u][1] = e
    <3>1. CASE u \in fresh
      <4>1. e = d
          BY <1>2, <2>2, <3>1
      <4>2. QED
          BY <1>5, <3>1, <4>1
    <3>2. CASE u \notin fresh
      <4>1. u \in uuids[e]
          BY <1>2, <2>2, <3>2
      <4>2. issuedTo'[u] = issuedTo[u]
          BY <1>4, <3>2
      <4>3. QED
          BY <1>0, <4>1, <4>2 DEF Directed
    <3>3. QED
        BY <3>1, <3>2
  <2>3. \A w \in Worker, u \in Uuid :
            worker'[w].uuid = u => pool'[u] # Nil /\ pool'[u].device = Addressee[worker'[w].msg]
      BY <1>0, <1>3, <1>4 DEF Directed
  <2>4. QED
      BY <1>0, <2>1, <2>2, <2>3, <2>5 DEF Directed
<1>7. Queued'
    BY <1>0 DEF Queued
<1>8. Evolves
  <2>1. \A u \in Uuid, m \in Msg : Bound(u, m)' <=> Bound(u, m)
      BY <1>0 DEF Bound, Held
  <2>2. \A u \in Uuid : Acked(u)' <=> Acked(u)
      BY <1>0 DEF Acked
  <2>3. \A u \in Uuid, m \in Msg : Around(u, m)' => Around(u, m)
      BY <1>0, <1>3, <1>4 DEF Around
  <2>4. \A u \in fresh : Free(u)'
      BY <1>0, <1>3, <2>1, <2>2 DEF Free, Around
  <2>5. \A u \in Uuid \ fresh : Live(u) => Live(u)'
      BY <1>4 DEF Live
  <2>6. QED
      BY <1>0, <2>1, <2>2, <2>3, <2>4, <2>5 DEF Evolves
<1>9. QED
    BY <1>0, <1>6, <1>7, <1>8, EvolvesKeeps DEF ClearIInv, Queued

LEMMA ClearStep == Typed /\ ClearIInv /\ [DeliveryNext]_allVars => ClearIInv'
<1> SUFFICES ASSUME Typed, ClearIInv, [DeliveryNext]_allVars PROVE ClearIInv'
    OBVIOUS
<1>1. CASE UNCHANGED allVars
  <2>1. /\ UNCHANGED <<issuedTo, walletVars, history, uuids, messages, received, delivery, deletes,
                       clearing, toAck>>
      BY <1>1 DEF allVars, relayVars, redis, deviceVars
  <2>2. QED
      BY <2>1, RelayKeeps DEF Passes, Sent, Acked
<1>2. CASE RelayStep /\ UNCHANGED <<walletVars, deviceVars>>
    BY <1>2, DeliverClear, RelayClear DEF RelayStep
<1>3. CASE \E w \in Worker : /\ DeliverMessage(w) \/ \E m \in Msg : CreateMessage(w, m)
                             /\ UNCHANGED deviceVars
    BY <1>3, WorkerClear, ClaimClear, CreateClear DEF DeliverMessage
<1>4. CASE \E d \in Device :
              \/ \E chosen \in SUBSET Uuid :
                    GetUuids(d, chosen) \/ \E w \in Worker : RegisterCardUuids(d, w, chosen)
              \/ DeregisterCardUuids(d)
              \/ \E s \in Socket : OpenConnection(d, s)
              \/ FetchPending(d) \/ HandleInbound(d) \/ SendAck(d) \/ RestartApp(d)
    BY <1>4, GetUuidsClear, RegisterClear, PoolClear, DeviceClear, InboundClear
<1>5. QED
    BY <1>1, <1>2, <1>3, <1>4, PoolClear, ClearanceClear DEF DeliveryNext

\* A wallet service clears a message (clearMessageByDeliveryUuid) only when the device
\* it is addressed to has stored it: a UUID, once claimed, stands for one message.
THEOREM OnlyStoredIsCleared == DeliverySpec => []ClearedIsStored
<1>1. DeliveryInit => Typed /\ ClearIInv
    BY TypedInitially, ClearInitially
<1>2. Typed /\ ClearIInv /\ [DeliveryNext]_allVars => (Typed /\ ClearIInv)'
    BY TypedStep, ClearStep
<1>3. ClearIInv => ClearedIsStored
    BY DEF ClearIInv, Tracked
<1>4. QED
    BY <1>1, <1>2, <1>3, PTL DEF DeliverySpec
=============================================================================
