-------------------------------- MODULE Relay --------------------------------
(***************************************************************************)
(* The notification relay (relay/src): single-use UUIDs and the messages     *)
(* stored for each device credential, in Redis; event streams and chat       *)
(* sockets, in the memory of the process; the deletes it owes to wallet      *)
(* services, in Redis until they are due.                                    *)
(*                                                                         *)
(* Handlers run concurrently, an await at a time.  A step may be upset: Redis *)
(* fails, with or without having done what it was asked, an answer is lost, a *)
(* key reaches its time to live, a process restarts.  POST /notify only       *)
(* answers that it is deprecated; a silent push changes nothing here.         *)
(***************************************************************************)
EXTENDS Naturals, FiniteSets

CONSTANTS
    Uuid,           \* delivery UUIDs
    Msg,            \* message blobs
    Device,         \* devices, each with one sub-card
    Socket,         \* connections that devices open, each opened once
    MaxUpsets,      \* bound: how many things go wrong
    Nil

ASSUME RelayAssumption ==
    /\ MaxUpsets \in Nat
    /\ Nil \notin Uuid \cup Msg \cup Device \cup Socket

\* The credentials of a device, in the order it bootstraps them: it needs another
\* when the relay has forgotten the last, which takes an upset.
Credential == Device \X (0..MaxUpsets + 1)
Blob == Uuid \X Msg

VARIABLES
    status,         \* per UUID: the status of its record, or "absent"
    issuedTo,       \* per UUID: device_credential of the record
    credentials,    \* device credentials on record
    messages,       \* per credential: stored blobs
    deletes,        \* pending_deletes: UUIDs whose wallet is yet to be told
    clearing,       \* deletes taken off the queue and not carried out
    delivery,       \* per UUID: how far POST /deliver/{uuid} is, and its blob
    socket,         \* connections of devices
    streams, chats, \* per credential: its event stream, its WebSocket
    received,       \* per device: blobs that reached it and are not processed
    upsets          \* how many things have gone wrong

redis == <<status, issuedTo, credentials, messages, deletes>>
connections == <<socket, streams, chats>>
relayVars == <<redis, clearing, delivery, connections, received, upsets>>

Answered == {"none", "200", "gone", "500", "lost"}
Delivery == [phase : {"read", "lock", "store", "roll back", "consume"} \cup Answered,
             msg : Msg \cup {Nil}]
SocketState ==
    [phase : {"new", "lookup", "lock", "attached", "closing", "over"}, kind : {"ws", "sse"},
     uuid : Uuid \cup {Nil}, credential : Credential \cup {Nil}, open : BOOLEAN]

RelayTypeOK ==
    /\ status \in [Uuid -> {"absent", "unused", "in_flight", "active", "consumed"}]
    /\ issuedTo \in [Uuid -> Credential]
    /\ credentials \subseteq Credential
    /\ messages \in [Credential -> SUBSET Blob]
    /\ deletes \subseteq Uuid /\ clearing \subseteq Uuid
    /\ delivery \in [Uuid -> Delivery]
    /\ socket \in [Socket -> SocketState]
    /\ streams \in [Credential -> Socket \cup {Nil}]
    /\ chats \in [Credential -> Socket \cup {Nil}]
    /\ received \in [Device -> SUBSET Blob]
    /\ upsets \in 0..MaxUpsets

NewSocket == [phase |-> "new", kind |-> "ws", uuid |-> Nil, credential |-> Nil, open |-> FALSE]

RelayInit ==
    /\ status = [u \in Uuid |-> "absent"]
    /\ issuedTo \in [Uuid -> Device \X {0}]
    /\ credentials = {}
    /\ messages = [c \in Credential |-> {}]
    /\ deletes = {} /\ clearing = {}
    /\ delivery = [u \in Uuid |-> [phase |-> "none", msg |-> Nil]]
    /\ socket = [s \in Socket |-> NewSocket]
    /\ streams = [c \in Credential |-> Nil]
    /\ chats = [c \in Credential |-> Nil]
    /\ received = [d \in Device |-> {}]
    /\ upsets = 0

Upset == upsets < MaxUpsets /\ upsets' = upsets + 1
Smooth == UNCHANGED upsets

\* transitionUuid: the script compares and sets in one step.
\* Mutant: the script sets whatever it finds in use.
CanMoveBlindly(u, from) == status[u] \notin {"absent", "consumed"}
CanMove(u, from) == status[u] = from
Move(u, from, to) ==
    status' = IF CanMove(u, from) THEN [status EXCEPT ![u] = to] ELSE status

-----------------------------------------------------------------------------
(* POST /deliver/{uuid}                                                     *)

Post(u, m) == delivery' = [delivery EXCEPT ![u] = [phase |-> "read", msg |-> m]]

GoTo(u, phase) == delivery' = [delivery EXCEPT ![u].phase = phase]

ReadUuid(u) ==
    /\ delivery[u].phase = "read"
    /\ \/ GoTo(u, IF status[u] = "unused" THEN "lock" ELSE "gone") /\ Smooth
       \/ GoTo(u, "500") /\ Upset
    /\ UNCHANGED <<redis, received>>

LockUuid(u) ==
    /\ delivery[u].phase = "lock"
    /\ \/ /\ Move(u, "unused", "in_flight")
          /\ GoTo(u, IF CanMove(u, "unused") THEN "store" ELSE "gone")
          /\ Smooth
       \/ /\ Move(u, "unused", "in_flight") \/ UNCHANGED status
          /\ GoTo(u, "500")
          /\ Upset
    /\ UNCHANGED <<issuedTo, credentials, messages, deletes, received>>

\* rpush and expire: the first may be done when the second fails.  An app that is
\* no longer configured is found here too, before anything is stored.
StoreMessage(u) ==
    LET stored == [messages EXCEPT ![issuedTo[u]] = @ \cup {<<u, delivery[u].msg>>}] IN
    /\ delivery[u].phase = "store"
    /\ \/ messages' = stored /\ GoTo(u, "consume") /\ Smooth
       \/ messages' \in {messages, stored} /\ GoTo(u, "roll back") /\ Upset
    /\ UNCHANGED <<status, issuedTo, credentials, deletes, received>>

\* What failed the store may fail this as well, and the UUID stays locked.
RollBack(u) ==
    /\ delivery[u].phase = "roll back"
    /\ Move(u, "in_flight", "unused") \/ UNCHANGED status
    /\ GoTo(u, "500") /\ Smooth
    /\ UNCHANGED <<issuedTo, credentials, messages, deletes, received>>

\* The connection that is written to: the stream on record even if it is gone,
\* else the socket if it is open; otherwise a push wakes the device.
Channel(c) ==
    IF streams[c] # Nil THEN {streams[c]}
    ELSE {s \in Socket : s = chats[c] /\ socket[s].open}

ConsumeUuid(u) ==
    LET c == issuedTo[u]
        arrived == [received EXCEPT ![c[1]] = @ \cup {<<u, delivery[u].msg>>}]
        connected == \E s \in Channel(c) : socket[s].open
    IN
    /\ delivery[u].phase = "consume"
    /\ \/ /\ Move(u, "in_flight", "consumed")
          /\ received' = IF connected THEN arrived ELSE received
          /\ Smooth
       \/ /\ UNCHANGED status
          /\ received' = IF connected THEN arrived ELSE received
          /\ Upset
       \/ /\ Move(u, "in_flight", "consumed")
          /\ UNCHANGED received
          /\ Upset
    /\ GoTo(u, "200")
    /\ UNCHANGED <<issuedTo, credentials, messages, deletes>>

Deliver(u) ==
    /\ ReadUuid(u) \/ LockUuid(u) \/ StoreMessage(u) \/ RollBack(u) \/ ConsumeUuid(u)
    /\ UNCHANGED <<clearing, connections>>

-----------------------------------------------------------------------------
(* GET /ws/{uuid} and GET /sse                                              *)

SetSocket(s, phase) == socket' = [socket EXCEPT ![s].phase = phase]
Hang(s) == socket' = [socket EXCEPT ![s].phase = "over", ![s].open = FALSE]

OpenSocket(s, kind, u, c) ==
    /\ socket[s].phase = "new"
    /\ socket' = [socket EXCEPT ![s] =
          [phase |-> "lookup", kind |-> kind, uuid |-> u, credential |-> c, open |-> TRUE]]
    /\ UNCHANGED <<redis, clearing, delivery, streams, chats, received, upsets>>

WsLookup(s) ==
    LET u == socket[s].uuid IN
    /\ socket[s].phase = "lookup" /\ socket[s].kind = "ws"
    /\ \/ /\ IF status[u] = "unused"
                THEN socket' = [socket EXCEPT ![s].phase = "lock", ![s].credential = issuedTo[u]]
                ELSE Hang(s)
          /\ Smooth
       \/ Hang(s) /\ Upset
    /\ UNCHANGED <<redis, streams, chats>>

WsLock(s) ==
    LET u == socket[s].uuid IN
    /\ socket[s].phase = "lock"
    /\ \/ /\ Move(u, "unused", "active")
          /\ IF CanMove(u, "unused")
                THEN /\ SetSocket(s, "attached")
                     /\ chats' = [chats EXCEPT ![socket[s].credential] = s]
                ELSE Hang(s) /\ UNCHANGED chats
          /\ Smooth
       \/ /\ Move(u, "unused", "active") \/ UNCHANGED status
          /\ Hang(s) /\ UNCHANGED chats
          /\ Upset
    /\ UNCHANGED <<issuedTo, credentials, messages, deletes, streams>>

\* consumeUuid: the entry of the credential goes, whichever socket it holds.
WsTeardown(s) ==
    /\ socket[s].phase = "closing"
    /\ \/ Move(socket[s].uuid, "active", "consumed") /\ Smooth
       \/ UNCHANGED status /\ Upset
    /\ chats' = [chats EXCEPT ![socket[s].credential] = Nil]
    /\ SetSocket(s, "over")
    /\ UNCHANGED <<issuedTo, credentials, messages, deletes, streams>>

SseAttach(s) ==
    LET c == socket[s].credential IN
    /\ socket[s].phase = "lookup" /\ socket[s].kind = "sse"
    /\ \/ /\ c \in credentials
          /\ SetSocket(s, "attached")
          /\ streams' = [streams EXCEPT ![c] = s]
          /\ Smooth
       \/ /\ IF c \in credentials THEN Upset ELSE Smooth
          /\ Hang(s) /\ UNCHANGED streams
    /\ UNCHANGED <<redis, chats>>

\* Either end closes the connection.  Nobody listens before it is attached; the
\* stream is forgotten at once, whichever the entry holds, a WebSocket after an await.
Close(s) ==
    /\ socket[s].open
    /\ \/ /\ socket[s].phase # "attached"
          /\ socket' = [socket EXCEPT ![s].open = FALSE]
          /\ UNCHANGED streams
       \/ /\ socket[s].phase = "attached" /\ socket[s].kind = "ws"
          /\ socket' = [socket EXCEPT ![s].open = FALSE, ![s].phase = "closing"]
          /\ UNCHANGED streams
       \/ /\ socket[s].phase = "attached" /\ socket[s].kind = "sse"
          /\ Hang(s)
          /\ streams' = [streams EXCEPT ![socket[s].credential] = Nil]
    /\ UNCHANGED <<redis, chats, upsets>>

Connect(s) ==
    /\ WsLookup(s) \/ WsLock(s) \/ WsTeardown(s) \/ SseAttach(s) \/ Close(s)
    /\ UNCHANGED <<clearing, delivery, received>>

-----------------------------------------------------------------------------
(* POST /register, GET /pending, POST /ack                                  *)

Register(c, fresh) ==
    /\ credentials' = credentials \cup {c}
    /\ status' = [u \in Uuid |-> IF u \in fresh THEN "unused" ELSE status[u]]
    /\ issuedTo' = [u \in Uuid |-> IF u \in fresh THEN c ELSE issuedTo[u]]
    /\ UNCHANGED <<messages, deletes, clearing, connections, received>>

\* drainMessages empties the list before the answer is sent.
Pending(c) ==
    /\ c \in credentials /\ messages[c] # {}
    /\ messages' = [messages EXCEPT ![c] = {}]
    /\ \/ received' = [received EXCEPT ![c[1]] = @ \cup messages[c]] /\ Smooth
       \/ UNCHANGED received /\ Upset
    /\ UNCHANGED <<status, issuedTo, credentials, deletes, clearing, delivery, connections>>

\* A UUID without a record is skipped.  The stored blob stays.
Ack(c, u) ==
    /\ IF c \in credentials /\ status[u] # "absent"
          THEN \/ deletes' = deletes \cup {u} /\ Smooth
               \/ UNCHANGED deletes /\ Upset
          ELSE UNCHANGED deletes /\ Smooth
    /\ UNCHANGED <<status, issuedTo, credentials, messages, clearing, delivery, connections, received>>

-----------------------------------------------------------------------------
(* Deletes, restarts, losses                                                *)

DequeueDeletes(due) ==
    /\ due \subseteq deletes /\ due # {}
    /\ deletes' = deletes \ due
    /\ clearing' = clearing \cup due
    /\ UNCHANGED <<status, issuedTo, credentials, messages, delivery, connections, received, upsets>>

\* executeDelete: an answer of success or 404 settles the job.
Settle(u) ==
    /\ clearing' = clearing \ {u}
    /\ UNCHANGED <<redis, delivery, connections, received, upsets>>

\* Any other answer, or none, and the job is queued again; it is lost when that fails too.
Requeue(u) ==
    /\ clearing' = clearing \ {u}
    /\ deletes' \in {deletes, deletes \cup {u}}
    /\ Upset
    /\ UNCHANGED <<status, issuedTo, credentials, messages, delivery, connections, received>>

\* The process ends, gracefully or not, and runStartupChecks consumes the UUIDs
\* it finds between two states.  Deletes that were being carried out are lost.
RestartRelay ==
    /\ Upset
    /\ status' = [u \in Uuid |-> IF status[u] \in {"active", "in_flight"} THEN "consumed"
                                                                          ELSE status[u]]
    /\ delivery' = [u \in Uuid |-> IF delivery[u].phase \in Answered THEN delivery[u]
                                   ELSE [delivery[u] EXCEPT !.phase = "lost"]]
    /\ socket' = [s \in Socket |-> IF socket[s].phase = "new" THEN socket[s]
                                   ELSE [socket[s] EXCEPT !.phase = "over", !.open = FALSE]]
    /\ streams' = [c \in Credential |-> Nil]
    /\ chats' = [c \in Credential |-> Nil]
    /\ clearing' = {}
    /\ UNCHANGED <<issuedTo, credentials, messages, deletes, received>>

\* Redis keeps everything in memory only.
LoseRedis ==
    /\ Upset
    /\ status' = [u \in Uuid |-> "absent"]
    /\ credentials' = {}
    /\ messages' = [c \in Credential |-> {}]
    /\ deletes' = {}
    /\ UNCHANGED <<issuedTo, clearing, delivery, connections, received>>

Expire ==
    /\ Upset
    /\ \/ \E u \in Uuid : status' = [status EXCEPT ![u] = "absent"] /\ UNCHANGED <<credentials, messages>>
       \/ \E c \in Credential : credentials' = credentials \ {c} /\ UNCHANGED <<status, messages>>
       \/ \E c \in Credential : messages' = [messages EXCEPT ![c] = {}] /\ UNCHANGED <<status, credentials>>
    /\ UNCHANGED <<issuedTo, deletes, clearing, delivery, connections, received>>
=============================================================================
