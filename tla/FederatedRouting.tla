-------------------------- MODULE FederatedRouting --------------------------
(***************************************************************************)
(* Which wallet service holds a card (wallet-service/src/federation/binding,   *)
(* server/utils/federation-self and federation-broadcast, server/db/routing,    *)
(* server/routes/bindings): every service keeps a routing table, announces the  *)
(* cards whose accounts it opens, and applies the announcements of its peers,    *)
(* await by await.  A POST is sent once and may be lost, overtaken or sent       *)
(* again by a peer that synchronizes; nonces are pruned after a day.             *)
(*                                                                         *)
(* An announcement stands for its envelope, so it is its own nonce.  Stamps are  *)
(* the clock of the service that signs: nothing orders those of two services.    *)
(***************************************************************************)
EXTENDS Integers, FiniteSets

CONSTANTS
    Service, Card,
    Stamp,        \* the instants the clocks of the services may show
    MaxEvents,    \* bound: accounts opened, migrations, POSTs lost or passed on,
                  \*   prunings and crashes
    Nil

ASSUME FederationAssumption ==
    /\ Stamp \subseteq Nat /\ MaxEvents \in Nat
    /\ Nil \notin Service

Registration == "card_registration"
Migration == "card_migration"
Roles == {"wallet_service", "cardholder"}
Announcement == [card : Card, service : Service, type : {Registration, Migration},
                 stamp : Stamp, signers : SUBSET Roles]
ASSUME NilAssumption == Nil \notin Announcement

VARIABLES
    routing,    \* routing_table of each service
    nonces,     \* routing_nonces of each service
    opening,    \* per service and card: its account being created, and then held
    serving,    \* per service: announcements it received and is about to apply
    posts,      \* announcements on their way to a service
    made,       \* history: announcements made
    applied,    \* history: what each service has compared with its table
    disturbed,  \* history: where comparisons overlapped, or the service put itself first
    missed,     \* history: announcements a service did not get, or not to its end
    upsets

vars == <<routing, nonces, opening, serving, posts, made, applied, disturbed, missed,
          upsets>>

Opening == [step : {"none", "row", "record", "find", "write", "post", "held"},
            announcement : Announcement \cup {Nil}, found : Announcement \cup {Nil}]
Serving == [announcement : Announcement, step : {"find", "write"},
            found : Announcement \cup {Nil}]

TypeOK ==
    /\ routing \in [Service -> [Card -> Announcement \cup {Nil}]]
    /\ nonces \in [Service -> SUBSET Announcement]
    /\ opening \in [Service -> [Card -> Opening]]
    /\ serving \in [Service -> SUBSET Serving]
    /\ posts \subseteq Service \X Announcement
    /\ made \subseteq Announcement
    /\ applied \in [Service -> SUBSET Announcement]
    /\ disturbed \subseteq Service \X Card
    /\ missed \subseteq Service \X Announcement
    /\ upsets \in 0..MaxEvents

NotOpened == [step |-> "none", announcement |-> Nil, found |-> Nil]
Init ==
    /\ routing = [n \in Service |-> [c \in Card |-> Nil]]
    /\ nonces = [n \in Service |-> {}]
    /\ opening = [n \in Service |-> [c \in Card |-> NotOpened]]
    /\ serving = [n \in Service |-> {}]
    /\ posts = {} /\ made = {}
    /\ applied = [n \in Service |-> {}]
    /\ disturbed = {} /\ missed = {}
    /\ upsets = 0

-----------------------------------------------------------------------------
(* Announcements (binding.ts)                                               *)

\* verifyAnnouncementEnvelope: a migration is signed by the card as well.
Verified(a) ==
    /\ "wallet_service" \in a.signers
    /\ a.type = Migration => "cardholder" \in a.signers

\* shouldAcceptAnnouncement
\* Mutant: the later timestamp wins, whatever the type.
AcceptLatest(existing, a) == existing = Nil \/ a.stamp > existing.stamp
\* Mutant: the binding that came first stays.
AcceptFirst(existing, a) == existing = Nil
Accept(existing, a) ==
    IF existing = Nil THEN TRUE
    ELSE IF existing.type # a.type THEN a.type = Migration
    ELSE a.stamp > existing.stamp

\* buildRegistrationAnnouncement, with the time on the service's clock
Built(n, c, stamp) ==
    [card |-> c, service |-> n, type |-> Registration, stamp |-> stamp,
     signers |-> {"wallet_service"}]

\* broadcastAnnouncement: one POST to every peer, none of them repeated
Broadcast(n, a) == {<<m, a>> : m \in Service \ {n}}

-----------------------------------------------------------------------------
(* The bound on what the environment does                                    *)

Opened == {x \in Service \X Card : opening[x[1]][x[2]].step # "none"}
Migrations == {a \in made : a.type = Migration}
MoreEvents == Cardinality(Opened) + Cardinality(Migrations) + upsets < MaxEvents

-----------------------------------------------------------------------------
(* History: a comparison is disturbed when its entry may change before it writes *)

Comparing(n, c) ==
    \/ opening[n][c].step = "write"
    \/ \E h \in serving[n] : h.announcement.card = c /\ h.step = "write"
Overlaps(n, c) == IF Comparing(n, c) THEN {<<n, c>>} ELSE {}
\* The service's own registration takes the place of a binding that supersedes it.
Unfounded(n, c, found, a) ==
    IF found # Nil /\ found.service # n /\ ~(a.type = found.type /\ a.stamp > found.stamp)
    THEN {<<n, c>>} ELSE {}

-----------------------------------------------------------------------------
(* Opening an account (accounts-create.ts, announceOwnCardRegistration)        *)

StepOpening(n, c, o) == opening' = [opening EXCEPT ![n][c] = o]

\* handleAccountsCreate: the row of the account, and then its keyring
CreateAccount(n, c) ==
    /\ opening[n][c].step = "none" /\ MoreEvents
    /\ StepOpening(n, c, [NotOpened EXCEPT !.step = "row"])
    /\ UNCHANGED <<routing, nonces, serving, posts, made, applied, disturbed, missed, upsets>>
InsertKeyring(n, c) ==
    /\ opening[n][c].step = "row"
    /\ StepOpening(n, c, [NotOpened EXCEPT !.step = "record"])
    /\ UNCHANGED <<routing, nonces, serving, posts, made, applied, disturbed, missed, upsets>>

RecordOwnNonce(n, c) ==
    /\ opening[n][c].step = "record"
    /\ \E stamp \in Stamp : LET a == Built(n, c, stamp) IN
        /\ made' = made \cup {a}
        /\ nonces' = [nonces EXCEPT ![n] = @ \cup {a}]
        /\ StepOpening(n, c, [step |-> "find", announcement |-> a, found |-> Nil])
    /\ UNCHANGED <<routing, serving, posts, applied, disturbed, missed, upsets>>

FindOwnEntry(n, c) ==
    /\ opening[n][c].step = "find"
    /\ disturbed' = disturbed \cup Overlaps(n, c)
    /\ StepOpening(n, c, [opening[n][c] EXCEPT !.step = "write", !.found = routing[n][c]])
    /\ UNCHANGED <<routing, nonces, serving, posts, made, applied, missed, upsets>>

\* Without a comparison: only an entry that already names this service stays.
WriteOwnEntry(n, c) ==
    LET a == opening[n][c].announcement  found == opening[n][c].found IN
    /\ opening[n][c].step = "write"
    /\ routing' = IF found = Nil \/ found.service # n
                  THEN [routing EXCEPT ![n][c] = a] ELSE routing
    /\ applied' = [applied EXCEPT ![n] = @ \cup {a}]
    /\ disturbed' = disturbed \cup Unfounded(n, c, found, a)
    /\ StepOpening(n, c, [opening[n][c] EXCEPT !.step = "post"])
    /\ UNCHANGED <<nonces, serving, posts, made, missed, upsets>>

BroadcastOwn(n, c) ==
    /\ opening[n][c].step = "post"
    /\ posts' = posts \cup Broadcast(n, opening[n][c].announcement)
    /\ StepOpening(n, c, [NotOpened EXCEPT !.step = "held"])
    /\ UNCHANGED <<routing, nonces, serving, made, applied, disturbed, missed, upsets>>

-----------------------------------------------------------------------------
(* Receiving an announcement (announce.post.ts)                              *)

\* A migration is announced to every service by nobody in this code: what arrives is
\* signed by the new service, and by the cardholder or not.
AnnounceMigration(n, c) ==
    /\ MoreEvents
    /\ \E stamp \in Stamp, signers \in {Roles, {"wallet_service"}} :
        LET a == [card |-> c, service |-> n, type |-> Migration, stamp |-> stamp,
                  signers |-> signers] IN
        /\ a \notin made
        /\ made' = made \cup {a}
        /\ posts' = posts \cup Service \X {a}
    /\ UNCHANGED <<routing, nonces, opening, serving, applied, disturbed, missed, upsets>>

\* 401 for an envelope that does not verify, 409 for a nonce that is on record
Refuse(n, a) ==
    /\ <<n, a>> \in posts /\ (~Verified(a) \/ a \in nonces[n])
    /\ posts' = posts \ {<<n, a>>}
    /\ UNCHANGED <<routing, nonces, opening, serving, made, applied, disturbed, missed, upsets>>

\* recordNonceIfNew
RecordNonce(n, a) ==
    /\ <<n, a>> \in posts /\ Verified(a) /\ a \notin nonces[n]
    /\ posts' = posts \ {<<n, a>>}
    /\ nonces' = [nonces EXCEPT ![n] = @ \cup {a}]
    /\ serving' = [serving EXCEPT ![n] =
                        @ \cup {[announcement |-> a, step |-> "find", found |-> Nil]}]
    /\ UNCHANGED <<routing, opening, made, applied, disturbed, missed, upsets>>

\* findRoutingEntry
FindEntry(n, h) ==
    LET c == h.announcement.card IN
    /\ h \in serving[n] /\ h.step = "find"
    /\ serving' = [serving EXCEPT ![n] =
                        (@ \ {h}) \cup {[h EXCEPT !.step = "write", !.found = routing[n][c]]}]
    /\ disturbed' = disturbed \cup Overlaps(n, c)
    /\ UNCHANGED <<routing, nonces, opening, posts, made, applied, missed, upsets>>

\* upsertRoutingEntry, when the comparison says so
WriteEntry(n, h) ==
    LET a == h.announcement IN
    /\ h \in serving[n] /\ h.step = "write"
    /\ serving' = [serving EXCEPT ![n] = @ \ {h}]
    /\ routing' = IF Accept(h.found, a) THEN [routing EXCEPT ![n][a.card] = a] ELSE routing
    /\ applied' = [applied EXCEPT ![n] = @ \cup {a}]
    /\ UNCHANGED <<nonces, opening, posts, made, disturbed, missed, upsets>>

-----------------------------------------------------------------------------
(* What else happens                                                        *)

Upset == MoreEvents /\ upsets' = upsets + 1

LosePost(n, a) ==
    /\ Upset /\ <<n, a>> \in posts
    /\ posts' = posts \ {<<n, a>>}
    /\ missed' = missed \cup {<<n, a>>}
    /\ UNCHANGED <<routing, nonces, opening, serving, made, applied, disturbed>>

\* A peer passes on what it read from GET /bindings.
PassOn(n, m, c) ==
    /\ Upset /\ m # n /\ routing[m][c] # Nil
    /\ posts' = posts \cup {<<n, routing[m][c]>>}
    /\ UNCHANGED <<routing, nonces, opening, serving, made, applied, disturbed, missed>>

\* pruneOldNonces, once a day has passed
PruneNonces(n) ==
    /\ Upset /\ nonces[n] # {}
    /\ nonces' = [nonces EXCEPT ![n] = {}]
    /\ UNCHANGED <<routing, opening, serving, posts, made, applied, disturbed, missed>>

\* The process of a service stops: what it was serving ends where it is, and an
\* account it was opening is there and never announced.
Crash(n) ==
    /\ Upset
    /\ serving[n] # {} \/ \E c \in Card : opening[n][c].step \notin {"none", "held"}
    /\ serving' = [serving EXCEPT ![n] = {}]
    /\ opening' = [opening EXCEPT ![n] = [c \in Card |->
                        IF @[c].step = "none" THEN @[c] ELSE [NotOpened EXCEPT !.step = "held"]]]
    /\ missed' = missed \cup {<<n, h.announcement>> : h \in serving[n]}
                    \cup UNION {Service \X ({opening[n][c].announcement} \ {Nil}) : c \in Card}
    /\ UNCHANGED <<routing, nonces, posts, made, applied, disturbed>>

-----------------------------------------------------------------------------
Handle(n) ==
    \/ \E c \in Card : \/ InsertKeyring(n, c) \/ RecordOwnNonce(n, c) \/ FindOwnEntry(n, c)
                       \/ WriteOwnEntry(n, c) \/ BroadcastOwn(n, c)
    \/ \E a \in made : Refuse(n, a) \/ RecordNonce(n, a)
    \/ \E h \in serving[n] : FindEntry(n, h) \/ WriteEntry(n, h)

Environment ==
    \/ \E n \in Service, c \in Card : CreateAccount(n, c) \/ AnnounceMigration(n, c)
    \/ \E n \in Service, a \in made : LosePost(n, a)
    \/ \E n, m \in Service, c \in Card : PassOn(n, m, c)
    \/ \E n \in Service : PruneNonces(n) \/ Crash(n)

Next == (\E n \in Service : Handle(n)) \/ Environment

Spec == Init /\ [][Next]_vars
\* Every request that arrived is answered in the end, and every POST that is not lost
\* arrives.
FairSpec == Spec /\ \A n \in Service : WF_vars(Handle(n))

-----------------------------------------------------------------------------
(* Properties                                                               *)

\* What a sender is answered with at n (handleMessagesCreate): "here" for 202, a
\* service to turn to for 410, Nil for 404
Answered(n, c) == IF routing[n][c] = Nil THEN Nil ELSE routing[n][c].service

Heard(n, c) == {a \in applied[n] : a.card = c}
\* Two clocks that show the same instant leave it to the order of arrival.
Tied(c) == \E a, b \in made : a # b /\ a.card = c /\ b.card = c /\ a.stamp = b.stamp
                              /\ a.type = b.type

(* Two services that compared the same announcements of a card agree on who holds *)
(* it, in whatever order they came and however often, unless comparisons           *)
(* overlapped (announce.post.ts, shouldAcceptAnnouncement).                      *)
OrderIndependent ==
    \A n, m \in Service, c \in Card :
        /\ Heard(n, c) = Heard(m, c)
        /\ <<n, c>> \notin disturbed /\ <<m, c>> \notin disturbed /\ ~Tied(c)
        => routing[n][c] = routing[m][c]

\* Nothing about the card was lost, overlapped or tied.
Undisturbed(c) ==
    /\ ~Tied(c)
    /\ \A n \in Service : <<n, c>> \notin disturbed
    /\ \A n \in Service : \A a \in made : a.card = c => <<n, a>> \notin missed

(* In the end, unless something was lost or comparisons overlapped, wherever a     *)
(* sender turns he is sent to the same service, and that one takes the message    *)
(* (messages-create.ts, federation-broadcast.ts): no two services send him to     *)
(* each other.                                                                *)
Routed(c) ==
    \E s \in Service \cup {Nil} : \A n \in Service : Answered(n, c) = s
RoutesSettle == \A c \in Card : <>[](Undisturbed(c) => Routed(c))
=============================================================================
