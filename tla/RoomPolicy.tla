----------------------------- MODULE RoomPolicy -----------------------------
(***************************************************************************)
(* The Matrix policy module inside Synapse (module.py, watcher.py, and the    *)
(* subscription of rpc_provider.py): the hooks that allow joins and posts,    *)
(* and the two background loops that part the members of revoked cards.      *)
(*                                                                         *)
(* One thread runs all of them and changes hands at every await, so an action *)
(* is the code between two awaits.  A card has at most one request under way  *)
(* in a room.                                                               *)
(***************************************************************************)
EXTENDS RoomMembership

CONSTANTS
    MaxCalls,       \* bound on the requests under way at once
    MaxChanges,     \* bound on the addresses revoked or updated
    MaxRestarts     \* bound on restarts of Synapse

ASSUME RestartAssumption == MaxCalls \in Nat /\ MaxChanges \in Nat /\ MaxRestarts \in Nat

VARIABLES
    calls,          \* per room and card: the hook serving its request
    feed,           \* events of the subscription not yet taken
    walk,           \* addresses the backstop has still to look at in this round
    alive,          \* per loop: whether it still runs
    watcher,        \* per loop: the call of handle_card_head_updated it awaits
    qualified,      \* documents and cards whose chain has satisfied them
    restarts        \* times Synapse has been restarted

moduleVars == <<calls, feed, walk, alive, watcher, restarts>>
vars == <<cardVars, memberVars, roomVars, moduleVars, qualified>>

Loop == {"subscription", "backstop"}
\* The user of a card follows from the card (deriveMatrixUserId), so that a user in a
\* room is a card in it.
Member == Room \X Card

Call ==
    [kind : {"walking"}, asked : {"join", "creator"}, walk : Entry, read : Nat] \cup
    [kind : {"join", "creator"}, walk : Entry] \cup
    [kind : {"refreshing"}, revoked : BOOLEAN] \cup
    [kind : {"joining", "accepted"}]
Handling ==
    [stage : {"refreshing"}, address : Address, revoked : BOOLEAN] \cup
    [stage : {"parting"}, address : Address, todo : SUBSET Member] \cup
    [stage : {"parted"}, address : Address, todo : SUBSET Member, member : Member]

TypeOK ==
    /\ MembershipTypeOK /\ RoomsTypeOK
    /\ calls \in [Member -> {None} \cup Call]
    /\ feed \subseteq Address /\ walk \subseteq Address
    /\ alive \in [Loop -> BOOLEAN]
    /\ watcher \in [Loop -> {None} \cup Handling]
    /\ qualified \subseteq Document \X Card
    /\ restarts \in 0..MaxRestarts

\* A card of the chain, as it is, is issued under a policy the document lists, with a
\* value it asks for.
Qualifies(d, c) ==
    \E entry \in Entries[d], k \in DOMAIN ChainOf[c] :
        PolicyOf[ChainOf[c][k]] = entry.policy /\ field[ChainOf[c][k]] \in entry.fields

Init ==
    /\ MembershipInit /\ RoomsInit
    /\ calls = [m \in Member |-> None]
    /\ feed = {} /\ walk = {}
    /\ alive = [l \in Loop |-> TRUE]
    /\ watcher = [l \in Loop |-> None]
    /\ qualified = {d \in Document \X Card : Qualifies(d[1], d[2])} /\ restarts = 0

Reply(m) == calls' = [calls EXCEPT ![m] = None]
Idle(m) == calls[m] = None /\ Cardinality({n \in Member : calls[n] # None}) < MaxCalls
In(m, kind) == calls[m] # None /\ calls[m].kind = kind
PolicyOfRoom(r) == rooms[r].policy

-----------------------------------------------------------------------------
(* Discovery, in the SDK of the member: the documents are those the index names, *)
(* and what cannot be fetched is not eligible.                                *)

\* evaluateRoomPredicate, the SDK's own: any policy of the document will do.
Eligible(document, chain) == Satisfies(document, chain)
DiscoverRooms(chain) == {r \in RoomIndex : Eligible(index[r], chain)}
\* What the SDK has read of its own chain, up to where it could.
OwnChains(c) == {{LinkTo(ChainOf[c][k]) : k \in 1..n} : n \in 0..Len(ChainOf[c])}

-----------------------------------------------------------------------------
(* Joins.  A predicate document is named by its hash, so what it says of a chain   *)
(* is settled once the chain has been read.  What is denied changes nothing.     *)

\* check_event_allowed walks the chain of whoever sends the event.
StartWalk(r, c, asked) ==
    calls' = [calls EXCEPT ![<<r, c>>] =
        [kind |-> "walking", asked |-> asked, walk |-> NoWalk, read |-> 0]]

\* joinRoomWithAttestation, of a card that is not in the room, to one the SDK found.
JoinRoom(r, c) ==
    /\ c \notin joined[r] /\ \E chain \in OwnChains(c) : r \in DiscoverRooms(chain)
    /\ StartWalk(r, c, "join")
\* The event a creator attests by: the module does not ask who sends it.
AskCreator(r, c) == rooms[r] # None /\ StartWalk(r, c, "creator")
Ask(r, c) ==
    /\ Idle(<<r, c>>)
    /\ JoinRoom(r, c) \/ AskCreator(r, c)
    /\ UNCHANGED <<cardVars, memberVars, roomVars, feed, walk, alive, watcher, restarts>>

\* verify_join_attestation, a card of the chain at a time, ...
ReadAncestor(r, c) ==
    LET call == calls[<<r, c>>] IN
    /\ In(<<r, c>>, "walking") /\ call.read < Len(ChainOf[c])
    /\ calls' = [calls EXCEPT ![<<r, c>>] =
            [kind |-> "walking", asked |-> call.asked,
             walk |-> WalkTo(call.walk, ChainOf[c][call.read + 1]), read |-> call.read + 1]]
    /\ UNCHANGED <<cardVars, memberVars, roomVars, feed, walk, alive, watcher, restarts>>
\* ... to its end or as far as it gets.  A join is denied to a chain that does not
\* satisfy the document; a creator's attestation is not asked to.
EndWalk(r, c) ==
    LET call == calls[<<r, c>>] IN
    /\ In(<<r, c>>, "walking")
    /\ call.asked = "join" => Satisfies(PolicyOfRoom(r), call.walk.chain)
    /\ \E w \in Outcomes(call.walk, call.read = Len(ChainOf[c])) :
          calls' = [calls EXCEPT ![<<r, c>>] = [kind |-> call.asked, walk |-> w]]
    /\ UNCHANGED <<cardVars, memberVars, roomVars, feed, walk, alive, watcher, restarts>>

Admit(r, c) ==
    /\ RegisterMembership(r, c, calls[<<r, c>>].walk.chain)
    /\ SeedFromJoin(c, calls[<<r, c>>].walk)

\* _decide_join with the predicate document at hand
AllowJoin(r, c) ==
    /\ In(<<r, c>>, "join")
    /\ Admit(r, c)
    /\ calls' = [calls EXCEPT ![<<r, c>>] = [kind |-> "joining"]]
    /\ UNCHANGED <<cardVars, roomVars, feed, walk, alive, watcher, restarts>>

\* _register_creator_membership
RegisterCreator(r, c) ==
    /\ In(<<r, c>>, "creator")
    /\ Admit(r, c)
    /\ Reply(<<r, c>>)
    /\ UNCHANGED <<cardVars, roomVars, feed, walk, alive, watcher, restarts>>

\* Synapse persists the join it was allowed.
PersistJoin(r, c) ==
    /\ In(<<r, c>>, "joining")
    /\ joined' = [joined EXCEPT ![r] = @ \cup {c}]
    /\ Reply(<<r, c>>)
    /\ UNCHANGED <<cardVars, memberVars, rooms, accounts, tokens, creating, index, feed, walk, alive,
                   watcher, restarts>>

\* The module is not told of a leave.
Leave(r, c) ==
    /\ c \in joined[r] /\ rooms[r].creator # c
    /\ joined' = [joined EXCEPT ![r] = @ \ {c}]
    /\ UNCHANGED <<cardVars, memberVars, rooms, accounts, tokens, creating, index, moduleVars>>

-----------------------------------------------------------------------------
(* Posts                                                                    *)

\* check_event_for_spam, with the entry of the card
Passes(r, entry) == ~entry.revoked /\ Satisfies(PolicyOfRoom(r), entry.chain)
AskPost(r, c) ==
    /\ c \in joined[r] /\ registry[<<r, c>>] # None /\ Idle(<<r, c>>)
    /\ cache[c] # None => Passes(r, cache[c])
    /\ \E status \in Statuses(c) :
          calls' = [calls EXCEPT ![<<r, c>>] =
            IF cache[c] = None THEN [kind |-> "refreshing", revoked |-> status]
                              ELSE [kind |-> "accepted"]]
    /\ UNCHANGED <<cardVars, memberVars, roomVars, feed, walk, alive, watcher, restarts>>

\* ... which had to be made first
RefreshForPost(r, c) ==
    LET status == calls[<<r, c>>].revoked IN
    /\ In(<<r, c>>, "refreshing")
    /\ Refresh(c, status)
    /\ calls' = [calls EXCEPT ![<<r, c>>] =
            IF Passes(r, Refreshed(c, status)) THEN [kind |-> "accepted"] ELSE None]
    /\ UNCHANGED <<cardVars, registry, roomVars, feed, walk, alive, watcher, restarts>>

Accepted(r, c) == In(<<r, c>>, "accepted")

\* The post is in the room; or the document cannot be fetched, and the request is denied;
\* or Synapse drops what it was allowed.
EndCall(m) ==
    /\ calls[m] # None
    /\ Reply(m)
    /\ UNCHANGED <<cardVars, memberVars, roomVars, feed, walk, alive, watcher, restarts>>

-----------------------------------------------------------------------------
(* The watcher                                                              *)

\* handle_card_head_updated: an address nobody depends on is passed over, ...
Handle(l, a) ==
    IF a \in Watched
    THEN \E status \in Statuses(a) :
           watcher' = [watcher EXCEPT ![l] =
             [stage |-> "refreshing", address |-> a, revoked |-> status]]
    ELSE UNCHANGED watcher

PartAll(a, todo) == IF todo = {} THEN None ELSE [stage |-> "parting", address |-> a, todo |-> todo]

\* ... its entry refreshed, and the memberships that depend on it listed.
WatchedRefreshed(l) ==
    LET a == watcher[l].address
        todo == IF watcher[l].revoked THEN MembershipsFor(a) ELSE {}
    IN /\ watcher[l] # None /\ watcher[l].stage = "refreshing"
       /\ Refresh(a, watcher[l].revoked)
       /\ watcher' = [watcher EXCEPT ![l] = PartAll(a, todo)]
       /\ UNCHANGED <<cardVars, registry, roomVars, calls, feed, walk, alive, restarts>>

Parting(l, m) == watcher[l] # None /\ watcher[l].stage = "parting" /\ m \in watcher[l].todo

\* _force_part_with_retry: the call to Synapse, ...
ForcePart(l, m) ==
    /\ Parting(l, m) /\ Kickable(m)
    /\ joined' = [joined EXCEPT ![m[1]] = @ \ {m[2]}]
    /\ watcher' = [watcher EXCEPT ![l] =
            [stage |-> "parted", address |-> @.address, todo |-> @.todo \ {m}, member |-> m]]
    /\ UNCHANGED <<cardVars, memberVars, rooms, accounts, tokens, creating, index, calls, feed, walk,
                   alive, restarts>>

\* ... and what follows its success, ...
Parted(l) ==
    /\ watcher[l] # None /\ watcher[l].stage = "parted"
    /\ registry' = RemoveMembership(watcher[l].member)
    /\ cache' = Drop(watcher[l].address, registry')
    /\ watcher' = [watcher EXCEPT ![l] = PartAll(@.address, @.todo)]
    /\ UNCHANGED <<cardVars, roomVars, calls, feed, walk, alive, restarts>>

\* ... or the fifth failure, after which the member is left alone.
GiveUp(l, m) ==
    /\ Parting(l, m)
    /\ watcher' = [watcher EXCEPT ![l] = PartAll(@.address, @.todo \ {m})]
    /\ UNCHANGED <<cardVars, memberVars, roomVars, calls, feed, walk, alive, restarts>>

\* run_subscription_loop
TakeEvent ==
    /\ alive["subscription"] /\ watcher["subscription"] = None
    /\ \E a \in feed : feed' = feed \ {a} /\ Handle("subscription", a)
    /\ UNCHANGED <<cardVars, memberVars, roomVars, calls, walk, alive, restarts>>

\* run_backstop_loop: a round over what is watched when it starts
StartRound ==
    /\ alive["backstop"] /\ watcher["backstop"] = None /\ walk = {} /\ Watched # {}
    /\ walk' = Watched
    /\ UNCHANGED <<cardVars, memberVars, roomVars, calls, feed, alive, watcher, restarts>>
LookAt(a) ==
    /\ alive["backstop"] /\ watcher["backstop"] = None /\ a \in walk
    /\ walk' = walk \ {a}
    /\ Handle("backstop", a)
    /\ UNCHANGED <<cardVars, memberVars, roomVars, calls, feed, alive, restarts>>

\* The connection drops, or a read of the chain fails: nothing catches it, and the loop
\* is not started again.
LoopEnds(l) ==
    /\ alive[l] /\ watcher[l] = None
    /\ alive' = [alive EXCEPT ![l] = FALSE]
    /\ IF l = "subscription" THEN feed' = {} /\ UNCHANGED walk ELSE walk' = {} /\ UNCHANGED feed
    /\ UNCHANGED <<cardVars, memberVars, roomVars, calls, watcher, restarts>>

\* Synapse stops and starts again; only the registry is on disk.
Restart ==
    /\ restarts < MaxRestarts /\ restarts' = restarts + 1
    /\ calls' = [m \in Member |-> None]
    /\ feed' = {} /\ walk' = {}
    /\ alive' = [l \in Loop |-> TRUE] /\ watcher' = [l \in Loop |-> None]
    /\ cache' = [a \in Address |-> None]
    /\ UNCHANGED <<cardVars, registry, roomVars>>

-----------------------------------------------------------------------------
(* The chain.  A revocation is final here.                                   *)

Changed == revoked \cup {a \in Address : field[a] # FieldAtFirst[a]}
Announce(a) == feed' = IF alive["subscription"] THEN feed \cup {a} ELSE feed
Revoke(a) ==
    /\ a \notin revoked /\ Cardinality(Changed) < MaxChanges
    /\ revoked' = revoked \cup {a}
    /\ Announce(a)
    /\ UNCHANGED <<field, memberVars, roomVars, calls, walk, alive, watcher, restarts>>
UpdateField(a, v) ==
    /\ a \in Changing \ Changed /\ field[a] # v /\ Cardinality(Changed) < MaxChanges
    /\ field' = [field EXCEPT ![a] = v]
    /\ Announce(a)
    /\ UNCHANGED <<revoked, memberVars, roomVars, calls, walk, alive, watcher, restarts>>

-----------------------------------------------------------------------------
Observe == qualified' = qualified \cup {d \in Document \X Card : Qualifies(d[1], d[2])'}

Hooks ==
    \/ \E r \in Room, c \in Card :
        \/ Ask(r, c) \/ ReadAncestor(r, c) \/ EndWalk(r, c) \/ AllowJoin(r, c)
        \/ RegisterCreator(r, c) \/ PersistJoin(r, c) \/ Leave(r, c)
        \/ AskPost(r, c) \/ RefreshForPost(r, c)
    \/ \E m \in Member : EndCall(m)
WatcherStep(l) ==
    \/ WatchedRefreshed(l) \/ Parted(l)
    \/ \E m \in Member : ForcePart(l, m) \/ GiveUp(l, m)
Backstop == StartRound \/ (\E a \in Address : LookAt(a))
Chain == \E a \in Address : Revoke(a) \/ \E v \in Field : UpdateField(a, v)
CreateRooms == Creation /\ UNCHANGED <<cardVars, memberVars, moduleVars>>

Next ==
    /\ \/ Hooks \/ TakeEvent \/ Backstop \/ Restart \/ Chain \/ CreateRooms
       \/ \E l \in Loop : WatcherStep(l) \/ LoopEnds(l)
    /\ Observe

Spec == Init /\ [][Next]_vars

\* The backstop and the hooks go on; a call to Synapse that may succeed does, if the
\* backstop tries it often enough.  Nothing is asked of the subscription.
FairSpec ==
    /\ Spec
    /\ WF_vars(WatcherStep("backstop") /\ Observe)
    /\ WF_vars(Backstop /\ Observe)
    /\ \A m \in Member : SF_vars(ForcePart("backstop", m) /\ Observe)
    /\ WF_vars((\E m \in Member : EndCall(m)) /\ Observe)

-----------------------------------------------------------------------------
(* Nobody but its creator is in a room, and no post is accepted in it, for a card  *)
(* whose chain never satisfied the room's policy, whatever was cached, for which   *)
(* room, and however the chain has changed since (module.py, predicates.py).    *)
MembersQualify ==
    \A r \in Room, c \in Card :
        Accepted(r, c) \/ (c \in joined[r] /\ rooms[r].creator # c)
            => <<PolicyOfRoom(r), c>> \in qualified

(* A registered member that depends on a revoked address is parted, or is no longer *)
(* registered, in the end, as long as the backstop runs; the creator, whom nobody    *)
(* can part, excepted (watcher.py).                                           *)
DependsOnRevoked(m) ==
    /\ m[2] \in joined[m[1]] /\ registry[m] # None
    /\ registry[m] \cap revoked # {} /\ Kickable(m)
RevokedIsParted ==
    \A m \in Member :
        (<>[]alive["backstop"]) => (DependsOnRevoked(m) ~> ~DependsOnRevoked(m))
=============================================================================
