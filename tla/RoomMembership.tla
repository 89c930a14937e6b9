--------------------------- MODULE RoomMembership ---------------------------
(***************************************************************************)
(* What the Matrix policy module keeps and evaluates (wallet-service/         *)
(* matrix-policy-module/.../membership_registry.py, cache.py, predicates.py,  *)
(* chain_context.py), and the cards it reads on the chain; and the rooms it   *)
(* keeps, which a wallet service creates.                                     *)
(*                                                                         *)
(* A card has one Matrix user of its own (attestation.py), so a membership is *)
(* a room and a card.  The registry is on disk; the cache is in memory and    *)
(* keyed by card, whatever the room.                                         *)
(***************************************************************************)
EXTENDS Integers, Sequences, FiniteSets

CONSTANTS
    Room, Card,
    Issuer,         \* addresses of the ancestors of cards
    ChainOf,        \* per card: its address and those of its ancestors
    PolicyOf,       \* per address: the policy_id of its card
    Field,          \* values of the field a policy may match
    FieldAtFirst,   \* per address: the value its card is issued with
    Changing,       \* addresses whose field may be updated, once: a bound
    Document,         \* CIDs of predicate documents of rooms
    Entries,        \* per document: the policies it lists, each with the values it matches
    Discernible,    \* whether verify_card may tell a revocation from an address alone;
                    \* as shipped it cannot, since it has no content to read
    None

Address == Card \cup Issuer
CardPolicy == {PolicyOf[a] : a \in Address}

ASSUME RoomAssumption ==
    /\ ChainOf \in [Card -> Seq(Address)]
    /\ \A c \in Card : ChainOf[c] # <<>> /\ ChainOf[c][1] = c
    /\ Changing \subseteq Address /\ FieldAtFirst \in [Address -> Field]
    /\ Entries \in [Document -> SUBSET [policy : CardPolicy, fields : SUBSET Field]]
    /\ Discernible \in BOOLEAN

VARIABLES
    revoked,        \* addresses whose head is a revocation
    field,          \* per address: the field of its card
    registry,       \* _memberships: per room and card
    cache           \* ChainWalkCache: per address

cardVars == <<revoked, field>>
memberVars == <<registry, cache>>

Link == [card : Address, field : Field]
Entry == [chain : SUBSET Link, revoked : BOOLEAN]

MembershipTypeOK ==
    /\ revoked \subseteq Address
    /\ field \in [Address -> Field]
    /\ registry \in [Room \X Card -> {None} \cup SUBSET Address]
    /\ cache \in [Address -> {None} \cup Entry]

MembershipInit ==
    /\ revoked = {} /\ field = FieldAtFirst
    /\ registry = [m \in Room \X Card |-> None]
    /\ cache = [a \in Address |-> None]

-----------------------------------------------------------------------------
(* The verifier                                                             *)

\* walk_join_attestation_chain reads the heads of the chain one after another:
\* a link and its revocation are those of the moment its head was read.
LinkTo(a) == [card |-> a, field |-> field[a]]
NoWalk == [chain |-> {}, revoked |-> FALSE]
WalkTo(w, a) == [chain |-> w.chain \cup {LinkTo(a)}, revoked |-> w.revoked \/ a \in revoked]
\* One that ends early keeps the links it has; where an ancestor could not be
\* decrypted, it leaves the status unknown, which is not a revocation.
Outcomes(w, complete) == [chain : {w.chain}, revoked : {w.revoked, w.revoked /\ complete}]

\* verify_card_revocation may answer, of a revoked card, that it is revoked, and
\* of any card that its status is unknown; as shipped it always answers the latter.
Statuses(a) == IF Discernible /\ a \in revoked THEN BOOLEAN ELSE {FALSE}

\* evaluate_room_predicate: some link under some policy entry, fields included.
\* Mutant: a link under the policy will do, whatever its field.
AnyFieldMatches(entry, link) == PolicyOf[link.card] = entry.policy
Matches(entry, link) == PolicyOf[link.card] = entry.policy /\ link.field \in entry.fields
Satisfies(policy, chain) == \E entry \in Entries[policy], link \in chain : Matches(entry, link)

-----------------------------------------------------------------------------
(* MembershipRegistry                                                       *)

\* The addresses a membership depends on.
WatchedBy(c, chain) == IF chain = {} THEN {c} ELSE {l.card : l \in chain}

RegisterMembership(r, c, chain) == registry' = [registry EXCEPT ![<<r, c>>] = WatchedBy(c, chain)]
RemoveMembership(m) == [registry EXCEPT ![m] = None]

WatchedIn(reg) == UNION {reg[m] : m \in {n \in Room \X Card : reg[n] # None}}
Watched == WatchedIn(registry)
MembershipsFor(a) == {m \in Room \X Card : registry[m] # None /\ a \in registry[m]}

-----------------------------------------------------------------------------
(* ChainWalkCache                                                           *)

SeedFromJoin(c, walk) == cache' = [cache EXCEPT ![c] = walk]

\* invalidate_and_refresh, once the status has been read
Refreshed(a, status) ==
    [chain |-> IF cache[a] = None THEN {} ELSE cache[a].chain, revoked |-> status]
Refresh(a, status) == cache' = [cache EXCEPT ![a] = Refreshed(a, status)]

Drop(a, reg) == IF a \in WatchedIn(reg) THEN cache ELSE [cache EXCEPT ![a] = None]
-----------------------------------------------------------------------------
(* Rooms: how a wallet service creates one that is card-gated                 *)
(* (wallet-service/server/routes/matrix/rooms/index.post.ts): it provisions    *)
(* the shadow account of the card, mints an access token for it, has Synapse   *)
(* create the room, and enters the room in its index.  Each is a request of    *)
(* its own; a retry of a request that failed starts again and may create       *)
(* another room.                                                            *)

CONSTANT Founder    \* cards that create rooms, a bound
ASSUME FounderAssumption == Founder \subseteq Card
ASSUME NoneIsNoRoom == None \notin [creator : Card, policy : Document]

VARIABLES
    rooms,          \* Synapse: per room its creator and its m.card.policy
    joined,         \* Synapse: per room the cards whose user is in it
    accounts,       \* Synapse: cards with a shadow account
    tokens,         \* the key-value store: cards with a cached access token
    creating,       \* per card: its POST /matrix/rooms being served
    index           \* matrix_room_index

roomVars == <<rooms, joined, accounts, tokens, creating, index>>

RoomsTypeOK ==
    /\ rooms \in [Room -> {None} \cup [creator : Card, policy : Document]]
    /\ joined \in [Room -> SUBSET Card]
    /\ accounts \subseteq Card /\ tokens \subseteq accounts
    /\ creating \in [Card -> {None} \cup [policy : Document, stage : {"provisioned", "minted"}]
                                   \cup [policy : Document, room : Room]]
    /\ index \in [Room -> {None} \cup Document]

RoomsInit ==
    /\ rooms = [r \in Room |-> None] /\ joined = [r \in Room |-> {}]
    /\ accounts = {} /\ tokens = {}
    /\ creating = [c \in Card |-> None]
    /\ index = [r \in Room |-> None]

At(c, stage) == creating[c] # None /\ "stage" \in DOMAIN creating[c] /\ creating[c].stage = stage

\* provisionShadowAccount: an account that exists is as good as a new one.  Room
\* bounds how many are created.
ProvisionShadowAccount(c, p) ==
    /\ c \in Founder /\ creating[c] = None /\ \E r \in Room : rooms[r] = None
    /\ accounts' = accounts \cup {c}
    /\ creating' = [creating EXCEPT ![c] = [policy |-> p, stage |-> "provisioned"]]
    /\ UNCHANGED <<rooms, joined, tokens, index>>

\* mintMatrixAccessToken
MintToken(c) ==
    /\ At(c, "provisioned")
    /\ tokens' = tokens \cup {c}
    /\ creating' = [creating EXCEPT ![c].stage = "minted"]
    /\ UNCHANGED <<rooms, joined, accounts, index>>

\* createMatrixRoomViaSynapse: the creator is in the room from the start, with a power
\* level the enforcement account does not reach.
CreateRoom(c, r) ==
    /\ At(c, "minted") /\ rooms[r] = None
    /\ rooms' = [rooms EXCEPT ![r] = [creator |-> c, policy |-> creating[c].policy]]
    /\ joined' = [joined EXCEPT ![r] = {c}]
    /\ creating' = [creating EXCEPT ![c] = [policy |-> creating[c].policy, room |-> r]]
    /\ UNCHANGED <<accounts, tokens, index>>

\* insertRoomIndexEntry
IndexRoom(c) ==
    /\ creating[c] # None /\ "room" \in DOMAIN creating[c]
    /\ index' = [index EXCEPT ![creating[c].room] = IF @ = None THEN creating[c].policy ELSE @]
    /\ creating' = [creating EXCEPT ![c] = None]
    /\ UNCHANGED <<rooms, joined, accounts, tokens>>

\* A request fails, or the service stops in between.
CreationFails(c) ==
    /\ creating[c] # None
    /\ creating' = [creating EXCEPT ![c] = None]
    /\ UNCHANGED <<rooms, joined, accounts, tokens, index>>

Creation ==
    \/ \E c \in Card, p \in Document : ProvisionShadowAccount(c, p)
    \/ \E c \in Card, r \in Room : CreateRoom(c, r)
    \/ \E c \in Card : MintToken(c) \/ IndexRoom(c) \/ CreationFails(c)

\* listRoomIndex, which anybody may read.
RoomIndex == {r \in Room : index[r] # None}

\* The power level of the creator is above that of the enforcement account.
Kickable(m) == m[2] # rooms[m[1]].creator
=============================================================================
