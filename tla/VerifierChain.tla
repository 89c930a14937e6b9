---------------------------- MODULE VerifierChain ----------------------------
(***************************************************************************)
(* What a verification reads through RpcProvider and IpfsProvider            *)
(* (membership_card_verifier/packages/verifier/src/types.ts): the log of      *)
(* every card, whose last entry is its head, the registration of the sub-card *)
(* that signed, the policy authorizers and the authorization of the press.    *)
(*                                                                         *)
(* All of it is written by others, between any two reads.  A log entry stands *)
(* for its CID: what a CID names never changes, so a head and the document    *)
(* behind it are one thing, and a fetch either gives it or fails.             *)
(***************************************************************************)
EXTENDS Naturals, Sequences, FiniteSets, SequencesExt

CONSTANTS
    Card, Nil,
    Ancestries,     \* the ancestries to check: each maps a card to the one above
    Master,         \* the card that a sub-card is registered under
    AppCard,        \* the card of the app that a sub-card names
    SubCards,       \* the sub-cards and sub-card documents to check
    Missing,        \* the sets of cards that may not be registered
    Changing,       \* the cards that others change
    Reported,       \* the effective dates a revocation may give itself
    MaxTime,        \* bound on time
    MaxChanges      \* bound on what others change

\* exists: the registry has a card at the sub-card's address.  flaw: what is wrong
\* with the document.  complete: the master has every field its policy requires.
SubCardEntry ==
    [exists : BOOLEAN, active : BOOLEAN, complete : BOOLEAN,
     flaw : {"none", "binding", "registration", "holder-signature", "app-signature"}]

ASSUME ChainAssumption ==
    /\ Nil \notin Card \cup Nat /\ {Master, AppCard} \subseteq Card
    /\ Ancestries \subseteq [Card -> Card \cup {Nil}]
    /\ SubCards \subseteq SubCardEntry /\ Missing \subseteq SUBSET Card
    /\ Changing \subseteq Card /\ Reported \subseteq Nat \cup {Nil}
    /\ MaxTime \in Nat /\ MaxChanges \in Nat

VARIABLES
    log,            \* per card: its entries with the time of their events
    subCard,        \* the sub-card and its document
    authorizers,    \* the cards isPolicyAuthorizer answers for
    pressLog,       \* the authorizations the press has had
    parent,         \* ancestry_pubkeys[0] of every card
    now,
    changes         \* how many changes others have made

chainVars == <<log, subCard, authorizers, pressLog, parent, now, changes>>

\* listed: active_subcards holds the sub-card.  honest: history names every
\* entry before.  reported: the effective_date a revocation gives itself.
Entry == [kind : {"genesis", "field_update", "revocation"}, readable : BOOLEAN,
          listed : BOOLEAN, honest : BOOLEAN, reported : Nat \cup {Nil}, at : Nat]
PressStatus == {"none", "active", "inactive"}

ChainTypeOK ==
    /\ log \in [Card -> Seq(Entry)]
    /\ subCard \in SubCardEntry
    /\ authorizers \subseteq Card
    /\ pressLog \in Seq(PressStatus)
    /\ parent \in Ancestries
    /\ now \in 0..MaxTime /\ changes \in 0..MaxChanges

Genesis == [kind |-> "genesis", readable |-> TRUE, listed |-> TRUE, honest |-> TRUE,
            reported |-> Nil, at |-> 0]

ChainInit ==
    /\ \E missing \in Missing :
          log = [c \in Card |-> IF c \in missing THEN <<>> ELSE <<Genesis>>]
    /\ subCard \in SubCards
    /\ authorizers = {} /\ pressLog \in {<<"none">>, <<"active">>}
    /\ parent \in Ancestries
    /\ now = 0 /\ changes = 0

Exists(c) == log[c] # <<>>
HeadOf(c) == Last(log[c])

Change ==
    /\ changes < MaxChanges
    /\ changes' = changes + 1
    /\ UNCHANGED <<parent, now>>

Publish(c, entry) ==
    /\ Change
    /\ Exists(c)
    /\ log' = [log EXCEPT ![c] = Append(@, entry)]
    /\ UNCHANGED <<subCard, authorizers, pressLog>>

\* A press writes an update: one like any other, one that the readers of the card
\* cannot decrypt, one that strikes the sub-card off, or one that leaves part of
\* its history out.
Update(c) ==
    \E readable, listed, honest \in BOOLEAN :
        /\ Cardinality({q \in 1..3 : ~<<readable, listed, honest>>[q]}) <= 1
        /\ c # Master => listed
        /\ Publish(c, [kind |-> "field_update", readable |-> readable, listed |-> listed,
                       honest |-> honest, reported |-> Nil, at |-> now])

Revoke(c) ==
    \E reported \in Reported :
        Publish(c, [kind |-> "revocation", readable |-> TRUE, listed |-> HeadOf(c).listed,
                    honest |-> TRUE, reported |-> reported, at |-> now])

Deregister ==
    /\ Change
    /\ subCard.active
    /\ subCard' = [subCard EXCEPT !.active = FALSE]
    /\ UNCHANGED <<log, authorizers, pressLog>>

ToggleAuthorizer(c) ==
    /\ Change
    /\ authorizers' = IF c \in authorizers THEN authorizers \ {c} ELSE authorizers \cup {c}
    /\ UNCHANGED <<log, subCard, pressLog>>

SetPress(status) ==
    /\ Change
    /\ status = IF Last(pressLog) = "active" THEN "inactive" ELSE "active"
    /\ pressLog' = Append(pressLog, status)
    /\ UNCHANGED <<log, subCard, authorizers>>

Tick ==
    /\ now < MaxTime
    /\ now' = now + 1
    /\ UNCHANGED <<log, subCard, authorizers, pressLog, parent, changes>>

ChainStep ==
    \/ \E c \in Changing : Update(c) \/ Revoke(c) \/ ToggleAuthorizer(c)
    \/ Deregister
    \/ \E status \in PressStatus : SetPress(status)
    \/ Tick
=============================================================================
