--------------------------- MODULE MCCardRegistry ---------------------------
(* CardRegistry and, with it, DnsRegistry on a small instance.              *)
EXTENDS DnsRegistry, TLC

CONSTANTS
    p1, n1, n2, n3, n4,
    OneUse, OfferExpiry,        \* the stricter of the two terms callers name
    MaxHeadWrites               \* per authorization, where only heads are explored

MCOfferTerms == {[max |-> OneUse, expires |-> OfferExpiry], [max |-> OneUse + 1, expires |-> 0]}
MCBatchItems == [card : Card, prev : Cid, new : Cid]
NonceOrder == <<n1, n2, n3, n4>>
MCNone == {}

\* Two explorations share the run, since all of it at once is too much.  Heads:
\* two policies that come and go, batches, a press authorized again and again.
HeadsOnly ==
    /\ now = 1
    /\ \A s \in SubCard : subCards[s] = NoSubCard
    /\ \A o \in Offer : offerCounts[o] = 0
    /\ \A c \in Card : cards[c].forward = Nil
    /\ \A a \in Policy \X Press : \A i \in DOMAIN gateLog[a] :
          gateLog[a][i].sequence < MaxHeadWrites

\* Everything else: one policy, one authorization, time, offers and sub-cards.
OnePolicy ==
    /\ policies \subseteq {p1} /\ Cardinality(usedNonces) <= 2
    /\ \A a \in Policy \X Press : auth[a].key # Nil => a[1] = p1
    /\ \A a \in Policy \X Press : \A i \in DOMAIN gateLog[a] :
          gateLog[a][i].op # "batch_update_card_heads"

\* Nonces are interchangeable: they are spent in one order.
InOrder == \E k \in 0..Len(NonceOrder) : usedNonces = {NonceOrder[i] : i \in 1..k}

Explored == InOrder /\ (HeadsOnly \/ OnePolicy)

Symmetry == Permutations(Card) \cup Permutations(SubCard) \cup Permutations(Cid)
DnsSymmetry == Permutations(Nonce)
=============================================================================
