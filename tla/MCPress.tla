------------------------------- MODULE MCPress -------------------------------
(* Press on a small instance.                                               *)
EXTENDS Press, TLC

CONSTANTS r1, p1, c1, i1, i2, h0, h1, h2

MCDocumentTerms == [o \in Offer |-> [max |-> 1, expires |-> 2]]
MCOfferTerms == {MCDocumentTerms[o] : o \in Offer}
MCOfferPolicy == [o \in Target \cup Offer |-> p1]
MCContentCid == (i1 :> h1) @@ (i2 :> h2)
MCNone == {}

\* Two explorations share the run, since all of it at once is too much: updates
\* of one card with the rest of the world acting, ...
Bystanders ==
    /\ now = 1
    /\ \A i \in Request : handler[i].kind \in {"none", "update"}
    /\ \A c \in Card : cards[c].exists => c = Founder
    /\ \A s \in SubCard : subCards[s] = NoSubCard
    /\ \A o \in Offer : offerCounts[o] = 0
    /\ \A o \in Target : offers[o] = "none"

\* ... and requests of every kind with nobody else acting but the clock.
Alone ==
    /\ usedNonces = {} /\ \A c \in Card : cards[c].forward = Nil
    /\ \A p \in Policy, r \in Press \ {Self} : gateLog[<<p, r>>] = <<>>

Explored == Bystanders \/ Alone
=============================================================================
