----------------------------- MODULE EdgeProofs -----------------------------
(* The services at the edge of a card: which one it is routed to, the pools    *)
(* of UUIDs its sub-cards are reached by, and the path that hides who asks.    *)
(* Theorems about FederatedRouting, SubCardPools and ObliviousPath, for every *)
(* value of their constants.                                               *)
EXTENDS FederatedRouting, SubCardPools, ObliviousPath, FiniteSetTheorems, TLAPS

-----------------------------------------------------------------------------
(* FederatedRouting: the order of announcements does not matter               *)

RoutingTypes ==
    /\ routing \in [Service -> [Card -> Announcement \cup {Nil}]]
    /\ opening \in [Service -> [Card -> Opening]]
    /\ serving \in [Service -> SUBSET Serving]
    /\ posts \subseteq Service \X Announcement
    /\ made \subseteq Announcement
    /\ applied \in [Service -> SUBSET Announcement]

\* What is held, on its way or compared was announced, and stands at its own card.
EntriesMade ==
    \A n \in Service, c \in Card :
        routing[n][c] # Nil => routing[n][c] \in made /\ routing[n][c].card = c
RegistrationOf(a, n, c) ==
    a \in made /\ a.card = c /\ a.service = n /\ a.type = Registration
OpeningsMade ==
    \A n \in Service, c \in Card :
        opening[n][c].step \in {"find", "write", "post"} =>
            RegistrationOf(opening[n][c].announcement, n, c)
HandledMade ==
    /\ \A n \in Service : applied[n] \subseteq made
    /\ \A n \in Service : \A h \in serving[n] : h.announcement \in made
    /\ \A p \in posts : p[2] \in made
OfMade == EntriesMade /\ OpeningsMade /\ HandledMade

\* A service registers a card once, while it opens its account.
RegistersOnce ==
    \A a \in made : a.type = Registration =>
        /\ opening[a.service][a.card].step \notin {"none", "row", "record"}
        /\ opening[a.service][a.card].step # "held" =>
              opening[a.service][a.card].announcement = a

Writers(n, c) == {h \in serving[n] : h.announcement.card = c /\ h.step = "write"}

\* A comparison that is not disturbed is with the entry as it is, and there is one.
ComparesWithCurrent(n, c) ==
    /\ opening[n][c].step = "write" =>
          Writers(n, c) = {} /\ opening[n][c].found = routing[n][c]
    /\ \A h \in Writers(n, c) : h.found = routing[n][c]
    /\ \A g, h \in Writers(n, c) : g = h

\* The order the comparison is meant to establish.
Supersedes(a, b) ==
    \/ a.type = Migration /\ b.type = Registration
    \/ a.type = b.type /\ a.stamp > b.stamp
HoldsFirst(n, c) ==
    /\ routing[n][c] = Nil => Heard(n, c) = {}
    /\ routing[n][c] # Nil =>
          /\ routing[n][c] \in Heard(n, c)
          /\ \A a \in Heard(n, c) : a # routing[n][c] => Supersedes(routing[n][c], a)

InOrder(n, c) ==
    <<n, c>> \notin disturbed => /\ ComparesWithCurrent(n, c)
                                 /\ ~Tied(c) => HoldsFirst(n, c)
RoutingIInv ==
    /\ RoutingTypes /\ OfMade /\ RegistersOnce
    /\ \A n \in Service, c \in Card : InOrder(n, c)

-----------------------------------------------------------------------------

\* Where a service neither writes nor starts to compare, what it holds stays in order.
LEMMA StaysInOrder ==
    ASSUME NEW n \in Service, NEW c \in Card, InOrder(n, c),
           routing'[n][c] = routing[n][c], Heard(n, c)' = Heard(n, c),
           opening'[n][c].step = "write" => opening'[n][c] = opening[n][c],
           Writers(n, c)' \subseteq Writers(n, c),
           disturbed \subseteq disturbed', made \subseteq made'
    PROVE  InOrder(n, c)'
<1>1. Tied(c) => Tied(c)'
    BY DEF Tied
<1>2. <<n, c>> \notin disturbed' => <<n, c>> \notin disturbed
    OBVIOUS
<1>3. ComparesWithCurrent(n, c) => ComparesWithCurrent(n, c)'
    BY DEF ComparesWithCurrent
<1>4. HoldsFirst(n, c) => HoldsFirst(n, c)'
    BY DEF HoldsFirst
<1>5. QED
    BY <1>1, <1>2, <1>3, <1>4 DEF InOrder

\* An account that is being opened moves on.
LEMMA OpeningMoves ==
    ASSUME RoutingTypes, NEW n \in Service, NEW c \in Card, NEW o \in Opening,
           StepOpening(n, c, o)
    PROVE  /\ opening' \in [Service -> [Card -> Opening]]
           /\ opening'[n][c] = o
           /\ \A m \in Service, d \in Card : m # n \/ d # c => opening'[m][d] = opening[m][d]
BY DEF RoutingTypes, StepOpening

\* Nobody has heard of anything.
LEMMA RoutingInitial == Init => RoutingIInv
<1> SUFFICES ASSUME Init PROVE RoutingIInv
    OBVIOUS
<1>1. NotOpened \in Opening
    BY DEF NotOpened, Opening
<1>2. RoutingTypes
    BY <1>1 DEF Init, RoutingTypes
<1>3. OfMade /\ RegistersOnce
    BY DEF Init, OfMade, EntriesMade, OpeningsMade, HandledMade, RegistersOnce, NotOpened
<1>4. \A n \in Service, c \in Card : InOrder(n, c)
    BY DEF Init, InOrder, ComparesWithCurrent, HoldsFirst, Heard, Writers, NotOpened
<1>5. QED
    BY <1>2, <1>3, <1>4 DEF RoutingIInv

-----------------------------------------------------------------------------
(* Opening an account                                                       *)

\* An account is created and its keyring stored before anything is announced.
LEMMA BeforeItsRegistration ==
    ASSUME RoutingIInv, NEW n \in Service, NEW c \in Card,
           CreateAccount(n, c) \/ InsertKeyring(n, c)
    PROVE  RoutingIInv'
<1>1. PICK step \in {"row", "record"} :
          StepOpening(n, c, [NotOpened EXCEPT !.step = step])
    BY DEF CreateAccount, InsertKeyring
<1> DEFINE o == [NotOpened EXCEPT !.step = step]
<1>2. o \in Opening /\ o.step = step /\ StepOpening(n, c, o)
    BY <1>1 DEF NotOpened, Opening
<1> HIDE DEF o
<1>3. /\ opening' \in [Service -> [Card -> Opening]] /\ opening'[n][c].step = step
      /\ \A m \in Service, d \in Card : m # n \/ d # c => opening'[m][d] = opening[m][d]
    BY <1>2, OpeningMoves DEF RoutingIInv
<1>4. /\ UNCHANGED <<routing, serving, posts, made, applied, disturbed>>
      /\ opening[n][c].step \in {"none", "row"}
    BY DEF CreateAccount, InsertKeyring
<1>5. RoutingTypes' /\ OfMade'
    BY <1>1, <1>3, <1>4, SMTT(30)
    DEF RoutingIInv, RoutingTypes, OfMade, EntriesMade, OpeningsMade, HandledMade,
        RegistrationOf
<1>6. RegistersOnce'
  <2>1. \A a \in made : a.type = Registration => a.service # n \/ a.card # c
      BY <1>4 DEF RoutingIInv, RegistersOnce
  <2>2. \A a \in made : a.service \in Service /\ a.card \in Card
      BY DEF RoutingIInv, RoutingTypes, Announcement
  <2>3. QED
      BY <1>3, <1>4, <2>1, <2>2 DEF RoutingIInv, RegistersOnce
<1>7. \A m \in Service, d \in Card : InOrder(m, d)'
    BY <1>3, <1>4, StaysInOrder DEF RoutingIInv, Heard, Writers
<1>8. QED
    BY <1>5, <1>6, <1>7 DEF RoutingIInv

\* A service builds its own announcement and records its nonce.
LEMMA RecordingOwn ==
    ASSUME RoutingIInv, NEW n \in Service, NEW c \in Card, RecordOwnNonce(n, c)
    PROVE  RoutingIInv'
<1>1. PICK stamp \in Stamp :
          /\ made' = made \cup {Built(n, c, stamp)}
          /\ StepOpening(n, c, [step |-> "find", announcement |-> Built(n, c, stamp),
                                found |-> Nil])
    BY DEF RecordOwnNonce
<1> DEFINE a == Built(n, c, stamp)
           o == [step |-> "find", announcement |-> a, found |-> Nil]
<1>2. /\ a \in Announcement /\ a.card = c /\ a.service = n /\ a.type = Registration
    BY DEF Built, Announcement, Roles
<1>3. made' = made \cup {a} /\ StepOpening(n, c, o)
    BY <1>1
<1> HIDE DEF a
<1>4. o \in Opening /\ o.step = "find" /\ o.announcement = a
    BY <1>2 DEF Opening
<1> HIDE DEF o
<1>5. /\ opening' \in [Service -> [Card -> Opening]] /\ opening'[n][c] = o
      /\ \A m \in Service, d \in Card : m # n \/ d # c => opening'[m][d] = opening[m][d]
    BY <1>3, <1>4, OpeningMoves DEF RoutingIInv
<1>6. /\ UNCHANGED <<routing, serving, posts, applied, disturbed>>
      /\ opening[n][c].step = "record"
    BY DEF RecordOwnNonce
<1>7. RoutingTypes' /\ OfMade'
  <2>1. RoutingTypes'
      BY <1>2, <1>3, <1>5, <1>6 DEF RoutingIInv, RoutingTypes
  <2>2. EntriesMade' /\ HandledMade'
      BY <1>3, <1>6 DEF RoutingIInv, OfMade, EntriesMade, HandledMade
  <2>3. OpeningsMade'
      BY <1>2, <1>3, <1>4, <1>5 DEF RoutingIInv, OfMade, OpeningsMade, RegistrationOf
  <2>4. QED
      BY <2>1, <2>2, <2>3 DEF OfMade
<1>8. RegistersOnce'
  <2>1. \A b \in made : b.type = Registration => b.service # n \/ b.card # c
      BY <1>6 DEF RoutingIInv, RegistersOnce
  <2>2. \A b \in made : b.service \in Service /\ b.card \in Card
      BY DEF RoutingIInv, RoutingTypes, Announcement
  <2>3. QED
      BY <1>2, <1>3, <1>4, <1>5, <2>1, <2>2 DEF RoutingIInv, RegistersOnce
<1>9. \A m \in Service, d \in Card : InOrder(m, d)'
    BY <1>3, <1>4, <1>5, <1>6, StaysInOrder DEF RoutingIInv, Heard, Writers
<1>10. QED
    BY <1>7, <1>8, <1>9 DEF RoutingIInv

\* It reads what it holds of the card it has registered.
LEMMA FindingOwn ==
    ASSUME RoutingIInv, NEW n \in Service, NEW c \in Card, FindOwnEntry(n, c)
    PROVE  RoutingIInv'
<1> DEFINE o == [opening[n][c] EXCEPT !.step = "write", !.found = routing[n][c]]
<1>1. /\ opening[n][c].step = "find" /\ StepOpening(n, c, o)
      /\ disturbed' = disturbed \cup Overlaps(n, c)
      /\ UNCHANGED <<routing, serving, posts, made, applied>>
    BY DEF FindOwnEntry
<1>2. /\ o \in Opening /\ o.step = "write" /\ o.found = routing[n][c]
      /\ o.announcement = opening[n][c].announcement
  <2>1. opening[n][c] \in Opening /\ routing[n][c] \in Announcement \cup {Nil}
      BY DEF RoutingIInv, RoutingTypes
  <2>2. QED
      BY <2>1 DEF Opening
<1> HIDE DEF o
<1>3. /\ opening' \in [Service -> [Card -> Opening]] /\ opening'[n][c] = o
      /\ \A m \in Service, d \in Card : m # n \/ d # c => opening'[m][d] = opening[m][d]
    BY <1>1, <1>2, OpeningMoves DEF RoutingIInv
<1>4. RoutingTypes' /\ OfMade'
  <2>1. RoutingTypes' /\ EntriesMade' /\ HandledMade'
      BY <1>1, <1>3 DEF RoutingIInv, RoutingTypes, OfMade, EntriesMade, HandledMade
  <2>2. OpeningsMade'
      BY <1>1, <1>2, <1>3 DEF RoutingIInv, OfMade, OpeningsMade, RegistrationOf
  <2>3. QED
      BY <2>1, <2>2 DEF OfMade
<1>5. RegistersOnce'
    BY <1>1, <1>2, <1>3 DEF RoutingIInv, RoutingTypes, RegistersOnce, Announcement
<1>6. ASSUME NEW m \in Service, NEW d \in Card, m # n \/ d # c PROVE InOrder(m, d)'
    BY <1>1, <1>3, <1>6, StaysInOrder DEF RoutingIInv, Heard, Writers
<1>7. InOrder(n, c)'
  <2>1. <<n, c>> \notin disturbed' => <<n, c>> \notin disturbed /\ Writers(n, c) = {}
      BY <1>1 DEF Overlaps, Comparing, Writers
  <2>2. Writers(n, c)' = Writers(n, c) /\ Tied(c)' = Tied(c) /\ Heard(n, c)' = Heard(n, c)
      BY <1>1 DEF Writers, Tied, Heard
  <2>3. InOrder(n, c)
      BY DEF RoutingIInv
  <2>4. QED
      BY <1>1, <1>2, <1>3, <2>1, <2>2, <2>3 DEF InOrder, ComparesWithCurrent, HoldsFirst
<1>8. QED
    BY <1>4, <1>5, <1>6, <1>7 DEF RoutingIInv

\* A service puts itself first where its registration supersedes what it found, or
\* where it is there already.
LEMMA WritingOwn ==
    ASSUME RoutingIInv, NEW n \in Service, NEW c \in Card, WriteOwnEntry(n, c)
    PROVE  RoutingIInv'
<1> DEFINE a == opening[n][c].announcement
           found == opening[n][c].found
           o == [opening[n][c] EXCEPT !.step = "post"]
<1>1. /\ opening[n][c].step = "write" /\ StepOpening(n, c, o)
      /\ routing' = IF found = Nil \/ found.service # n
                    THEN [routing EXCEPT ![n][c] = a] ELSE routing
      /\ applied' = [applied EXCEPT ![n] = @ \cup {a}]
      /\ disturbed' = disturbed \cup Unfounded(n, c, found, a)
      /\ UNCHANGED <<serving, posts, made>>
    BY DEF WriteOwnEntry
<1>2. o \in Opening /\ o.step = "post" /\ o.announcement = a
  <2>1. opening[n][c] \in Opening
      BY DEF RoutingIInv, RoutingTypes
  <2>2. QED
      BY <2>1 DEF Opening
<1>3. /\ a \in made /\ a \in Announcement /\ a.card = c /\ a.service = n /\ a.type = Registration
      /\ a # Nil
    BY <1>1, NilAssumption
    DEF RoutingIInv, RoutingTypes, OfMade, EntriesMade, OpeningsMade, HandledMade,
        RegistrationOf
<1> HIDE DEF o
<1>4. /\ opening' \in [Service -> [Card -> Opening]] /\ opening'[n][c] = o
      /\ \A m \in Service, d \in Card : m # n \/ d # c => opening'[m][d] = opening[m][d]
    BY <1>1, <1>2, OpeningMoves DEF RoutingIInv
<1> HIDE DEF a
<1>5. /\ routing' \in [Service -> [Card -> Announcement \cup {Nil}]]
      /\ routing'[n][c] = IF found = Nil \/ found.service # n THEN a ELSE routing[n][c]
      /\ \A m \in Service, d \in Card : m # n \/ d # c => routing'[m][d] = routing[m][d]
    BY <1>1, <1>3 DEF RoutingIInv, RoutingTypes
<1>6. /\ applied' \in [Service -> SUBSET Announcement]
      /\ applied'[n] = applied[n] \cup {a}
      /\ \A m \in Service : m # n => applied'[m] = applied[m]
    BY <1>1, <1>3 DEF RoutingIInv, RoutingTypes
<1>7. RoutingTypes'
    BY <1>1, <1>4, <1>5, <1>6 DEF RoutingIInv, RoutingTypes
<1>8. OfMade'
  <2>1. \A m \in Service, d \in Card :
            routing'[m][d] # Nil => routing'[m][d] \in made /\ routing'[m][d].card = d
      BY <1>3, <1>5
      DEF RoutingIInv, OfMade, EntriesMade, OpeningsMade, HandledMade, RegistrationOf
  <2>2. \A m \in Service, d \in Card : opening'[m][d].step \in {"find", "write", "post"} =>
            /\ opening'[m][d].announcement \in made /\ opening'[m][d].announcement.card = d
            /\ opening'[m][d].announcement.service = m
            /\ opening'[m][d].announcement.type = Registration
      BY <1>2, <1>3, <1>4
      DEF RoutingIInv, OfMade, EntriesMade, OpeningsMade, HandledMade, RegistrationOf
  <2>3. \A m \in Service : applied'[m] \subseteq made
      BY <1>3, <1>6
      DEF RoutingIInv, OfMade, EntriesMade, OpeningsMade, HandledMade, RegistrationOf
  <2>4. QED
      BY <1>1, <2>1, <2>2, <2>3
      DEF RoutingIInv, OfMade, EntriesMade, OpeningsMade, HandledMade, RegistrationOf
<1>9. RegistersOnce'
    BY <1>1, <1>2, <1>4 DEF a, RoutingIInv, RoutingTypes, RegistersOnce, Announcement
<1>10. ASSUME NEW m \in Service, NEW d \in Card, m # n \/ d # c PROVE InOrder(m, d)'
  <2>1. Heard(m, d)' = Heard(m, d)
      BY <1>3, <1>6, <1>10 DEF Heard
  <2>2. QED
      BY <1>1, <1>4, <1>5, <1>10, <2>1, StaysInOrder DEF RoutingIInv, Writers
<1>11. InOrder(n, c)'
  <2> SUFFICES ASSUME <<n, c>> \notin disturbed'
               PROVE  ComparesWithCurrent(n, c)' /\ (~Tied(c)' => HoldsFirst(n, c)')
      BY DEF InOrder
  <2>1. <<n, c>> \notin disturbed /\ Unfounded(n, c, found, a) = {}
      BY <1>1 DEF Unfounded
  <2>2. Writers(n, c) = {} /\ found = routing[n][c] /\ (~Tied(c) => HoldsFirst(n, c))
      BY <1>1, <2>1 DEF RoutingIInv, InOrder, ComparesWithCurrent
  <2>3. ComparesWithCurrent(n, c)'
      BY <1>1, <1>2, <1>4, <2>2 DEF ComparesWithCurrent, Writers
  <2>4. Tied(c)' = Tied(c) /\ Heard(n, c)' = Heard(n, c) \cup {a}
      BY <1>1, <1>3, <1>6 DEF Tied, Heard
  <2>5. ASSUME ~Tied(c) PROVE HoldsFirst(n, c)'
    <3>1. CASE found = Nil
        BY <1>3, <1>5, <2>2, <2>4, <2>5, <3>1 DEF HoldsFirst
    <3>2. CASE found # Nil /\ found.service # n
      <4>1. a.type = found.type /\ a.stamp > found.stamp
          BY <2>1, <3>2 DEF Unfounded
      <4>2. /\ found \in Heard(n, c) /\ found \in Announcement
            /\ \A b \in Heard(n, c) : b # found => Supersedes(found, b) /\ b \in Announcement
          BY <2>2, <2>5, <3>2 DEF HoldsFirst, Heard, RoutingIInv, RoutingTypes
      <4>3. \A b \in Heard(n, c) : Supersedes(a, b)
          BY <1>3, <4>1, <4>2, FederationAssumption
          DEF Supersedes, Announcement, Registration, Migration
      <4>4. QED
          BY <1>3, <1>5, <2>4, <3>2, <4>3 DEF HoldsFirst
    <3>3. CASE found # Nil /\ found.service = n
      <4>1. found \in made /\ found.card = c /\ found \in Announcement
          BY <2>2, <3>3 DEF RoutingIInv, OfMade, EntriesMade, RoutingTypes
      <4>2. found.type = Registration => found = a
          BY <1>1, <3>3, <4>1 DEF a, RoutingIInv, RegistersOnce
      <4>3. found # a => Supersedes(found, a)
          BY <1>3, <4>1, <4>2 DEF Supersedes, Announcement
      <4>4. routing'[n][c] = found
          BY <1>5, <2>2, <3>3
      <4>5. QED
          BY <2>2, <2>4, <2>5, <3>3, <4>3, <4>4 DEF HoldsFirst
    <3>4. QED
        BY <3>1, <3>2, <3>3
  <2>6. QED
      BY <2>3, <2>4, <2>5
<1>12. QED
    BY <1>7, <1>8, <1>9, <1>10, <1>11 DEF RoutingIInv

\* It posts its announcement to its peers; the account is held from then on.
LEMMA Broadcasting ==
    ASSUME RoutingIInv, NEW n \in Service, NEW c \in Card, BroadcastOwn(n, c)
    PROVE  RoutingIInv'
<1> DEFINE o == [NotOpened EXCEPT !.step = "held"]
<1>1. /\ opening[n][c].step = "post" /\ StepOpening(n, c, o)
      /\ posts' = posts \cup Broadcast(n, opening[n][c].announcement)
      /\ UNCHANGED <<routing, serving, made, applied, disturbed>>
    BY DEF BroadcastOwn
<1>2. o \in Opening /\ o.step = "held"
    BY DEF NotOpened, Opening
<1> HIDE DEF o
<1>3. /\ opening' \in [Service -> [Card -> Opening]] /\ opening'[n][c] = o
      /\ \A m \in Service, d \in Card : m # n \/ d # c => opening'[m][d] = opening[m][d]
    BY <1>1, <1>2, OpeningMoves DEF RoutingIInv
<1>4. opening[n][c].announcement \in made
    BY <1>1 DEF RoutingIInv, OfMade, OpeningsMade, RegistrationOf
<1>5. RoutingTypes' /\ OfMade'
  <2>1. \A p \in Broadcast(n, opening[n][c].announcement) :
            p \in Service \X Announcement /\ p[2] \in made
      BY <1>4 DEF Broadcast, RoutingIInv, RoutingTypes
  <2>2. RoutingTypes' /\ EntriesMade' /\ HandledMade'
      BY <1>1, <1>3, <2>1 DEF RoutingIInv, RoutingTypes, OfMade, EntriesMade, HandledMade
  <2>3. OpeningsMade'
      BY <1>1, <1>2, <1>3 DEF RoutingIInv, OfMade, OpeningsMade, RegistrationOf
  <2>4. QED
      BY <2>2, <2>3 DEF OfMade
<1>6. RegistersOnce'
    BY <1>1, <1>2, <1>3 DEF RoutingIInv, RoutingTypes, RegistersOnce, Announcement
<1>7. \A m \in Service, d \in Card : InOrder(m, d)'
    BY <1>1, <1>2, <1>3, StaysInOrder DEF RoutingIInv, Heard, Writers
<1>8. QED
    BY <1>5, <1>6, <1>7 DEF RoutingIInv

-----------------------------------------------------------------------------
(* Receiving announcements                                                  *)

\* Posts come and go.
LEMMA PostsMove ==
    ASSUME RoutingIInv, posts' \subseteq Service \X Announcement,
           made \subseteq made', made' \subseteq Announcement,
           \A a \in made' \ made : a.type # Registration,
           \A p \in posts' : p[2] \in made',
           UNCHANGED <<routing, opening, serving, applied, disturbed>>
    PROVE  RoutingIInv'
<1>1. RoutingTypes'
    BY DEF RoutingIInv, RoutingTypes
<1>2. OfMade'
    BY DEF RoutingIInv, OfMade, EntriesMade, OpeningsMade, HandledMade, RegistrationOf
<1>3. RegistersOnce'
    BY DEF RoutingIInv, RegistersOnce
<1>4. \A m \in Service, d \in Card : InOrder(m, d)'
    BY StaysInOrder DEF RoutingIInv, Heard, Writers
<1>5. QED
    BY <1>1, <1>2, <1>3, <1>4 DEF RoutingIInv

\* A migration is built somewhere else, and posted to every service.
LEMMA Announcing ==
    ASSUME RoutingIInv, NEW n \in Service, NEW c \in Card, AnnounceMigration(n, c)
    PROVE  RoutingIInv'
<1>1. PICK stamp \in Stamp, signers \in {Roles, {"wallet_service"}} :
        LET a == [card |-> c, service |-> n, type |-> Migration, stamp |-> stamp,
                  signers |-> signers] IN
        /\ made' = made \cup {a} /\ posts' = posts \cup Service \X {a}
    BY DEF AnnounceMigration
<1> DEFINE a == [card |-> c, service |-> n, type |-> Migration, stamp |-> stamp,
                 signers |-> signers]
<1>2. a \in Announcement /\ a.type # Registration
    BY DEF Announcement, Roles, Migration, Registration
<1>3. made' = made \cup {a} /\ posts' = posts \cup Service \X {a}
    BY <1>1
<1> HIDE DEF a
<1>4. \A p \in Service \X {a} : p \in Service \X Announcement /\ p[2] = a
    BY <1>2
<1>5. UNCHANGED <<routing, opening, serving, applied, disturbed>>
    BY DEF AnnounceMigration
<1>6. QED
    BY <1>2, <1>3, <1>4, <1>5, PostsMove
    DEF RoutingIInv, RoutingTypes, OfMade, EntriesMade, OpeningsMade, HandledMade,
        RegistrationOf

\* Posts are refused, lost or passed on, and nonces are forgotten.
LEMMA Posting ==
    ASSUME RoutingIInv, NEW n \in Service,
           \/ \E a \in made : Refuse(n, a) \/ LosePost(n, a)
           \/ \E m \in Service, c \in Card : PassOn(n, m, c)
           \/ PruneNonces(n)
    PROVE  RoutingIInv'
<1>1. UNCHANGED <<routing, opening, serving, made, applied, disturbed>>
    BY DEF Refuse, LosePost, PassOn, PruneNonces
<1>2. posts' \subseteq Service \X Announcement /\ \A p \in posts' : p[2] \in made
  <2>1. CASE posts' \subseteq posts
      BY <2>1
      DEF RoutingIInv, RoutingTypes, OfMade, EntriesMade, OpeningsMade, HandledMade,
          RegistrationOf
  <2>2. CASE \E m \in Service, c \in Card : PassOn(n, m, c)
    <3>1. PICK m \in Service, c \in Card : PassOn(n, m, c)
        BY <2>2
    <3>2. posts' = posts \cup {<<n, routing[m][c]>>} /\ routing[m][c] # Nil
        BY <3>1 DEF PassOn
    <3>3. routing[m][c] \in made /\ routing[m][c] \in Announcement
        BY <3>2 DEF RoutingIInv, OfMade, EntriesMade, RoutingTypes
    <3>4. QED
        BY <3>2, <3>3
        DEF RoutingIInv, RoutingTypes, OfMade, EntriesMade, OpeningsMade, HandledMade,
            RegistrationOf
  <2>3. QED
      BY <2>1, <2>2 DEF Refuse, LosePost, PruneNonces
<1>3. QED
    BY <1>1, <1>2, PostsMove DEF RoutingIInv, RoutingTypes

\* Requests come, move on and end: what is compared and what is written stays.
LEMMA RecordingNonce ==
    ASSUME RoutingIInv, NEW n \in Service, NEW a \in made, RecordNonce(n, a)
    PROVE  RoutingIInv'
<1> DEFINE new == [announcement |-> a, step |-> "find", found |-> Nil]
<1>1. /\ posts' = posts \ {<<n, a>>} /\ serving' = [serving EXCEPT ![n] = @ \cup {new}]
      /\ UNCHANGED <<routing, opening, made, applied, disturbed>>
    BY DEF RecordNonce
<1>2. new \in Serving /\ new.step = "find" /\ new.announcement \in made
    BY DEF Serving, RoutingIInv, RoutingTypes
<1> HIDE DEF new
<1>3. /\ serving' \in [Service -> SUBSET Serving]
      /\ \A m \in Service : serving'[m] = IF m = n THEN serving[n] \cup {new} ELSE serving[m]
    BY <1>1, <1>2 DEF RoutingIInv, RoutingTypes
<1>4. RoutingTypes' /\ OfMade' /\ RegistersOnce'
    BY <1>1, <1>2, <1>3
    DEF RoutingIInv, RoutingTypes, OfMade, EntriesMade, OpeningsMade, HandledMade,
        RegistrationOf, RegistersOnce
<1>5. \A m \in Service, d \in Card : Writers(m, d)' \subseteq Writers(m, d)
    BY <1>2, <1>3 DEF Writers
<1>6. \A m \in Service, d \in Card : InOrder(m, d)'
    BY <1>1, <1>5, StaysInOrder DEF RoutingIInv, Heard
<1>7. QED
    BY <1>4, <1>6 DEF RoutingIInv

\* A handler reads the entry it will compare with.
LEMMA FindingEntry ==
    ASSUME RoutingIInv, NEW n \in Service, NEW h \in serving[n], FindEntry(n, h)
    PROVE  RoutingIInv'
<1> DEFINE c == h.announcement.card
           new == [h EXCEPT !.step = "write", !.found = routing[n][c]]
<1>1. /\ serving' = [serving EXCEPT ![n] = (@ \ {h}) \cup {new}]
      /\ disturbed' = disturbed \cup Overlaps(n, c)
      /\ UNCHANGED <<routing, opening, posts, made, applied>>
    BY DEF FindEntry
<1>2. h \in Serving /\ h.announcement \in made /\ c \in Card
    BY DEF RoutingIInv, RoutingTypes, OfMade, HandledMade, Serving, Announcement
<1>3. /\ new \in Serving /\ new.step = "write" /\ new.announcement = h.announcement
      /\ new.found = routing[n][c]
  <2>1. routing[n][c] \in Announcement \cup {Nil}
      BY <1>2 DEF RoutingIInv, RoutingTypes
  <2>2. QED
      BY <1>2, <2>1 DEF Serving
<1> HIDE DEF new
<1>4. /\ serving' \in [Service -> SUBSET Serving]
      /\ \A m \in Service :
            serving'[m] = IF m = n THEN (serving[n] \ {h}) \cup {new} ELSE serving[m]
    BY <1>1, <1>3 DEF RoutingIInv, RoutingTypes
<1>5. RoutingTypes' /\ OfMade' /\ RegistersOnce'
    BY <1>1, <1>2, <1>3, <1>4
    DEF RoutingIInv, RoutingTypes, OfMade, EntriesMade, OpeningsMade, HandledMade,
        RegistrationOf, RegistersOnce
<1>6. ASSUME NEW m \in Service, NEW d \in Card, m # n \/ d # c PROVE InOrder(m, d)'
  <2>1. Writers(m, d)' \subseteq Writers(m, d)
      BY <1>3, <1>4, <1>6 DEF Writers
  <2>2. QED
      BY <1>1, <2>1, StaysInOrder DEF RoutingIInv, Heard
<1>7. InOrder(n, c)'
  <2>1. <<n, c>> \notin disturbed' =>
            <<n, c>> \notin disturbed /\ Writers(n, c) = {} /\ opening[n][c].step # "write"
      BY <1>1 DEF Overlaps, Comparing, Writers
  <2>2. Writers(n, c)' \subseteq Writers(n, c) \cup {new}
      BY <1>4 DEF Writers
  <2>3. Tied(c)' = Tied(c) /\ Heard(n, c)' = Heard(n, c) /\ InOrder(n, c)
      BY <1>1, <1>2 DEF Tied, Heard, RoutingIInv
  <2>4. QED
      BY <1>1, <1>3, <2>1, <2>2, <2>3 DEF InOrder, ComparesWithCurrent, HoldsFirst
<1>8. QED
    BY <1>5, <1>6, <1>7 DEF RoutingIInv

\* The comparison takes the one that supersedes the other, where they are not tied.
LEMMA AcceptOrders ==
    ASSUME NEW a \in Announcement, NEW b \in Announcement, a # b,
           a.stamp # b.stamp \/ a.type # b.type
    PROVE  IF Accept(b, a) THEN Supersedes(a, b) ELSE Supersedes(b, a)
BY FederationAssumption, NilAssumption
DEF Accept, Supersedes, Announcement, Registration, Migration

\* Newer than a newer one is newer.
LEMMA SupersedesIsTransitive ==
    ASSUME NEW a \in Announcement, NEW b \in Announcement, NEW d \in Announcement,
           Supersedes(a, b), Supersedes(b, d)
    PROVE  Supersedes(a, d)
<1>1. a.stamp \in Nat /\ b.stamp \in Nat /\ d.stamp \in Nat
    BY FederationAssumption DEF Announcement
<1>2. QED
    BY <1>1 DEF Supersedes, Registration, Migration

\* It writes if what it read is older, whatever is there by now.
LEMMA WritingEntry ==
    ASSUME RoutingIInv, NEW n \in Service, NEW h \in serving[n], WriteEntry(n, h)
    PROVE  RoutingIInv'
<1> DEFINE a == h.announcement
           c == h.announcement.card
<1>1. /\ h.step = "write" /\ serving' = [serving EXCEPT ![n] = @ \ {h}]
      /\ routing' = IF Accept(h.found, a) THEN [routing EXCEPT ![n][c] = a] ELSE routing
      /\ applied' = [applied EXCEPT ![n] = @ \cup {a}]
      /\ UNCHANGED <<opening, posts, made, disturbed>>
    BY DEF WriteEntry
<1>2. h \in Serving /\ a \in made /\ a \in Announcement /\ c \in Card /\ a # Nil /\ a.card = c
    BY NilAssumption
    DEF RoutingIInv, RoutingTypes, OfMade, HandledMade, Serving, Announcement
<1> HIDE DEF a, c
<1>3. /\ serving' \in [Service -> SUBSET Serving]
      /\ \A m \in Service : serving'[m] = IF m = n THEN serving[n] \ {h} ELSE serving[m]
    BY <1>1 DEF RoutingIInv, RoutingTypes
<1>4. /\ routing' \in [Service -> [Card -> Announcement \cup {Nil}]]
      /\ routing'[n][c] = IF Accept(h.found, a) THEN a ELSE routing[n][c]
      /\ \A m \in Service, d \in Card : m # n \/ d # c => routing'[m][d] = routing[m][d]
    BY <1>1, <1>2 DEF RoutingIInv, RoutingTypes
<1>5. /\ applied' \in [Service -> SUBSET Announcement]
      /\ applied'[n] = applied[n] \cup {a}
      /\ \A m \in Service : m # n => applied'[m] = applied[m]
    BY <1>1, <1>2 DEF RoutingIInv, RoutingTypes
<1>6. RoutingTypes'
    BY <1>1, <1>3, <1>4, <1>5 DEF RoutingIInv, RoutingTypes
<1>7. OfMade' /\ RegistersOnce'
  <2>1. \A m \in Service, d \in Card :
            routing'[m][d] # Nil => routing'[m][d] \in made /\ routing'[m][d].card = d
      BY <1>2, <1>4
      DEF RoutingIInv, OfMade, EntriesMade, OpeningsMade, HandledMade, RegistrationOf
  <2>2. \A m \in Service : applied'[m] \subseteq made
      BY <1>2, <1>5
      DEF RoutingIInv, OfMade, EntriesMade, OpeningsMade, HandledMade, RegistrationOf
  <2>3. QED
      BY <1>1, <1>3, <2>1, <2>2
      DEF RoutingIInv, OfMade, EntriesMade, OpeningsMade, HandledMade, RegistrationOf,
          RegistersOnce
<1>8. ASSUME NEW m \in Service, NEW d \in Card, m # n \/ d # c PROVE InOrder(m, d)'
  <2>1. Heard(m, d)' = Heard(m, d) /\ Writers(m, d)' \subseteq Writers(m, d)
      BY <1>2, <1>3, <1>5, <1>8 DEF Heard, Writers
  <2>2. QED
      BY <1>1, <1>4, <1>8, <2>1, StaysInOrder DEF RoutingIInv
<1>9. InOrder(n, c)'
  <2> SUFFICES ASSUME <<n, c>> \notin disturbed
               PROVE  ComparesWithCurrent(n, c)' /\ (~Tied(c)' => HoldsFirst(n, c)')
      BY <1>1 DEF InOrder
  <2>1. h \in Writers(n, c)
      BY <1>1 DEF Writers, c
  <2>2. /\ h.found = routing[n][c] /\ opening[n][c].step # "write" /\ Writers(n, c) = {h}
        /\ ~Tied(c) => HoldsFirst(n, c)
      BY <1>2, <2>1 DEF RoutingIInv, InOrder, ComparesWithCurrent
  <2>3. Writers(n, c)' = {}
      BY <1>3, <2>2 DEF Writers
  <2>4. ComparesWithCurrent(n, c)'
      BY <1>1, <2>2, <2>3 DEF ComparesWithCurrent
  <2>5. Tied(c)' = Tied(c) /\ Heard(n, c)' = Heard(n, c) \cup {a}
      BY <1>1, <1>2, <1>5 DEF Tied, Heard
  <2>6. ASSUME ~Tied(c) PROVE HoldsFirst(n, c)'
    <3>1. CASE routing[n][c] = Nil
        BY <1>2, <1>4, <2>2, <2>5, <2>6, <3>1 DEF HoldsFirst, Accept
    <3>2. CASE routing[n][c] # Nil
      <4> DEFINE b == routing[n][c]
      <4>1. /\ b \in made /\ b.card = c /\ b \in Announcement /\ b \in Heard(n, c)
            /\ \A d \in Heard(n, c) : d # b => Supersedes(b, d) /\ d \in Announcement
          BY <1>2, <2>2, <2>6, <3>2
          DEF RoutingIInv, OfMade, EntriesMade, RoutingTypes, HoldsFirst, Heard
      <4>2. a # b => a.stamp # b.stamp \/ a.type # b.type
          BY <1>2, <2>6, <4>1 DEF Tied
      <4>3. CASE a = b
          BY <1>4, <2>2, <2>5, <2>6, <4>3, <3>2 DEF HoldsFirst
      <4>4. CASE a # b /\ Accept(b, a)
        <5>1. Supersedes(a, b)
            BY <1>2, <4>1, <4>2, <4>4, AcceptOrders
        <5>2. \A d \in Heard(n, c) : Supersedes(a, d)
            BY <1>2, <4>1, <5>1, SupersedesIsTransitive
        <5>3. QED
            BY <1>2, <1>4, <2>2, <2>5, <4>4, <5>2 DEF HoldsFirst
      <4>5. CASE a # b /\ ~Accept(b, a)
        <5>1. Supersedes(b, a)
            BY <1>2, <4>1, <4>2, <4>5, AcceptOrders
        <5>2. routing'[n][c] = b
            BY <1>4, <2>2, <4>5
        <5>3. QED
            BY <2>5, <3>2, <4>1, <5>1, <5>2 DEF HoldsFirst
      <4>6. QED
          BY <4>3, <4>4, <4>5
    <3>3. QED
        BY <3>1, <3>2
  <2>7. QED
      BY <2>4, <2>5, <2>6
<1>10. QED
    BY <1>6, <1>7, <1>8, <1>9 DEF RoutingIInv

\* A service that stops forgets what it was doing, and nothing it wrote.
LEMMA Crashing ==
    ASSUME RoutingIInv, NEW n \in Service, Crash(n)
    PROVE  RoutingIInv'
<1> DEFINE held == [NotOpened EXCEPT !.step = "held"]
<1>1. /\ serving' = [serving EXCEPT ![n] = {}]
      /\ opening' = [opening EXCEPT ![n] = [c \in Card |->
                          IF opening[n][c].step = "none" THEN opening[n][c] ELSE held]]
      /\ UNCHANGED <<routing, posts, made, applied, disturbed>>
    BY DEF Crash, RoutingIInv, RoutingTypes
<1>2. held \in Opening /\ held.step = "held"
    BY DEF NotOpened, Opening
<1> HIDE DEF held
<1>3. /\ opening' \in [Service -> [Card -> Opening]]
      /\ \A m \in Service, c \in Card :
            opening'[m][c] = IF m = n /\ opening[n][c].step # "none" THEN held ELSE opening[m][c]
    BY <1>1, <1>2 DEF RoutingIInv, RoutingTypes
<1>4. /\ serving' \in [Service -> SUBSET Serving]
      /\ \A m \in Service : serving'[m] \subseteq serving[m]
    BY <1>1 DEF RoutingIInv, RoutingTypes
<1>5. RoutingTypes' /\ OfMade'
    BY <1>1, <1>2, <1>3, <1>4
    DEF RoutingIInv, RoutingTypes, OfMade, EntriesMade, OpeningsMade, HandledMade,
        RegistrationOf
<1>6. RegistersOnce'
    BY <1>1, <1>2, <1>3 DEF RoutingIInv, RoutingTypes, RegistersOnce, Announcement
<1>7. \A m \in Service, d \in Card : InOrder(m, d)'
    BY <1>1, <1>2, <1>3, <1>4, StaysInOrder DEF RoutingIInv, Heard, Writers
<1>8. QED
    BY <1>5, <1>6, <1>7 DEF RoutingIInv

\* Every step keeps the invariant.
LEMMA RoutingStep == RoutingIInv /\ [Next]_vars => RoutingIInv'
<1> SUFFICES ASSUME RoutingIInv, [Next]_vars PROVE RoutingIInv'
    OBVIOUS
<1>1. CASE UNCHANGED vars
    BY <1>1, PostsMove DEF vars, RoutingIInv, RoutingTypes, OfMade, HandledMade
<1>2. CASE \E n \in Service : Handle(n)
    BY <1>2, BeforeItsRegistration, RecordingOwn, FindingOwn, WritingOwn, Broadcasting,
       Posting,
       RecordingNonce, FindingEntry, WritingEntry DEF Handle
<1>3. CASE Environment
    BY <1>3, BeforeItsRegistration, Announcing, Posting, Crashing DEF Environment
<1>4. QED
    BY <1>1, <1>2, <1>3 DEF Next

\* Whatever the order in which two services hear of a card, whatever is repeated, lost
\* or passed on, and whoever crashes, they hold the same of it once they have compared
\* the same (announce.post.ts, shouldAcceptAnnouncement).
THEOREM OrderDoesNotMatter == Spec => []OrderIndependent
<1>1. RoutingIInv => OrderIndependent
  <2> SUFFICES ASSUME RoutingIInv, NEW n \in Service, NEW m \in Service, NEW c \in Card,
                      Heard(n, c) = Heard(m, c), <<n, c>> \notin disturbed,
                      <<m, c>> \notin disturbed, ~Tied(c)
               PROVE  routing[n][c] = routing[m][c]
      BY DEF OrderIndependent
  <2>1. HoldsFirst(n, c) /\ HoldsFirst(m, c)
      BY DEF RoutingIInv, InOrder
  <2>2. CASE Heard(n, c) = {}
      BY <2>1, <2>2 DEF HoldsFirst
  <2>3. CASE Heard(n, c) # {}
    <3> DEFINE x == routing[n][c]
               y == routing[m][c]
    <3>1. /\ x \in Heard(n, c) /\ y \in Heard(n, c)
          /\ x # y => Supersedes(x, y) /\ Supersedes(y, x)
        BY <2>1, <2>3 DEF HoldsFirst
    <3>2. x \in Announcement /\ y \in Announcement
        BY <3>1 DEF Heard, RoutingIInv, RoutingTypes
    <3> HIDE DEF x, y
    <3>3. x.stamp \in Nat /\ y.stamp \in Nat
        BY <3>2, FederationAssumption DEF Announcement
    <3>4. x = y
        BY <3>1, <3>3 DEF Supersedes, Registration, Migration
    <3>5. QED
        BY <3>4 DEF x, y
  <2>4. QED
      BY <2>2, <2>3
<1>2. QED
    BY <1>1, RoutingInitial, RoutingStep, PTL DEF Spec

-----------------------------------------------------------------------------
(* SubCardPools: envelopes, nonces and pools                                *)

Serves(h, step) == handler[h] # Vacant /\ handler[h].step = step

\* An envelope that has taken effect, or whose nonce was taken to let it.
Spent(e) ==
    \/ effects[e.id] > 0
    \/ \E h \in Handler : Serves(h, "apply") /\ handler[h].envelope = e
OnRecord(e) ==
    \E n \in seen : /\ n.id = e.id /\ n.sub = e.sub /\ n.action = e.action
                    /\ n.at >= e.stamp - Window

\* The signatures are numbered, and one is left for each timer.
SignaturesKept ==
    /\ IsFiniteSet(signed) /\ IsFiniteSet(timers)
    /\ Cardinality(signed) + Cardinality(timers) <= MaxSigned
IdsDistinct ==
    /\ \A e \in signed : e.id <= Cardinality(signed)
    /\ \A e, f \in signed : e.id = f.id => e = f
\* Nothing is served that was not signed.
ServedIsSigned == \A h \in Handler : handler[h] # Vacant => handler[h].envelope \in signed
EffectsAreOfSigned ==
    \A i \in Id : effects[i] <= 1 /\ (effects[i] > 0 => i <= Cardinality(signed))
\* Who waits for the chain was in time when he came, and does not wait long.
ServedInTime ==
    \A h \in Handler : Serves(h, "resolve") =>
        /\ handler[h].since <= now /\ now <= handler[h].since + Stall
        /\ handler[h].envelope.stamp - Window <= handler[h].since
        /\ handler[h].since <= handler[h].envelope.stamp + Window
\* One request at most is about to make an envelope's change, and none has before.
OneApplies ==
    \A g, h \in Handler :
        Serves(g, "apply") /\ Serves(h, "apply") /\ handler[g].envelope = handler[h].envelope
            => g = h
NotYetApplied ==
    \A h \in Handler : Serves(h, "apply") => effects[handler[h].envelope.id] = 0
\* A spent envelope is remembered until no request with it can be under way any more.
SpentIsKnown ==
    \A e \in signed : Spent(e) => OnRecord(e) \/ now > e.stamp + Window + Stall

\* All but the first does not depend on what the device believes of its pools.
Core ==
    /\ IdsDistinct /\ ServedIsSigned /\ EffectsAreOfSigned
    /\ ServedInTime /\ OneApplies /\ NotYetApplied /\ SpentIsKnown
PoolsIInv == PoolsTypeOK /\ SignaturesKept /\ Core

CoreTypes ==
    /\ now \in Int /\ signed \subseteq Envelope
    /\ handler \in [Handler -> Admitted \cup {Vacant}]
    /\ seen \subseteq NonceRow /\ effects \in [Id -> Nat]

\* An envelope is sent with an identity that no earlier one has.
LEMMA SendSigns ==
    ASSUME CoreTypes, Core, underway \subseteq signed, IsFiniteSet(signed),
           Cardinality(signed) < MaxSigned,
           NEW s \in SubCard, NEW action \in {"register", "deregister"}, Send(s, action)
    PROVE  /\ signed \subseteq signed' /\ signed' \subseteq Envelope
           /\ underway' \subseteq signed'
           /\ IsFiniteSet(signed') /\ Cardinality(signed') = Cardinality(signed) + 1
           /\ IdsDistinct'
           /\ \A e \in signed' \ signed : e.id = Cardinality(signed) + 1
<1>1. PICK skew \in Skew :
          LET e == [id |-> Cardinality(signed) + 1, sub |-> s, action |-> action,
                    stamp |-> now + skew]
          IN signed' = signed \cup {e} /\ underway' = underway \cup {e}
    BY DEF Send
<1> DEFINE e == [id |-> Cardinality(signed) + 1, sub |-> s, action |-> action,
                 stamp |-> now + skew]
<1>2. Cardinality(signed) \in Nat
    BY FS_CardinalityType
<1>3. e \in Envelope /\ e.id = Cardinality(signed) + 1
    BY <1>2, PoolsAssumption DEF Envelope, Id, CoreTypes
<1>4. signed' = signed \cup {e} /\ underway' = underway \cup {e}
    BY <1>1
<1>5. \A f \in signed : f.id \in Nat /\ f.id <= Cardinality(signed)
    BY DEF Core, IdsDistinct, CoreTypes, Envelope, Id
<1> HIDE DEF e
<1>6. e \notin signed
    BY <1>2, <1>3, <1>5
<1>7. IsFiniteSet(signed') /\ Cardinality(signed') = Cardinality(signed) + 1
    BY <1>4, <1>6, FS_AddElement
<1>8. IdsDistinct'
    BY <1>2, <1>3, <1>4, <1>5, <1>7 DEF Core, IdsDistinct
<1>9. QED
    BY <1>3, <1>4, <1>7, <1>8 DEF CoreTypes

\* A signature more changes nothing for what is served.
LEMMA SigningKeepsCore ==
    ASSUME CoreTypes, Core, IsFiniteSet(signed), signed \subseteq signed',
           Cardinality(signed') = Cardinality(signed) + 1, IdsDistinct',
           \A e \in signed' \ signed : e.id = Cardinality(signed) + 1,
           signed' \subseteq Envelope,
           UNCHANGED <<now, handler, seen, effects>>
    PROVE  Core'
<1>1. Cardinality(signed) \in Nat
    BY FS_CardinalityType
<1>2. ServedIsSigned' /\ ServedInTime' /\ OneApplies' /\ NotYetApplied'
    BY DEF Core, ServedIsSigned, ServedInTime, OneApplies, NotYetApplied, Serves
<1>3. EffectsAreOfSigned'
    BY <1>1 DEF Core, EffectsAreOfSigned, Id
<1>4. SpentIsKnown'
  <2> SUFFICES ASSUME NEW e \in signed', Spent(e)'
               PROVE  OnRecord(e)' \/ now' > e.stamp + Window + Stall
      BY DEF SpentIsKnown
  <2>1. Spent(e) /\ (OnRecord(e) => OnRecord(e)')
      BY DEF Spent, Serves, OnRecord
  <2>2. CASE e \in signed
      BY <2>1, <2>2 DEF Core, SpentIsKnown
  <2>3. CASE e \notin signed
    <3>1. e.id = Cardinality(signed) + 1 /\ e.id \in Id
        BY <2>3 DEF Envelope
    <3>2. effects[e.id] = 0
        BY <1>1, <3>1 DEF Core, CoreTypes, EffectsAreOfSigned, Id
    <3>3. \A h \in Handler : Serves(h, "apply") => handler[h].envelope # e
        BY <2>3 DEF Core, ServedIsSigned, Serves
    <3>4. QED
        BY <2>1, <3>2, <3>3 DEF Spent
  <2>4. QED
      BY <2>2, <2>3
<1>5. QED
    BY <1>2, <1>3, <1>4 DEF Core

\* Requests that end without a change.
LEMMA LeavingKeepsCore ==
    ASSUME CoreTypes, Core, \A h \in Handler : handler'[h] \in {handler[h], Vacant},
           UNCHANGED <<now, signed, seen, effects>>
    PROVE  Core'
<1>1. \A step : \A h \in Handler : Serves(h, step)' => Serves(h, step) /\ handler'[h] = handler[h]
    BY DEF Serves
<1>2. IdsDistinct' /\ ServedIsSigned' /\ EffectsAreOfSigned'
    BY <1>1 DEF Core, IdsDistinct, ServedIsSigned, EffectsAreOfSigned
<1>3. ServedInTime' /\ OneApplies' /\ NotYetApplied'
    BY <1>1 DEF Core, ServedInTime, OneApplies, NotYetApplied
<1>4. \A e : (Spent(e)' => Spent(e)) /\ OnRecord(e)' = OnRecord(e)
    BY <1>1 DEF Spent, OnRecord
<1>5. SpentIsKnown'
    BY <1>4 DEF Core, SpentIsKnown
<1>6. QED
    BY <1>2, <1>3, <1>5 DEF Core

\* Admitting an envelope takes its nonce, if nobody has.
LEMMA AdmittingKeepsCore ==
    ASSUME CoreTypes, Core, NEW h \in Handler, NEW e \in signed, NEW own \in BOOLEAN,
           Admit(h, e, own), UNCHANGED <<now, signed, seen, effects>>
    PROVE  /\ handler' \in [Handler -> Admitted \cup {Vacant}]
           /\ Core'
<1>1. CASE ~InWindow(e)
  <2>1. handler' = handler
      BY <1>1 DEF Admit
  <2>2. QED
      BY <2>1, LeavingKeepsCore DEF CoreTypes
<1>2. CASE InWindow(e)
  <2> DEFINE new == [step |-> "resolve", envelope |-> e, since |-> now, own |-> own]
  <2>1. handler' = [handler EXCEPT ![h] = new]
      BY <1>2 DEF Admit
  <2>2. /\ new \in Admitted /\ new.step = "resolve" /\ new.envelope = e /\ new.since = now
      BY DEF CoreTypes, Admitted
  <2> HIDE DEF new
  <2>3. handler' \in [Handler -> Admitted \cup {Vacant}]
      BY <2>1, <2>2 DEF CoreTypes
  <2>4. \A g \in Handler : handler'[g] = IF g = h THEN new ELSE handler[g]
      BY <2>1 DEF CoreTypes
  <2>5. \A g \in Handler : Serves(g, "apply")' => Serves(g, "apply") /\ handler'[g] = handler[g]
      BY <2>2, <2>4 DEF Serves
  <2>6. IdsDistinct' /\ EffectsAreOfSigned'
      BY DEF Core, IdsDistinct, EffectsAreOfSigned
  <2>7. ServedIsSigned'
      BY <2>2, <2>4 DEF Core, ServedIsSigned
  <2>8. ServedInTime'
    <3>1. e.stamp \in Int /\ now \in Int
        BY DEF CoreTypes, Envelope
    <3>2. e.stamp - Window <= now /\ now <= e.stamp + Window /\ now <= now + Stall
        BY <1>2, <3>1, PoolsAssumption DEF InWindow
    <3>3. QED
        BY <2>2, <2>4, <3>1, <3>2 DEF Core, ServedInTime, Serves
  <2>9. OneApplies' /\ NotYetApplied'
      BY <2>5 DEF Core, OneApplies, NotYetApplied
  <2>10. SpentIsKnown'
    <3>1. \A f : (Spent(f)' => Spent(f)) /\ OnRecord(f)' = OnRecord(f)
        BY <2>5 DEF Spent, OnRecord
    <3>2. QED
        BY <3>1 DEF Core, SpentIsKnown
  <2>11. QED
      BY <2>3, <2>6, <2>7, <2>8, <2>9, <2>10 DEF Core
<1>3. QED
    BY <1>1, <1>2

\* The heart of it: a nonce that is new belongs to an envelope that is not spent.
LEMMA RecordingKeepsCore ==
    ASSUME CoreTypes, Core, NEW h \in Handler, RecordNonceIfNew(h)
    PROVE  CoreTypes' /\ Core'
<1> DEFINE e == handler[h].envelope
           new == [handler[h] EXCEPT !.step = "apply"]
           row == [id |-> e.id, sub |-> e.sub, action |-> e.action, at |-> now]
<1>0. UNCHANGED <<now, signed, effects>>
    BY DEF RecordNonceIfNew
<1>1. handler[h] \in Admitted /\ Serves(h, "resolve") /\ e \in signed /\ e \in Envelope
    BY DEF CoreTypes, Core, ServedIsSigned, RecordNonceIfNew, Serves
<1>2. CASE Remembered(e)
  <2>1. handler' = [handler EXCEPT ![h] = Vacant] /\ seen' = seen
      BY <1>2 DEF RecordNonceIfNew, Leave
  <2>2. QED
      BY <1>0, <2>1, LeavingKeepsCore DEF CoreTypes
<1>3. CASE ~Remembered(e)
  <2>1. /\ handler' = [handler EXCEPT ![h] = new]
        /\ seen' = seen \cup {row}
      BY <1>3 DEF RecordNonceIfNew
  <2>2. /\ new \in Admitted /\ new.step = "apply" /\ new.envelope = e
        /\ row \in NonceRow /\ row.id = e.id /\ row.sub = e.sub /\ row.action = e.action
        /\ row.at = now
      BY <1>1 DEF Admitted, NonceRow, Envelope, CoreTypes
  <2>3. /\ e.stamp \in Int /\ handler[h].since \in Int /\ now \in Int
        /\ e.stamp - Window <= handler[h].since /\ handler[h].since <= e.stamp + Window
        /\ handler[h].since <= now /\ now <= handler[h].since + Stall
      BY <1>1 DEF Core, ServedInTime, CoreTypes, Admitted, Envelope
  <2>4. ~OnRecord(e) /\ ~(now > e.stamp + Window + Stall)
    <3>1. ~OnRecord(e)
        BY <1>3 DEF OnRecord, Remembered
    <3>2. QED
        BY <2>3, <3>1, PoolsAssumption
  <2>5. ~Spent(e)
      BY <1>1, <2>4 DEF Core, SpentIsKnown
  <2>6. effects[e.id] = 0 /\ \A g \in Handler : Serves(g, "apply") => handler[g].envelope # e
      BY <1>1, <2>5 DEF Spent, CoreTypes, Envelope
  <2> HIDE DEF e, new, row
  <2>7. CoreTypes'
      BY <1>0, <2>1, <2>2 DEF CoreTypes
  <2>8. \A g \in Handler : handler'[g] = IF g = h THEN new ELSE handler[g]
      BY <2>1 DEF CoreTypes
  <2>9. IdsDistinct' /\ EffectsAreOfSigned' /\ ServedIsSigned'
      BY <1>0, <1>1, <2>2, <2>8 DEF Core, IdsDistinct, EffectsAreOfSigned, ServedIsSigned
  <2>10. ServedInTime'
      BY <1>0, <2>2, <2>8 DEF Core, ServedInTime, Serves
  <2>11. OneApplies' /\ NotYetApplied'
      BY <1>0, <2>2, <2>6, <2>8 DEF Core, OneApplies, NotYetApplied, Serves
  <2>12. SpentIsKnown'
    <3> SUFFICES ASSUME NEW f \in signed, Spent(f)'
                 PROVE  OnRecord(f)' \/ now > f.stamp + Window + Stall
        BY <1>0 DEF SpentIsKnown
    <3>1. CASE f = e
      <4>1. row \in seen' /\ row.at >= e.stamp - Window
          BY <2>1, <2>2, <2>3, PoolsAssumption
      <4>2. QED
          BY <3>1, <2>2, <4>1 DEF OnRecord
    <3>2. CASE f # e
      <4>1. Spent(f)
          BY <1>0, <3>2, <2>2, <2>8 DEF Spent, Serves
      <4>2. OnRecord(f) => OnRecord(f)'
          BY <2>1 DEF OnRecord
      <4>3. QED
          BY <4>1, <4>2 DEF Core, SpentIsKnown
    <3>3. QED
        BY <3>1, <3>2
  <2>13. QED
      BY <2>7, <2>9, <2>10, <2>11, <2>12 DEF Core
<1>4. QED
    BY <1>2, <1>3

\* What an admitted envelope does, it does once.
LEMMA ApplyingKeepsCore ==
    ASSUME CoreTypes, Core, NEW h \in Handler, handler[h] # Vacant, handler[h].step = "apply",
           Leave(h), effects' = [effects EXCEPT ![handler[h].envelope.id] = @ + 1],
           UNCHANGED <<now, signed, seen>>
    PROVE  CoreTypes' /\ Core'
<1> DEFINE e == handler[h].envelope
<1>1. Serves(h, "apply") /\ e \in signed /\ e \in Envelope /\ e.id \in Id /\ effects[e.id] = 0
    BY DEF CoreTypes, Core, ServedIsSigned, NotYetApplied, Serves, Envelope
<1>2. /\ handler' = [handler EXCEPT ![h] = Vacant]
      /\ effects' = [effects EXCEPT ![e.id] = 1]
    BY <1>1 DEF Leave
<1>3. CoreTypes'
    BY <1>1, <1>2 DEF CoreTypes
<1>4. \A i \in Id : effects'[i] = IF i = e.id THEN 1 ELSE effects[i]
    BY <1>2 DEF CoreTypes
<1>5. \A step : \A g \in Handler :
          Serves(g, step)' => Serves(g, step) /\ handler'[g] = handler[g] /\ g # h
    BY <1>2 DEF Serves, CoreTypes
<1>6. \A f \in signed : f # e => f.id # e.id
    BY <1>1 DEF Core, IdsDistinct
<1>7. IdsDistinct' /\ ServedIsSigned'
    BY <1>2 DEF Core, IdsDistinct, ServedIsSigned, CoreTypes
<1>8. EffectsAreOfSigned'
    BY <1>1, <1>4 DEF Core, EffectsAreOfSigned, IdsDistinct
<1>9. ServedInTime' /\ OneApplies'
    BY <1>5 DEF Core, ServedInTime, OneApplies
<1>10. NotYetApplied'
  <2> SUFFICES ASSUME NEW g \in Handler, Serves(g, "apply")'
               PROVE  effects'[handler'[g].envelope.id] = 0
      BY DEF NotYetApplied
  <2>1. /\ Serves(g, "apply") /\ handler'[g] = handler[g] /\ g # h
        /\ handler[g].envelope \in signed
      BY <1>5 DEF Core, ServedIsSigned, Serves
  <2>2. handler[g].envelope # e
      BY <1>1, <2>1 DEF Core, OneApplies
  <2>3. handler[g].envelope.id \in Id /\ handler[g].envelope.id # e.id
      BY <1>6, <2>1, <2>2 DEF CoreTypes, Envelope
  <2>4. QED
      BY <1>4, <2>1, <2>3 DEF Core, NotYetApplied
<1>11. SpentIsKnown'
  <2> SUFFICES ASSUME NEW f \in signed, Spent(f)'
               PROVE  OnRecord(f) \/ now > f.stamp + Window + Stall
      BY DEF SpentIsKnown, OnRecord
  <2>1. Spent(f)
    <3>1. CASE f = e
        BY <1>1, <3>1 DEF Spent
    <3>2. CASE f # e
        BY <1>4, <1>5, <1>6, <3>2 DEF Spent, CoreTypes, Envelope
    <3>3. QED
        BY <3>1, <3>2
  <2>2. QED
      BY <2>1 DEF Core, SpentIsKnown
<1>12. QED
    BY <1>3, <1>7, <1>8, <1>9, <1>10, <1>11 DEF Core

\* A nonce is forgotten when nobody can be waiting with its envelope any more.
LEMMA PruningKeepsCore ==
    ASSUME CoreTypes, Core, PruneActionNonces
    PROVE  CoreTypes' /\ Core'
<1>1. seen' = {n \in seen : ~Expired(n)} /\ UNCHANGED <<now, signed, handler, effects>>
    BY DEF PruneActionNonces
<1>2. CoreTypes'
    BY <1>1 DEF CoreTypes
<1>3. SpentIsKnown'
  <2> SUFFICES ASSUME NEW e \in signed, Spent(e), ~(now > e.stamp + Window + Stall)
               PROVE  OnRecord(e)'
      BY <1>1 DEF SpentIsKnown, Spent, Serves
  <2>1. PICK n \in seen : /\ n.id = e.id /\ n.sub = e.sub /\ n.action = e.action
                          /\ n.at >= e.stamp - Window
      BY DEF Core, SpentIsKnown, OnRecord
  <2>2. n.at \in Int /\ e.stamp \in Int /\ now \in Int
      BY DEF CoreTypes, NonceRow, Envelope
  <2>3. ~Expired(n)
      BY <2>1, <2>2, PoolsAssumption, RetentionAssumption DEF Expired
  <2>4. QED
      BY <1>1, <2>1, <2>3 DEF OnRecord
<1>4. /\ IdsDistinct' /\ ServedIsSigned' /\ EffectsAreOfSigned' /\ ServedInTime' /\ OneApplies'
      /\ NotYetApplied'
    BY <1>1 DEF Core, IdsDistinct, ServedIsSigned, EffectsAreOfSigned, ServedInTime,
                OneApplies, NotYetApplied, Serves
<1>5. QED
    BY <1>2, <1>3, <1>4 DEF Core

\* Time passes; a nonce that may be forgotten is of an envelope that is too old.
LEMMA PassingKeepsCore ==
    ASSUME CoreTypes, Core, Pass
    PROVE  CoreTypes' /\ Core'
<1>1. now' = now + 1 /\ UNCHANGED <<signed, handler, seen, effects>> /\ now \in Int
    BY DEF Pass, CoreTypes
<1>2. CoreTypes'
    BY <1>1 DEF CoreTypes
<1>3. ServedInTime'
  <2> SUFFICES ASSUME NEW h \in Handler, Serves(h, "resolve")
               PROVE  /\ handler[h].since <= now + 1 /\ now + 1 <= handler[h].since + Stall
      BY <1>1 DEF Core, ServedInTime, Serves
  <2>1. now < handler[h].since + Stall /\ handler[h].since \in Int /\ handler[h].since <= now
      BY DEF Pass, Serves, CoreTypes, Admitted, Core, ServedInTime
  <2>2. QED
      BY <1>1, <2>1, PoolsAssumption
<1>4. SpentIsKnown'
    BY <1>1, PoolsAssumption
    DEF Core, SpentIsKnown, Spent, Serves, OnRecord, CoreTypes, Envelope
<1>5. IdsDistinct' /\ ServedIsSigned' /\ EffectsAreOfSigned' /\ OneApplies' /\ NotYetApplied'
    BY <1>1 DEF Core, IdsDistinct, ServedIsSigned, EffectsAreOfSigned, OneApplies,
                NotYetApplied, Serves
<1>6. QED
    BY <1>2, <1>3, <1>4, <1>5 DEF Core

-----------------------------------------------------------------------------
(* The steps                                                                *)

\* A report of few UUIDs schedules at most one replenishment per sub-card.
LEMMA ReportSchedules ==
    ASSUME PoolsTypeOK, SignaturesKept, NEW s \in SubCard, NEW remaining, Report(s, remaining)
    PROVE  /\ pending' \subseteq SubCard /\ timers' \subseteq SubCard
           /\ IsFiniteSet(timers') /\ Cardinality(signed) + Cardinality(timers') <= MaxSigned
<1>1. CASE UNCHANGED <<pending, timers>>
    BY <1>1 DEF PoolsTypeOK, SignaturesKept
<1>2. CASE ~UNCHANGED <<pending, timers>>
  <2>1. /\ Cardinality(signed) + Cardinality(timers) < MaxSigned
        /\ pending' = pending \cup {s} /\ timers' = timers \cup {s}
      BY <1>2 DEF Report, SignaturesLeft
  <2>2. /\ IsFiniteSet(timers')
        /\ Cardinality(timers') \in {Cardinality(timers), Cardinality(timers) + 1}
      BY <2>1, FS_AddElement DEF SignaturesKept
  <2>3. Cardinality(signed) \in Nat /\ Cardinality(timers) \in Nat
      BY FS_CardinalityType DEF SignaturesKept
  <2>4. QED
      BY <2>1, <2>2, <2>3, PoolsAssumption DEF PoolsTypeOK
<1>3. QED
    BY <1>1, <1>2

\* Signing, where the timers that are left leave room for it.
LEMMA SigningStep ==
    ASSUME PoolsIInv, NEW s \in SubCard, NEW action \in {"register", "deregister"},
           Send(s, action), NEW T \in SUBSET timers, timers' = T,
           Cardinality(signed) + Cardinality(T) < MaxSigned,
           pending' \subseteq SubCard,
           UNCHANGED <<now, handler, seen, effects, poolVars, left, enrolled, stranded, mishaps>>
    PROVE  PoolsIInv'
<1>1. CoreTypes /\ Core /\ underway \subseteq signed /\ IsFiniteSet(signed)
    BY DEF PoolsIInv, PoolsTypeOK, CoreTypes, SignaturesKept
<1>2. IsFiniteSet(T) /\ Cardinality(T) \in Nat /\ Cardinality(signed) \in Nat
    BY FS_Subset, FS_CardinalityType DEF PoolsIInv, SignaturesKept
<1>3. Cardinality(signed) < MaxSigned
    BY <1>2, PoolsAssumption
<1>4. /\ signed \subseteq signed' /\ signed' \subseteq Envelope /\ underway' \subseteq signed'
      /\ IsFiniteSet(signed') /\ Cardinality(signed') = Cardinality(signed) + 1
      /\ IdsDistinct' /\ \A e \in signed' \ signed : e.id = Cardinality(signed) + 1
    BY <1>1, <1>3, SendSigns
<1>5. Core'
    BY <1>1, <1>4, SigningKeepsCore
<1>6. SignaturesKept'
    BY <1>2, <1>4, PoolsAssumption DEF SignaturesKept
<1>7. PoolsTypeOK'
    BY <1>4 DEF PoolsIInv, PoolsTypeOK, poolVars
<1>8. QED
    BY <1>5, <1>6, <1>7 DEF PoolsIInv

\* Nothing is signed, and the pools are as they were registered.
LEMMA PoolsInitial == PoolsInit => PoolsIInv
<1> SUFFICES ASSUME PoolsInit PROVE PoolsIInv
    OBVIOUS
<1>1. PoolsTypeOK
    BY PoolsAssumption DEF PoolsInit, PoolsTypeOK
<1>2. SignaturesKept
    BY FS_EmptySet, PoolsAssumption DEF PoolsInit, SignaturesKept
<1>3. Core
    BY DEF PoolsInit, Core, IdsDistinct, ServedIsSigned, EffectsAreOfSigned, ServedInTime,
           OneApplies, NotYetApplied, SpentIsKnown, Serves
<1>4. QED
    BY <1>1, <1>2, <1>3 DEF PoolsIInv

\* What the device makes of an answer leaves its types and its signatures in order.
DeviceInOrder ==
    /\ left' \in [SubCard -> Nat] /\ enrolled' \subseteq SubCard
    /\ pending' \subseteq SubCard /\ timers' \subseteq SubCard /\ stranded' \subseteq SubCard
    /\ IsFiniteSet(timers') /\ Cardinality(signed) + Cardinality(timers') <= MaxSigned

\* A request that succeeds, fails or goes unanswered leaves the device in order.
LEMMA AnswersInOrder ==
    ASSUME PoolsIInv
    PROVE  /\ \A own \in SUBSET SubCard : Failed(own) => DeviceInOrder
           /\ \A e \in signed : Succeeded(e) => DeviceInOrder
           /\ UNCHANGED <<deviceSideVars, stranded>> => DeviceInOrder
<1> USE DEF DeviceInOrder
<1>1. ASSUME NEW own \in SUBSET SubCard, Failed(own) PROVE DeviceInOrder
    BY <1>1 DEF Failed, deviceSideVars, PoolsIInv, PoolsTypeOK, SignaturesKept
<1>2. ASSUME UNCHANGED <<deviceSideVars, stranded>> PROVE DeviceInOrder
    BY <1>2 DEF deviceSideVars, PoolsIInv, PoolsTypeOK, SignaturesKept
<1>3. ASSUME NEW e \in signed, Succeeded(e) PROVE DeviceInOrder
  <2>1. e.sub \in SubCard
      BY DEF PoolsIInv, PoolsTypeOK, Envelope
  <2>2. stranded' \subseteq SubCard
      BY <1>3 DEF Succeeded, PoolsIInv, PoolsTypeOK
  <2>3. CASE e.action = "register"
    <3>1. /\ left' = [left EXCEPT ![e.sub] = @ + Batch] /\ enrolled' = enrolled \cup {e.sub}
          /\ Report(e.sub, left[e.sub] + Batch)
        BY <1>3, <2>3 DEF Succeeded
    <3>2. left' \in [SubCard -> Nat] /\ enrolled' \subseteq SubCard
        BY <2>1, <3>1, PoolsAssumption DEF PoolsIInv, PoolsTypeOK
    <3>3. QED
        BY <2>1, <2>2, <3>1, <3>2, ReportSchedules DEF PoolsIInv
  <2>4. CASE e.action # "register"
    <3>1. /\ left' = [left EXCEPT ![e.sub] = 0] /\ enrolled' = enrolled \ {e.sub}
          /\ UNCHANGED <<pending, timers>>
        BY <1>3, <2>4 DEF Succeeded
    <3>2. QED
        BY <2>2, <3>1 DEF PoolsIInv, PoolsTypeOK, SignaturesKept
  <2>5. QED
      BY <2>3, <2>4
<1>4. QED
    BY <1>1, <1>2, <1>3

\* A step of the service, put together.
LEMMA ServedStep ==
    ASSUME PoolsIInv, CoreTypes', Core', DeviceInOrder, underway' \subseteq underway,
           UNCHANGED signed, mishaps' \in Nat,
           pool' \in [SubCard -> Nat], onceKnown' \subseteq SubCard
    PROVE  PoolsIInv'
BY DEF PoolsIInv, PoolsTypeOK, CoreTypes, SignaturesKept, DeviceInOrder

\* The steps of the device.
LEMMA DeviceSteps ==
    ASSUME PoolsIInv, NEW s \in SubCard,
           Enrol(s) \/ TakeMessage(s) \/ FireReplenishment(s) \/ GiveUp(s) \/ WasteUuid(s)
    PROVE  PoolsIInv'
<1> USE DEF deviceSideVars
<1>0. /\ CoreTypes /\ Core /\ timers \subseteq SubCard /\ pending \subseteq SubCard
      /\ IsFiniteSet(signed) /\ IsFiniteSet(timers)
      /\ Cardinality(signed) + Cardinality(timers) <= MaxSigned
    BY DEF PoolsIInv, PoolsTypeOK, CoreTypes, SignaturesKept
<1>1. CASE Enrol(s)
    BY <1>0, <1>1, SigningStep DEF Enrol, SignaturesLeft
<1>2. CASE TakeMessage(s)
  <2>1. pool' \in [SubCard -> Nat] /\ left' \in [SubCard -> Nat]
      BY <1>2 DEF TakeMessage, PoolsIInv, PoolsTypeOK
  <2>2. /\ pending' \subseteq SubCard /\ timers' \subseteq SubCard /\ IsFiniteSet(timers')
        /\ Cardinality(signed) + Cardinality(timers') <= MaxSigned
      BY <1>2, ReportSchedules DEF TakeMessage, PoolsIInv
  <2>3. DeviceInOrder
      BY <1>2, <2>1, <2>2 DEF TakeMessage, DeviceInOrder, PoolsIInv, PoolsTypeOK
  <2>4. /\ UNCHANGED <<now, signed, underway, handler, seen, effects, onceKnown, mishaps>>
        /\ CoreTypes'
      BY <1>0, <1>2 DEF TakeMessage, CoreTypes
  <2>5. Core'
      BY <1>0, <2>4, LeavingKeepsCore
  <2>6. QED
      BY <2>1, <2>3, <2>4, <2>5, ServedStep DEF PoolsIInv, PoolsTypeOK
<1>3. CASE FireReplenishment(s)
  <2>1. s \in timers /\ timers' = timers \ {s} /\ pending' = pending \ {s}
      BY <1>3 DEF FireReplenishment
  <2>2. Cardinality(timers \ {s}) = Cardinality(timers) - 1
      BY <1>0, <2>1, FS_RemoveElement
  <2>3. Cardinality(signed) \in Nat /\ Cardinality(timers) \in Nat
      BY <1>0, FS_CardinalityType
  <2>4. Cardinality(signed) + Cardinality(timers \ {s}) < MaxSigned
      BY <1>0, <2>2, <2>3, PoolsAssumption
  <2>5. QED
      BY <1>0, <1>3, <2>1, <2>4, SigningStep DEF FireReplenishment
<1>4. CASE GiveUp(s)
    BY <1>0, <1>4, SigningStep DEF GiveUp, SignaturesLeft
<1>5. CASE WasteUuid(s)
  <2>1. pool' \in [SubCard -> Nat] /\ mishaps' \in Nat
      BY <1>5 DEF WasteUuid, Mishap, PoolsIInv, PoolsTypeOK
  <2>2. /\ UNCHANGED <<now, signed, underway, handler, seen, effects, onceKnown,
                       deviceSideVars, stranded>>
        /\ CoreTypes'
      BY <1>0, <1>5 DEF WasteUuid, CoreTypes
  <2>3. Core' /\ DeviceInOrder
      BY <1>0, <2>2, LeavingKeepsCore, AnswersInOrder
  <2>4. QED
      BY <2>1, <2>2, <2>3, ServedStep DEF PoolsIInv, PoolsTypeOK
<1>6. QED
    BY <1>1, <1>2, <1>3, <1>4, <1>5

\* A handler is about sub-cards of this wallet.
LEMMA OwnIsSubCard ==
    ASSUME PoolsIInv, NEW h \in Handler, handler[h] # Vacant
    PROVE  Own(h) \subseteq SubCard
BY DEF PoolsIInv, PoolsTypeOK, Admitted, Envelope, Own

\* An envelope arrives, once or again, and is judged.
LEMMA ArrivalSteps ==
    ASSUME PoolsIInv, NEW h \in Handler, ReceiveEnvelope(h) \/ ReceiveCopy(h)
    PROVE  PoolsIInv'
<1>1. PICK e \in signed, own \in BOOLEAN : Admit(h, e, own)
    BY DEF ReceiveEnvelope, ReceiveCopy, PoolsIInv, PoolsTypeOK
<1>2. /\ UNCHANGED <<now, signed, seen, effects, poolVars>> /\ underway' \subseteq underway
      /\ mishaps' \in Nat
  <2>1. CASE ReceiveEnvelope(h)
      BY <2>1 DEF ReceiveEnvelope, PoolsIInv, PoolsTypeOK
  <2>2. CASE ReceiveCopy(h)
      BY <2>2 DEF ReceiveCopy, Mishap, PoolsIInv, PoolsTypeOK
  <2>3. QED
      BY <2>1, <2>2
<1>3. CoreTypes /\ Core
    BY DEF PoolsIInv, PoolsTypeOK, CoreTypes
<1>4. handler' \in [Handler -> Admitted \cup {Vacant}] /\ Core'
    BY <1>1, <1>2, <1>3, AdmittingKeepsCore
<1>5. DeviceInOrder
  <2>1. {e.sub} \subseteq SubCard
      BY DEF PoolsIInv, PoolsTypeOK, Envelope
  <2>2. QED
      BY <1>1, <2>1, AnswersInOrder DEF Admit
<1>6. CoreTypes'
    BY <1>2, <1>3, <1>4 DEF CoreTypes
<1>7. QED
    BY <1>2, <1>4, <1>5, <1>6, ServedStep DEF poolVars, PoolsIInv, PoolsTypeOK

\* The steps of the handler that serves it.
LEMMA ServiceSteps ==
    ASSUME PoolsIInv, NEW h \in Handler, ResolvingFails(h) \/ RecordNonceIfNew(h) \/ Apply(h)
    PROVE  PoolsIInv'
<1>0. CoreTypes /\ Core
    BY DEF PoolsIInv, PoolsTypeOK, CoreTypes
<1>1. CASE ResolvingFails(h)
  <2>1. /\ UNCHANGED <<now, signed, underway, seen, effects, poolVars>> /\ mishaps' \in Nat
        /\ handler' = [handler EXCEPT ![h] = Vacant] /\ Failed(Own(h)) /\ handler[h] # Vacant
      BY <1>1 DEF ResolvingFails, Leave, Mishap, PoolsIInv, PoolsTypeOK
  <2>2. CoreTypes' /\ Core'
      BY <1>0, <2>1, LeavingKeepsCore DEF CoreTypes
  <2>3. DeviceInOrder
      BY <2>1, AnswersInOrder, OwnIsSubCard
  <2>4. QED
      BY <2>1, <2>2, <2>3, ServedStep DEF poolVars, PoolsIInv, PoolsTypeOK
<1>2. CASE RecordNonceIfNew(h)
  <2>1. CoreTypes' /\ Core'
      BY <1>0, <1>2, RecordingKeepsCore
  <2>2. DeviceInOrder
      BY <1>2, AnswersInOrder, OwnIsSubCard DEF RecordNonceIfNew
  <2>3. QED
      BY <1>2, <2>1, <2>2, ServedStep DEF RecordNonceIfNew, poolVars, PoolsIInv, PoolsTypeOK
<1>3. CASE Apply(h)
  <2> DEFINE e == handler[h].envelope
  <2>1. /\ handler[h] # Vacant /\ handler[h].step = "apply" /\ Leave(h) /\ Change(e)
        /\ effects' = [effects EXCEPT ![e.id] = @ + 1]
        /\ UNCHANGED <<now, signed, underway, seen>>
      BY <1>3 DEF Apply
  <2>2. CoreTypes' /\ Core'
      BY <1>0, <2>1, ApplyingKeepsCore
  <2>3. e \in signed /\ e.sub \in SubCard
      BY <2>1 DEF PoolsIInv, PoolsTypeOK, Core, ServedIsSigned, Envelope
  <2>4. DeviceInOrder
      BY <1>3, <2>1, <2>3, AnswersInOrder, OwnIsSubCard DEF Apply
  <2>5. mishaps' \in Nat
      BY <1>3 DEF Apply, Mishap, PoolsIInv, PoolsTypeOK
  <2>6. pool' \in [SubCard -> Nat] /\ onceKnown' \subseteq SubCard
    <3>1. CASE e.action = "register"
        BY <2>1, <2>3, <3>1, PoolsAssumption DEF Change, PoolsIInv, PoolsTypeOK
    <3>2. CASE e.action # "register"
        BY <2>1, <2>3, <3>2 DEF Change, PoolsIInv, PoolsTypeOK
    <3>3. QED
        BY <3>1, <3>2
  <2>7. QED
      BY <2>1, <2>2, <2>4, <2>5, <2>6, ServedStep
<1>4. QED
    BY <1>1, <1>2, <1>3

\* Time, crashes and the relay.
LEMMA OtherPoolsSteps ==
    ASSUME PoolsIInv, PruneActionNonces \/ LoseEnvelope \/ StopService \/ Pass
    PROVE  PoolsIInv'
<1>0. CoreTypes /\ Core
    BY DEF PoolsIInv, PoolsTypeOK, CoreTypes
<1>1. CASE PruneActionNonces
  <2>1. UNCHANGED <<signed, underway, poolVars, deviceSideVars, stranded, mishaps>>
      BY <1>1 DEF PruneActionNonces
  <2>2. QED
      BY <1>0, <1>1, <2>1, PruningKeepsCore, AnswersInOrder, ServedStep
      DEF poolVars, PoolsIInv, PoolsTypeOK
<1>2. CASE Pass
  <2>1. UNCHANGED <<signed, underway, poolVars, deviceSideVars, stranded, mishaps>>
      BY <1>2 DEF Pass
  <2>2. QED
      BY <1>0, <1>2, <2>1, PassingKeepsCore, AnswersInOrder, ServedStep
      DEF poolVars, PoolsIInv, PoolsTypeOK
<1>3. CASE LoseEnvelope
  <2>1. PICK e \in underway : underway' = underway \ {e} /\ Failed({e.sub})
      BY <1>3 DEF LoseEnvelope
  <2>2. /\ UNCHANGED <<now, signed, handler, seen, effects, poolVars>> /\ mishaps' \in Nat
      BY <1>3 DEF LoseEnvelope, Mishap, PoolsIInv, PoolsTypeOK
  <2>3. CoreTypes' /\ Core'
      BY <1>0, <2>2, LeavingKeepsCore DEF CoreTypes
  <2>4. e.sub \in SubCard
      BY DEF PoolsIInv, PoolsTypeOK, Envelope
  <2>5. DeviceInOrder
      BY <2>1, <2>4, AnswersInOrder
  <2>6. QED
      BY <2>1, <2>2, <2>3, <2>5, ServedStep DEF poolVars, PoolsIInv, PoolsTypeOK
<1>4. CASE StopService
  <2>1. /\ UNCHANGED <<now, signed, underway, seen, effects, poolVars>> /\ mishaps' \in Nat
        /\ handler' = [h \in Handler |-> Vacant]
        /\ Failed(UNION {Own(h) : h \in {g \in Handler : handler[g] # Vacant}})
      BY <1>4 DEF StopService, Mishap, PoolsIInv, PoolsTypeOK
  <2>2. CoreTypes'
      BY <1>0, <2>1 DEF CoreTypes
  <2>3. Core'
      BY <1>0, <2>1, LeavingKeepsCore
  <2>4. UNION {Own(h) : h \in {g \in Handler : handler[g] # Vacant}} \subseteq SubCard
      BY OwnIsSubCard
  <2>5. DeviceInOrder
      BY <2>1, <2>4, AnswersInOrder
  <2>6. QED
      BY <2>1, <2>2, <2>3, <2>5, ServedStep DEF poolVars, PoolsIInv, PoolsTypeOK
<1>5. QED
    BY <1>1, <1>2, <1>3, <1>4

\* Every step keeps the invariant.
LEMMA PoolsStep == PoolsIInv /\ [PoolsNext]_poolsVars => PoolsIInv'
<1> SUFFICES ASSUME PoolsIInv, [PoolsNext]_poolsVars PROVE PoolsIInv'
    OBVIOUS
<1>1. CASE UNCHANGED poolsVars
  <2>1. /\ UNCHANGED <<now, signed, underway, handler, seen, effects, poolVars, deviceSideVars,
                       stranded, mishaps>>
        /\ CoreTypes /\ Core /\ CoreTypes'
      BY <1>1 DEF poolsVars, poolVars, deviceSideVars, PoolsIInv, PoolsTypeOK, CoreTypes
  <2>2. Core' /\ DeviceInOrder
      BY <2>1, LeavingKeepsCore, AnswersInOrder
  <2>3. QED
      BY <2>1, <2>2, ServedStep DEF poolVars, PoolsIInv, PoolsTypeOK
<1>2. CASE PoolsNext
    BY <1>2, DeviceSteps, ArrivalSteps, ServiceSteps, OtherPoolsSteps DEF PoolsNext
<1>3. QED
    BY <1>1, <1>2

\* Every table of the device and of the wallet service keeps its type (SubCardPools).
THEOREM PoolsTypeCorrect == PoolsSpec => []PoolsTypeOK
<1>1. PoolsIInv => PoolsTypeOK
    BY DEF PoolsIInv
<1>2. QED
    BY <1>1, PoolsInitial, PoolsStep, PTL DEF PoolsSpec

\* An envelope takes effect once although nonces are forgotten (subcard-action-nonces,
\* recordSubcardActionNonceIfNew, pruneOldSubcardActionNonces): whatever is sent again,
\* however late, and whenever the service stops.
THEOREM EnvelopesTakeEffectOnce == PoolsSpec => []HonouredOnce
<1>1. PoolsIInv => HonouredOnce
    BY DEF PoolsIInv, Core, EffectsAreOfSigned, HonouredOnce
<1>2. QED
    BY <1>1, PoolsInitial, PoolsStep, PTL DEF PoolsSpec

-----------------------------------------------------------------------------
(* ObliviousPath: the keys of the wallet service                             *)

Storing(i) == holding[i].step = "storing"

\* Before there is a key in the store nobody has one.
FirstKeyAhead ==
    stored = Unset => published = {} /\ \A i \in Instance : holding[i].step # "ready"
\* Two instances that are about to store keys are rivals, and so is one that is about
\* to replace a key, with the key.
StoresInOrder ==
    \A i \in Instance : Storing(i) =>
        /\ holding[i].key \in Key
        /\ stored # Unset => stored \in rivals /\ holding[i].key \in rivals
        /\ \A j \in Instance \ {i} : Storing(j) => holding[i].key \in rivals
\* Where a request waits for an instance, it is one.
AskedIsInstance ==
    \A r \in Call :
        DestOf[r] = Wallet /\ call[r].step \in {"fetch", "arrived"} => call[r].at \in Instance
ConfigHasKey == \A r \in Call : call[r].step = "config" => call[r].key \in Key

CallsInOrder == AskedIsInstance /\ ConfigHasKey
KeysInOrder == FirstKeyAhead /\ StoresInOrder /\ PublishedKeysOpen
PathIInv == PathTypeOK /\ CallsInOrder /\ KeysInOrder

\* No instance has a key.
LEMMA PathInitial == PathInit => PathIInv
<1> SUFFICES ASSUME PathInit PROVE PathIInv
    OBVIOUS
<1>1. NoKey \in Holding /\ [step |-> "idle", key |-> Unset, at |-> Unset] \in CallState
    BY DEF NoKey, Holding, CallState, AtDevice
<1>2. PathTypeOK
    BY <1>1 DEF PathInit, PathTypeOK
<1>3. CallsInOrder
    BY DEF PathInit, CallsInOrder, AskedIsInstance, ConfigHasKey
<1>4. KeysInOrder
    BY DEF PathInit, NoKey, KeysInOrder, FirstKeyAhead, StoresInOrder, PublishedKeysOpen,
       InUse, Storing
<1>5. QED
    BY <1>2, <1>3, <1>4 DEF PathIInv

\* What an instance holds of a key has its type.
LEMMA HeldType ==
    ASSUME PathTypeOK, NEW i \in Instance, NEW step, NEW k, [step |-> step, key |-> k] \in Holding,
           Hold(i, step, k)
    PROVE  /\ holding' \in [Instance -> Holding]
           /\ holding'[i].step = step /\ holding'[i].key = k
           /\ \A j \in Instance : j # i => holding'[j] = holding[j]
BY DEF Hold, PathTypeOK

\* Faults are counted.
LEMMA FaultType == PathTypeOK /\ Fault => pathFaults' \in Nat
BY DEF PathTypeOK, Fault

\* A step of a request that is not about a key.
LEMMA MovedInOrder ==
    ASSUME PathTypeOK, CallsInOrder, NEW r \in Call, NEW step,
           step \in {"plain", "failed", "answered", "done", "opened"}, Move(r, step)
    PROVE  call' \in [Call -> CallState] /\ CallsInOrder'
<1>1. call' = [call EXCEPT ![r] = [call[r] EXCEPT !.step = step]]
    BY DEF Move, PathTypeOK
<1>2. [call[r] EXCEPT !.step = step] \in CallState
    BY DEF PathTypeOK, CallState, AtDevice, Travelling, AtGateway
<1>3. QED
    BY <1>1, <1>2 DEF PathTypeOK, CallsInOrder, AskedIsInstance, ConfigHasKey, CallState

\* A request that moves on stays in order.
LEMMA SetInOrder ==
    ASSUME PathTypeOK, CallsInOrder, NEW r \in Call, NEW c \in CallState,
           call' = [call EXCEPT ![r] = c],
           DestOf[r] = Wallet /\ c.step \in {"fetch", "arrived"} => c.at \in Instance,
           c.step = "config" => c.key \in Key
    PROVE  call' \in [Call -> CallState] /\ CallsInOrder'
BY DEF PathTypeOK, CallsInOrder, AskedIsInstance, ConfigHasKey, CallState

\* Requests that are dropped stay in order.
LEMMA DroppedInOrder ==
    ASSUME PathTypeOK, CallsInOrder, NEW served, call' = Dropped(served)
    PROVE  call' \in [Call -> CallState] /\ CallsInOrder'
<1>1. \A r \in Call : [call[r] EXCEPT !.step = "failed"] \in CallState
    BY DEF PathTypeOK, CallState, AtDevice
<1>2. \A r \in Call : call'[r] =
          IF r \in served THEN [call[r] EXCEPT !.step = "failed"] ELSE call[r]
    BY DEF Dropped
<1>3. call' \in [Call -> CallState]
    BY <1>1, <1>2 DEF PathTypeOK, Dropped
<1>4. \A r \in Call : call'[r] = call[r] \/ call'[r].step = "failed"
    BY <1>2 DEF PathTypeOK, CallState
<1>5. QED
    BY <1>3, <1>4 DEF CallsInOrder, AskedIsInstance, ConfigHasKey

\* The keys stay in order where nothing about them changes.
LEMMA KeysUntouched ==
    ASSUME KeysInOrder, UNCHANGED walletKeyVars
    PROVE  KeysInOrder'
BY DEF KeysInOrder, FirstKeyAhead, StoresInOrder, PublishedKeysOpen, InUse, Storing,
   walletKeyVars

\* They do where an instance no longer has a key, or has none yet.
LEMMA KeyForgotten ==
    ASSUME KeysInOrder, NEW i \in Instance, UNCHANGED <<stored, published, rivals>>,
           holding'[i].step \in {"none", "reading", "failed"},
           \A j \in Instance : j # i => holding'[j] = holding[j]
    PROVE  KeysInOrder'
<1>1. \A j \in Instance : holding'[j].step \in {"storing", "ready"} => holding'[j] = holding[j]
    OBVIOUS
<1>2. FirstKeyAhead' /\ StoresInOrder'
    BY <1>1 DEF KeysInOrder, FirstKeyAhead, StoresInOrder, Storing
<1>3. InUse' \subseteq InUse
    BY <1>1 DEF InUse
<1>4. PublishedKeysOpen'
    BY <1>3 DEF KeysInOrder, PublishedKeysOpen
<1>5. QED
    BY <1>2, <1>4 DEF KeysInOrder

-----------------------------------------------------------------------------

\* The steps by which an instance finds, makes and stores the key, or fails.
LEMMA KeySteps ==
    ASSUME PathIInv, NEW i \in Instance,
           KeyStep(i) \/ KeyFails(i) \/ CrashInstance(i)
    PROVE  PathIInv'
<1> USE PathAssumption
<1>1. CASE LookForKey(i)
  <2>1. /\ holding'[i].step = "reading" /\ holding' \in [Instance -> Holding]
        /\ \A j \in Instance : j # i => holding'[j] = holding[j]
      BY <1>1, HeldType DEF LookForKey, Holding, PathIInv
  <2>2. /\ UNCHANGED <<stored, published, rivals, pressKeyVars, cache, call, pathFaults>>
      BY <1>1 DEF LookForKey
  <2>3. KeysInOrder'
      BY <2>1, <2>2, KeyForgotten DEF PathIInv
  <2>4. QED
      BY <2>1, <2>2, <2>3
      DEF PathIInv, PathTypeOK, CallsInOrder, AskedIsInstance, ConfigHasKey, pressKeyVars
<1>2. CASE ReadOrMakeKey(i)
  <2>1. PICK step \in {"ready", "storing"}, k \in Key :
            /\ Hold(i, step, k)
            /\ step = "ready" => stored = k /\ rivals' = rivals
            /\ step = "storing" => stored = Unset /\ rivals' = rivals \cup Rivalry(k)
      BY <1>2 DEF ReadOrMakeKey, PathIInv, PathTypeOK
  <2>2. /\ holding'[i].step = step /\ holding'[i].key = k /\ holding' \in [Instance -> Holding]
        /\ \A j \in Instance : j # i => holding'[j] = holding[j]
      BY <2>1, HeldType DEF Holding, PathIInv
  <2>3. /\ UNCHANGED <<stored, published, pressKeyVars, cache, call, pathFaults>>
        /\ holding[i].step = "reading"
      BY <1>2 DEF ReadOrMakeKey
  <2>4. rivals' \subseteq Key /\ rivals \subseteq rivals'
    <3>1. BeingStored \subseteq Key
        BY DEF BeingStored, PathIInv, KeysInOrder, StoresInOrder, Storing
    <3>2. QED
        BY <2>1, <3>1 DEF Rivalry, PathIInv, PathTypeOK
  <2>5. ASSUME step = "ready" PROVE KeysInOrder'
    <3>1. FirstKeyAhead' /\ StoresInOrder'
        BY <2>1, <2>2, <2>3, <2>5 DEF PathIInv, KeysInOrder, FirstKeyAhead, StoresInOrder, Storing
    <3>2. InUse' \subseteq InUse \cup {stored}
        BY <2>1, <2>2, <2>3, <2>5 DEF InUse
    <3>3. QED
        BY <2>1, <2>3, <2>5, <3>1, <3>2 DEF PathIInv, KeysInOrder, PublishedKeysOpen
  <2>6. ASSUME step = "storing" PROVE KeysInOrder'
    <3>1. FirstKeyAhead'
        BY <2>2, <2>3, <2>6 DEF PathIInv, KeysInOrder, FirstKeyAhead
    <3>2. \A j \in Instance \ {i} : Storing(j) => holding[j].key \in rivals' /\ k \in rivals'
        BY <2>1, <2>6 DEF Rivalry, BeingStored, Storing
    <3>3. StoresInOrder'
        BY <2>1, <2>2, <2>3, <2>4, <2>6, <3>2
        DEF PathIInv, KeysInOrder, StoresInOrder, Storing
    <3>4. InUse' \subseteq InUse
        BY <2>2, <2>3, <2>6 DEF InUse
    <3>5. QED
        BY <2>3, <2>4, <3>1, <3>3, <3>4 DEF PathIInv, KeysInOrder, PublishedKeysOpen
  <2>7. QED
      BY <2>2, <2>3, <2>4, <2>5, <2>6
      DEF PathIInv, PathTypeOK, CallsInOrder, AskedIsInstance, ConfigHasKey, pressKeyVars
<1>3. CASE StoreKey(i)
  <2>1. PICK k \in Key :
            /\ Storing(i) /\ holding[i].key = k /\ stored' = k /\ Hold(i, "ready", k)
            /\ stored # Unset => stored \in rivals /\ k \in rivals
      BY <1>3 DEF StoreKey, PathIInv, KeysInOrder, StoresInOrder, Storing
  <2>2. /\ holding'[i].step = "ready" /\ holding'[i].key = k
        /\ holding' \in [Instance -> Holding]
        /\ \A j \in Instance : j # i => holding'[j] = holding[j]
      BY <2>1, HeldType DEF Holding, PathIInv
  <2>3. UNCHANGED <<published, rivals, pressKeyVars, cache, call, pathFaults>>
      BY <1>3 DEF StoreKey
  <2>4. FirstKeyAhead' /\ StoresInOrder'
      BY <2>1, <2>2, <2>3 DEF PathIInv, KeysInOrder, FirstKeyAhead, StoresInOrder, Storing
  <2>5. InUse' \subseteq InUse \cup {k}
      BY <2>2, <2>3 DEF InUse
  <2>6. PublishedKeysOpen'
    <3>1. CASE stored = Unset
      <4>1. InUse = {}
          BY <3>1 DEF PathIInv, KeysInOrder, FirstKeyAhead, InUse
      <4>2. QED
          BY <2>1, <2>5, <4>1 DEF PublishedKeysOpen
    <3>2. CASE stored # Unset
        BY <2>1, <2>3, <2>5, <3>2 DEF PathIInv, KeysInOrder, PublishedKeysOpen
    <3>3. QED
        BY <3>1, <3>2
  <2>7. QED
      BY <2>1, <2>2, <2>3, <2>4, <2>6
      DEF PathIInv, PathTypeOK, KeysInOrder, CallsInOrder, AskedIsInstance, ConfigHasKey,
          pressKeyVars
<1>4. CASE KeyFails(i) \/ CrashInstance(i)
  <2>1. PICK step \in {"failed", "none"} : Hold(i, step, Unset)
      BY <1>4 DEF KeyFails, CrashInstance
  <2>2. /\ holding'[i].step \in {"failed", "none"} /\ holding' \in [Instance -> Holding]
        /\ \A j \in Instance : j # i => holding'[j] = holding[j]
      BY <2>1, HeldType DEF Holding, PathIInv
  <2>3. UNCHANGED <<stored, published, rivals, pressKeyVars, cache>> /\ pathFaults' \in Nat
      BY <1>4, FaultType DEF KeyFails, CrashInstance, PathIInv
  <2>4. KeysInOrder'
      BY <2>2, <2>3, KeyForgotten DEF PathIInv
  <2>5. call' \in [Call -> CallState] /\ CallsInOrder'
    <3>1. CASE KeyFails(i)
        BY <3>1
        DEF KeyFails, PathIInv, PathTypeOK, CallsInOrder, AskedIsInstance, ConfigHasKey
    <3>2. CASE CrashInstance(i)
        BY <3>2, DroppedInOrder DEF CrashInstance, PathIInv
    <3>3. QED
        BY <1>4, <3>1, <3>2
  <2>6. QED
      BY <2>2, <2>3, <2>4, <2>5 DEF PathIInv, PathTypeOK, pressKeyVars
<1>5. QED
    BY <1>1, <1>2, <1>3, <1>4 DEF KeyStep

\* What gives a key out takes it from an instance that opens requests with it.
LEMMA ConfigSteps ==
    ASSUME PathIInv, NEW r \in Call,
           ServeWalletConfig(r) \/ ServePressConfig(r) \/ KeepConfig(r) \/ Request(r)
    PROVE  PathIInv'
<1> USE PathAssumption
<1>1. CASE ServeWalletConfig(r)
  <2> DEFINE h == holding[call[r].at]
  <2>1. UNCHANGED <<stored, holding, rivals, pressKeyVars, cache, pathFaults>>
      BY <1>1 DEF ServeWalletConfig
  <2>2. CASE h.step = "ready" /\ published' = published \cup {h.key}
             /\ call' = [call EXCEPT ![r] = [step |-> "config", key |-> h.key, at |-> Unset]]
    <3>1. call[r].at \in Instance
        BY <1>1 DEF ServeWalletConfig, PathIInv, CallsInOrder, AskedIsInstance
    <3>2. h.key \in InUse /\ stored # Unset
        BY <2>2, <3>1 DEF PathIInv, KeysInOrder, FirstKeyAhead, InUse
    <3>3. h.key \in Key
        BY <3>2 DEF PathIInv, PathTypeOK, KeysInOrder, PublishedKeysOpen
    <3>4. InUse' = InUse
        BY <2>1, <2>2, <3>2 DEF InUse
    <3>5. KeysInOrder'
        BY <2>1, <3>2, <3>4
        DEF PathIInv, KeysInOrder, FirstKeyAhead, StoresInOrder, PublishedKeysOpen, Storing
    <3>6. [step |-> "config", key |-> h.key, at |-> Unset] \in CallState
        BY <3>3 DEF CallState, AtDevice
    <3>7. call' \in [Call -> CallState] /\ CallsInOrder'
        BY <2>2, <3>6, <3>3, SetInOrder DEF PathIInv
    <3>8. QED
        BY <2>1, <2>2, <3>5, <3>7, <3>3 DEF PathIInv, PathTypeOK, pressKeyVars
  <2>3. CASE Move(r, "failed") /\ UNCHANGED published
      BY <2>1, <2>3, MovedInOrder, KeysUntouched
      DEF PathIInv, PathTypeOK, pressKeyVars, walletKeyVars
  <2>4. QED
      BY <1>1, <2>2, <2>3 DEF ServeWalletConfig
<1>2. CASE ServePressConfig(r)
  <2>1. UNCHANGED <<walletKeyVars, pressKeyVars, cache, pathFaults>>
      BY <1>2 DEF ServePressConfig
  <2>2. CASE call' = [call EXCEPT ![r] = [step |-> "config", key |-> pressKey, at |-> Unset]]
    <3>1. [step |-> "config", key |-> pressKey, at |-> Unset] \in CallState /\ pressKey \in Key
        BY DEF CallState, AtDevice, PathIInv, PathTypeOK
    <3>2. call' \in [Call -> CallState] /\ CallsInOrder'
        BY <2>2, <3>1, SetInOrder DEF PathIInv
    <3>3. QED
        BY <2>1, <3>2, KeysUntouched DEF PathIInv, PathTypeOK, pressKeyVars, walletKeyVars
  <2>3. CASE Move(r, "failed")
      BY <2>1, <2>3, MovedInOrder, KeysUntouched
      DEF PathIInv, PathTypeOK, pressKeyVars, walletKeyVars
  <2>4. QED
      BY <1>2, <2>2, <2>3 DEF ServePressConfig
<1>3. CASE KeepConfig(r)
  <2>1. /\ call[r].step = "config" /\ Seal(r, call[r].key)
        /\ cache' = [cache EXCEPT ![DestOf[r]] = [key |-> call[r].key, age |-> 0]]
        /\ UNCHANGED <<walletKeyVars, pressKeyVars, pathFaults>>
      BY <1>3 DEF KeepConfig
  <2>2. call[r].key \in Key
      BY <2>1 DEF PathIInv, CallsInOrder, ConfigHasKey
  <2>3. [key |-> call[r].key, age |-> 0] \in Config
      BY <2>2 DEF Config
  <2>4. cache' \in [Destination -> Config \cup {Unset}]
      BY <2>1, <2>3 DEF PathIInv, PathTypeOK
  <2>5. [step |-> "sealed", key |-> call[r].key, at |-> Unset] \in CallState
      BY <2>2 DEF CallState, Travelling
  <2>6. call' \in [Call -> CallState] /\ CallsInOrder'
      BY <2>1, <2>5, SetInOrder DEF PathIInv, Seal
  <2>7. QED
      BY <2>1, <2>4, <2>6, KeysUntouched
      DEF PathIInv, PathTypeOK, pressKeyVars, walletKeyVars
<1>4. CASE Request(r)
  <2>1. UNCHANGED <<walletKeyVars, pressKeyVars, cache, pathFaults>>
      BY <1>4 DEF Request
  <2>2. call' \in [Call -> CallState] /\ CallsInOrder'
    <3>1. CASE Move(r, "plain")
        BY <3>1, MovedInOrder DEF PathIInv
    <3>2. CASE Current(DestOf[r]) /\ Seal(r, cache[DestOf[r]].key)
      <4>1. cache[DestOf[r]].key \in Key
          BY <3>2 DEF PathIInv, PathTypeOK, Current, Config
      <4>2. [step |-> "sealed", key |-> cache[DestOf[r]].key, at |-> Unset] \in CallState
          BY <4>1 DEF CallState, Travelling
      <4>3. QED
          BY <3>2, <4>2, SetInOrder DEF PathIInv, Seal
    <3>3. CASE \E i \in IF DestOf[r] = Wallet THEN Instance ELSE {Unset} :
                  call' = [call EXCEPT ![r] = [step |-> "fetch", key |-> Unset, at |-> i]]
      <4>1. PICK i \in IF DestOf[r] = Wallet THEN Instance ELSE {Unset} :
                  call' = [call EXCEPT ![r] = [step |-> "fetch", key |-> Unset, at |-> i]]
          BY <3>3
      <4>2. [step |-> "fetch", key |-> Unset, at |-> i] \in CallState
          BY DEF CallState, AtDevice
      <4>3. DestOf[r] = Wallet => i \in Instance
          OBVIOUS
      <4>4. QED
          BY <4>1, <4>2, <4>3, SetInOrder DEF PathIInv
    <3>4. QED
        BY <1>4, <3>1, <3>2, <3>3 DEF Request
  <2>3. QED
      BY <2>1, <2>2, KeysUntouched DEF PathIInv, PathTypeOK, pressKeyVars, walletKeyVars
<1>5. QED
    BY <1>1, <1>2, <1>3, <1>4

\* The steps of a request on its way.
LEMMA TravelSteps ==
    ASSUME PathIInv, NEW r \in Call,
           \/ ForwardSealed(r) \/ OpenAtWallet(r) \/ OpenAtPress(r) \/ Dispatch(r)
           \/ Receive(r) \/ LoseCall(r)
    PROVE  PathIInv'
<1>1. UNCHANGED <<walletKeyVars, pressKeyVars, cache>>
    BY DEF ForwardSealed, OpenAtWallet, OpenAtPress, Dispatch, Receive, LoseCall
<1>2. pathFaults' \in Nat
    BY FaultType
    DEF ForwardSealed, OpenAtWallet, OpenAtPress, Dispatch, Receive, LoseCall, PathIInv,
        PathTypeOK
<1>3. call' \in [Call -> CallState] /\ CallsInOrder'
  <2>1. CASE ForwardSealed(r)
    <3>1. PICK i \in IF DestOf[r] = Wallet THEN Instance ELSE {Unset} :
              call' = [call EXCEPT ![r].step = "arrived", ![r].at = i]
        BY <2>1 DEF ForwardSealed
    <3> DEFINE c == [call[r] EXCEPT !.step = "arrived", !.at = i]
    <3>2. call' = [call EXCEPT ![r] = c] /\ c.step = "arrived" /\ c.at = i
        BY <3>1 DEF PathIInv, PathTypeOK, CallState
    <3>3. c \in CallState
        BY DEF PathIInv, PathTypeOK, CallState, AtGateway
    <3>4. DestOf[r] = Wallet => i \in Instance
        OBVIOUS
    <3> HIDE DEF c
    <3>5. QED
        BY <3>2, <3>3, <3>4, SetInOrder DEF PathIInv
  <2>2. CASE ~ForwardSealed(r)
    <3>1. PICK step \in {"failed", "answered", "done", "opened"} : Move(r, step)
        BY <2>2 DEF OpenAtWallet, OpenAtPress, Dispatch, Receive, LoseCall
    <3>2. QED
        BY <3>1, MovedInOrder DEF PathIInv
  <2>3. QED
      BY <2>1, <2>2
<1>4. QED
    BY <1>1, <1>2, <1>3, KeysUntouched DEF PathIInv, PathTypeOK, pressKeyVars, walletKeyVars

\* The press starts and restarts with a key of its own, and a cached key ages.
LEMMA PressSteps ==
    ASSUME PathIInv, Age \/ RestartPress \/ PressStarts
    PROVE  PathIInv'
<1>1. CASE Age
  <2>1. /\ UNCHANGED <<walletKeyVars, pressKeyVars, call, pathFaults>>
        /\ cache' = [d \in Destination |-> IF d \in Ageing THEN [cache[d] EXCEPT !.age = @ + 1]
                                                           ELSE cache[d]]
      BY <1>1 DEF Age
  <2>2. \A d \in Ageing : [cache[d] EXCEPT !.age = @ + 1] \in Config
      BY PathAssumption DEF Ageing, PathIInv, PathTypeOK, Config
  <2>3. cache' \in [Destination -> Config \cup {Unset}]
      BY <2>1, <2>2 DEF PathIInv, PathTypeOK
  <2>4. QED
      BY <2>1, <2>3, KeysUntouched
      DEF PathIInv, PathTypeOK, CallsInOrder, AskedIsInstance, ConfigHasKey, pressKeyVars,
          walletKeyVars
<1>2. CASE RestartPress
  <2>1. /\ pressKey' \in Key /\ pressReady' = FALSE /\ UNCHANGED <<walletKeyVars, cache>>
        /\ pathFaults' \in Nat
      BY <1>2, FaultType DEF RestartPress, PathIInv, PathTypeOK
  <2>2. call' \in [Call -> CallState] /\ CallsInOrder'
      BY <1>2, DroppedInOrder DEF RestartPress, PathIInv
  <2>3. QED
      BY <2>1, <2>2, KeysUntouched DEF PathIInv, PathTypeOK, walletKeyVars
<1>3. CASE PressStarts
    BY <1>3, KeysUntouched
    DEF PressStarts, PathIInv, PathTypeOK, CallsInOrder, AskedIsInstance, ConfigHasKey,
        walletKeyVars
<1>4. QED
    BY <1>1, <1>2, <1>3

\* Every step keeps the invariant.
LEMMA PathStep == PathIInv /\ [PathNext]_pathVars => PathIInv'
<1> SUFFICES ASSUME PathIInv, [PathNext]_pathVars PROVE PathIInv'
    OBVIOUS
<1>1. CASE UNCHANGED pathVars
    BY <1>1, KeysUntouched
    DEF pathVars, walletKeyVars, pressKeyVars, PathIInv, PathTypeOK, CallsInOrder,
        AskedIsInstance, ConfigHasKey
<1>2. CASE PathNext
    BY <1>2, KeySteps, ConfigSteps, TravelSteps, PressSteps DEF PathNext, CallStep
<1>3. QED
    BY <1>1, <1>2

\* What was sealed to a key that the wallet service gave out can be opened for good by
\* each of its instances; where two of them made the first key at once, every key in use
\* and the stored one come from that race (ohttp-gateway.ts, getOrCreateKeypair).
THEOREM WhatIsSealedOpens == PathSpec => []PublishedKeysOpen
<1>1. PathIInv => PublishedKeysOpen
    BY DEF PathIInv, KeysInOrder
<1>2. QED
    BY <1>1, PathInitial, PathStep, PTL DEF PathSpec
=============================================================================
