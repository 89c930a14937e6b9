---- MODULE VerifierProofs ----
(***************************************************************************)
(* The card verifier never judges by a state the chain was not in.  The    *)
(* stages read the chain one call at a time while it moves, so no single   *)
(* moment need agree with everything a verification read.  The invariant,  *)
(* VerifierInv, says what stays true: each read returned an entry that was *)
(* its card's head at some moment since the verification began, and logs   *)
(* only grow, so a read keeps that meaning however far the chain moves on. *)
(*                                                                         *)
(* The port implements the original: PortInv says the same of what the port *)
(* has read, and that its windows of blocks add up to the log so far; every *)
(* step of it is then a read of the original, a step nobody sees, or, where  *)
(* a provider hides something, the original's failure.                      *)
(***************************************************************************)
EXTENDS VerifierPort, WellFoundedInduction, TLAPS

-----------------------------------------------------------------------------
(* What others do to the chain                                               *)

\* Logs only grow, no card appears, and a sub-card at most loses its registration.
Moves(l1, l2) ==
    \A c \in Card :
        /\ Len(l1[c]) <= Len(l2[c])
        /\ \A n \in 1..Len(l1[c]) : l2[c][n] = l1[c][n]
        /\ l1[c] = <<>> => l2[c] = <<>>

LEMMA Published ==
    ASSUME ChainTypeOK, NEW c \in Card, NEW entry \in Entry, Publish(c, entry)
    PROVE  ChainTypeOK' /\ Moves(log, log') /\ now' = now /\ UNCHANGED subCard
<1>1. log \in [Card -> Seq(Entry)] /\ log' = [log EXCEPT ![c] = Append(@, entry)]
    BY DEF ChainTypeOK, Publish
<1>2. Append(log[c], entry) \in Seq(Entry) /\ Len(Append(log[c], entry)) = Len(log[c]) + 1
      /\ \A n \in 1..Len(log[c]) : Append(log[c], entry)[n] = log[c][n]
    BY <1>1
<1>3. log[c] # <<>>
    BY DEF Publish, Exists
<1>4. Moves(log, log')
    BY <1>1, <1>2, <1>3 DEF Moves
<1>5. log' \in [Card -> Seq(Entry)]
    BY <1>1, <1>2
<1>6. changes' \in 0..MaxChanges /\ UNCHANGED <<parent, now, subCard, authorizers, pressLog>>
    BY ChainAssumption DEF Publish, Change, ChainTypeOK
<1>7. QED BY <1>4, <1>5, <1>6 DEF ChainTypeOK

LEMMA ChainGrows ==
    ASSUME ChainTypeOK, ChainStep
    PROVE  /\ ChainTypeOK' /\ Moves(log, log') /\ now <= now' /\ UNCHANGED parent
           /\ subCard'.exists = subCard.exists /\ subCard'.flaw = subCard.flaw
           /\ subCard'.active => subCard.active
           /\ subCard'.complete = subCard.complete
<1>1. log \in [Card -> Seq(Entry)] /\ now \in Nat /\ subCard \in SubCardEntry
    BY ChainAssumption DEF ChainTypeOK
<1>2. ASSUME NEW c \in Changing, Update(c) \/ Revoke(c) PROVE
        ChainTypeOK' /\ Moves(log, log') /\ now' = now /\ UNCHANGED <<parent, subCard>>
    <2>1. c \in Card
        BY ChainAssumption
    <2>2. CASE Update(c)
        <3>1. PICK readable \in BOOLEAN, listed \in BOOLEAN, honest \in BOOLEAN :
                Publish(c, [kind |-> "field_update", readable |-> readable, listed |-> listed,
                            honest |-> honest, reported |-> Nil, at |-> now])
            BY <2>2 DEF Update
        <3>2. [kind |-> "field_update", readable |-> readable, listed |-> listed,
                            honest |-> honest, reported |-> Nil, at |-> now] \in Entry
            BY <1>1 DEF Entry
        <3>3. QED BY <2>1, <3>1, <3>2, Published DEF Publish, Change
    <2>3. CASE Revoke(c)
        <3>1. PICK reported \in Reported :
                Publish(c, [kind |-> "revocation", readable |-> TRUE, listed |-> HeadOf(c).listed,
                            honest |-> TRUE, reported |-> reported, at |-> now])
            BY <2>3 DEF Revoke
        <3>2. HeadOf(c).listed \in BOOLEAN
            <4>1. Len(log[c]) \in 1..Len(log[c]) /\ log[c] \in Seq(Entry)
                BY <1>1, <2>1, <3>1 DEF Publish, Exists
            <4>2. HeadOf(c) \in Entry
                BY <4>1 DEF HeadOf, Last
            <4>3. QED BY <4>2 DEF Entry
        <3>3. [kind |-> "revocation", readable |-> TRUE, listed |-> HeadOf(c).listed,
                            honest |-> TRUE, reported |-> reported, at |-> now] \in Entry
            BY <1>1, <3>2, ChainAssumption DEF Entry
        <3>4. QED BY <2>1, <3>1, <3>3, Published DEF Publish, Change
    <2>4. QED BY <1>2, <2>2, <2>3
<1>3. ASSUME UNCHANGED log PROVE Moves(log, log')
    BY <1>1, <1>3 DEF Moves
<1>4. ASSUME NEW c \in Changing, ToggleAuthorizer(c) PROVE
        ChainTypeOK' /\ Moves(log, log') /\ now' = now /\ UNCHANGED <<parent, subCard>>
    BY <1>3, <1>4, ChainAssumption DEF ToggleAuthorizer, Change, ChainTypeOK
<1>5. ASSUME NEW status \in PressStatus, SetPress(status) PROVE
        ChainTypeOK' /\ Moves(log, log') /\ now' = now /\ UNCHANGED <<parent, subCard>>
    BY <1>3, <1>5, ChainAssumption DEF SetPress, Change, ChainTypeOK
<1>6. CASE Deregister
    <2>1. /\ subCard' = [subCard EXCEPT !.active = FALSE] /\ subCard.active
          /\ UNCHANGED <<log, authorizers, pressLog, parent, now>> /\ changes' \in 0..MaxChanges
        BY <1>6, ChainAssumption DEF Deregister, Change, ChainTypeOK
    <2>2. /\ subCard' \in SubCardEntry /\ subCard'.exists = subCard.exists
          /\ subCard'.flaw = subCard.flaw /\ subCard'.complete = subCard.complete
        BY <1>1, <2>1 DEF SubCardEntry
    <2>3. QED BY <1>1, <1>3, <2>1, <2>2 DEF ChainTypeOK
<1>7. CASE Tick
    BY <1>1, <1>3, <1>7, ChainAssumption DEF Tick, ChainTypeOK
<1>8. QED BY <1>1, <1>2, <1>4, <1>5, <1>6, <1>7 DEF ChainStep

-----------------------------------------------------------------------------
(* What is known of a verification                                           *)

Links == Seq([card : Card, entry : Nat])

\* Entry n of a card has been its head since the verification began.
Since(c, n) == n \in 1..Len(log[c]) /\ start.entries[c] <= n

StartSound ==
    /\ start \in [entries : [Card -> Nat], active : BOOLEAN, press : Nat]
    /\ \A c \in Card : start.entries[c] <= Len(log[c])
    /\ subCard.active => start.active

\* Where the walk is: it goes on only from a card that has one above, and no step but
\* the first is taken without the card itself.
Located(x) ==
    /\ x.step \in {"next-root", "ancestor"} =>
          parent[x.current] # Nil /\ x.depth # MaxChainDepth
    /\ x.step \notin {"idle", "signer", "master", "card"} \cup Over => Exists(Master)

\* The steps after the verdict of stage 4
After == {"press", "report", "annotate"} \cup Over

\* What is read of a card was its head at some moment.
LinkSound(l) == Exists(l.card) /\ (l.entry = 0 \/ Since(l.card, l.entry))
ChainSound(chain) ==
    /\ \A i \in DOMAIN chain : LinkSound(chain[i])
    /\ chain = Stub \/ \A i \in DOMAIN chain : chain[i].entry # 0
ReadSound(chain, reads) ==
    /\ DOMAIN reads = DOMAIN chain
    /\ \A i \in DOMAIN chain : reads[i] = 0 \/ Since(chain[i].card, reads[i])
ReadsSound(x) ==
    /\ ChainSound(x.chain)
    /\ x.step \notin After \cup {"revocation"} =>
          \A i \in DOMAIN x.chain : x.chain[i].entry # 0
    /\ x.step = "revocation" => ReadSound(x.chain, x.entryAt) /\ ReadSound(x.chain, x.logAt)

MasterListed == \E n \in 1..Len(log[Master]) : Since(Master, n) /\ log[Master][n].listed
SubCardSeen(x) ==
    /\ x.step \in {"master", "sub-card", "app-card", "app-hop"} =>
          subCard.exists /\ subCard.flaw # "binding"
    /\ x.step \in {"sub-card", "app-card", "app-hop"} => MasterListed
    /\ x.step \in {"app-card", "app-hop"} => start.active /\ subCard.flaw = "none"
    /\ x.scope = "yes" =>
          subCard.exists /\ start.active /\ subCard.flaw = "none" /\ MasterListed

Undated(l) ==
    \E n \in 1..Len(log[l.card]) :
        Since(l.card, n) /\ (log[l.card][n].kind # "revocation" \/ log[l.card][n].reported = Nil)
SigningJudged(x) ==
    (\A i \in DOMAIN x.chain : ~Moved(x.chain[i].card)) =>
        (x.validThen = "yes" <=> \A i \in DOMAIN x.chain :
            LET head == HeadOf(x.chain[i].card) IN
            head.kind = "revocation" => x.signing < head.at)
Accused(chain) ==
    \E i \in DOMAIN chain : Moved(chain[i].card) \/ ~HeadOf(chain[i].card).honest
VerdictSound(x) ==
    /\ x.status = "unknown" \/ x.step \in After
    /\ x.status = "not_revoked" => \A i \in DOMAIN x.chain : Undated(x.chain[i])
    /\ x.status # "unknown" => SigningJudged(x)
    /\ "HISTORY_MISMATCH" \in x.codes => x.step \in After /\ Accused(x.chain)

Sound(x) ==
    x \in Verification /\ Located(x) /\ ReadsSound(x) /\ SubCardSeen(x) /\ VerdictSound(x)

VerifierInv == ChainTypeOK /\ StartSound /\ Sound(v)

LEMMA Stays ==
    ASSUME VerifierInv, UNCHANGED <<chainVars, start>>, Sound(v')
    PROVE  VerifierInv'
<1>1. ChainTypeOK' /\ StartSound'
    BY DEF VerifierInv, ChainTypeOK, StartSound, chainVars
<1>2. Sound(v)'
    BY ZenonT(60) DEF chainVars, Sound, Located, ReadsSound, ReadSound, ChainSound, LinkSound, Since,
       SubCardSeen,
        MasterListed, VerdictSound, Undated, SigningJudged, Accused, Exists, HeadOf, Moved
<1>3. QED BY <1>1, <1>2 DEF VerifierInv

-----------------------------------------------------------------------------
(* Starting                                                                   *)

LEMMA Beginning == 0 \in 0..MaxChainDepth /\ Master \in Card /\ AppCard \in Card
BY ChainAssumption, VerifierAssumption

LEMMA IdleType == Idle \in Verification
<1>1. 0 \in 0..MaxChainDepth /\ Master \in Card
    BY Beginning
<1>2. <<>> \in Links /\ <<>> \in Seq(Nat)
    BY DEF Links
<1>3. QED BY <1>1, <1>2 DEF Verification, Idle, Answer, Links

\* A verification that has read nothing yet
LEMMA Fresh ==
    ASSUME NEW x \in Verification, x.step \in {"idle", "signer", "card"}, x.chain = <<>>,
           x.scope = "skipped", x.status = "unknown", x.codes = {}
    PROVE  Sound(x)
<1>1. DOMAIN x.chain = {}
    OBVIOUS
<1>2. QED
    BY <1>1 DEF Sound, Located, ReadsSound, ChainSound, SubCardSeen, VerdictSound,
        After, Over

LEMMA SnapshotSound ==
    ASSUME ChainTypeOK, start = Snapshot
    PROVE  StartSound
<1>1. \A c \in Card : log[c] \in Seq(Entry)
    BY DEF ChainTypeOK
<1>2. \A c \in Card : Len(log[c]) \in Nat
    BY <1>1
<1>3. pressLog \in Seq(PressStatus) /\ subCard.active \in BOOLEAN
    BY DEF ChainTypeOK, SubCardEntry
<1>4. Len(pressLog) \in Nat
    BY <1>3
<1>5. QED BY <1>2, <1>3, <1>4 DEF StartSound, Snapshot

LEMMA SnapshotTaken ==
    ASSUME ChainTypeOK, UNCHANGED chainVars, start' = Snapshot
    PROVE  StartSound'
<1>1. \A c \in Card : log[c] \in Seq(Entry)
    BY DEF ChainTypeOK
<1>2. \A c \in Card : Len(log[c]) \in Nat
    BY <1>1
<1>3. pressLog \in Seq(PressStatus) /\ subCard.active \in BOOLEAN
    BY DEF ChainTypeOK, SubCardEntry
<1>4. Len(pressLog) \in Nat
    BY <1>3
<1>5. QED BY <1>2, <1>3, <1>4 DEF StartSound, Snapshot, chainVars

LEMMA Begun ==
    ASSUME VerifierInv, NEW next \in Verification, Begin(next), next.step \in {"signer", "card"},
           next.chain = <<>>, next.scope = "skipped", next.status = "unknown", next.codes = {}
    PROVE  VerifierInv'
<1>1. StartSound' /\ ChainTypeOK'
    BY SnapshotTaken DEF VerifierInv, Begin, ChainTypeOK, chainVars
<1>2. DOMAIN v'.chain = {}
    BY DEF Begin
<1>3. Sound(v)'
    BY <1>2 DEF Begin, Sound, Located, ReadsSound, ChainSound, SubCardSeen, VerdictSound,
        After, Over
<1>4. QED BY <1>1, <1>3 DEF VerifierInv

LEMMA Begins ==
    ASSUME VerifierInv, VerifyEnvelope \/ VerifyCard \/ VerifyCardPy
    PROVE  VerifierInv'
<1>1. \A signing \in 0..now : signing \in Nat
    BY DEF VerifierInv, ChainTypeOK
<1>2. CASE VerifyEnvelope
    <2>1. PICK signing \in 0..now, appRoot \in AppRoots :
            Begin([Idle EXCEPT !.step = "signer", !.signing = signing, !.appRoot = appRoot])
        BY <1>2 DEF VerifyEnvelope
    <2> DEFINE next == [Idle EXCEPT !.step = "signer", !.signing = signing, !.appRoot = appRoot]
    <2>2. next \in Verification
        BY <1>1, IdleType, ZenonT(60) DEF Verification, Reads
    <2>3. /\ next.step = "signer" /\ next.chain = <<>> /\ next.scope = "skipped"
          /\ next.status = "unknown" /\ next.codes = {}
        BY DEF Idle
    <2> HIDE DEF next
    <2>4. QED BY <2>1, <2>2, <2>3, Begun DEF next
<1>3. CASE VerifyCard
    <2>1. PICK pubkey \in {"none", "wrong", "right"}, signing \in 0..now :
            Begin([Idle EXCEPT !.kind = "card", !.step = "card", !.pubkey = pubkey,
                               !.signing = signing])
        BY <1>3 DEF VerifyCard
    <2> DEFINE next == [Idle EXCEPT !.kind = "card", !.step = "card", !.pubkey = pubkey,
                                    !.signing = signing]
    <2>2. next \in Verification
        BY <1>1, IdleType, ZenonT(60) DEF Verification, Reads
    <2>3. /\ next.step = "card" /\ next.chain = <<>> /\ next.scope = "skipped"
          /\ next.status = "unknown" /\ next.codes = {}
        BY DEF Idle
    <2> HIDE DEF next
    <2>4. QED BY <2>1, <2>2, <2>3, Begun DEF next
<1>4. CASE VerifyCardPy
    <2>1. PICK signing \in 0..now :
            Begin([Idle EXCEPT !.kind = "card", !.port = "py", !.step = "card",
                               !.signing = signing])
        BY <1>4 DEF VerifyCardPy
    <2> DEFINE next == [Idle EXCEPT !.kind = "card", !.port = "py", !.step = "card",
                                    !.signing = signing]
    <2>2. next \in Verification
        BY <1>1, IdleType, ZenonT(60) DEF Verification, Reads
    <2>3. /\ next.step = "card" /\ next.chain = <<>> /\ next.scope = "skipped"
          /\ next.status = "unknown" /\ next.codes = {}
        BY DEF Idle
    <2> HIDE DEF next
    <2>4. QED BY <2>1, <2>2, <2>3, Begun DEF next
<1>5. QED BY <1>2, <1>3, <1>4

-----------------------------------------------------------------------------
(* Stage 2                                                                    *)

LEMMA Rejected ==
    ASSUME VerifierInv, NEW step \in Reads \ After, At(step), NEW code \in Code, Reject(code),
           code # "HISTORY_MISMATCH", step # "revocation"
    PROVE  VerifierInv'
<1>1. v' \in Verification
    BY ZenonT(60) DEF VerifierInv, Sound, Reject, Verification, Over, Answer
<1>2. /\ v'.step = "done" /\ v'.scope = "no" /\ v'.chain = v.chain /\ v'.status = v.status
      /\ v'.codes = v.codes \cup {code}
    BY DEF VerifierInv, Sound, Reject, Verification
<1>3. v.step \notin After /\ v.status = "unknown" /\ "HISTORY_MISMATCH" \notin v.codes
    BY DEF VerifierInv, Sound, VerdictSound, At
<1>4. Sound(v')
    BY <1>1, <1>2, <1>3
    DEF VerifierInv, Sound, Located, ReadsSound, SubCardSeen, VerdictSound,
        After, Over
<1>5. QED BY <1>4, Stays DEF At

\* A step that only goes on
LEMMA Hopped ==
    ASSUME VerifierInv, UNCHANGED <<chainVars, start>>, NEW step \in Reads \cup Over, Hop(step),
           v.step \in After => step \in After, step # "revocation", v.step # "revocation",
           Located(v'), SubCardSeen(v')
    PROVE  VerifierInv'
<1>1. v' \in Verification
    BY ZenonT(60) DEF VerifierInv, Sound, Hop, Verification
<1>2. /\ v'.step = step /\ v'.chain = v.chain /\ v'.status = v.status
      /\ v'.codes = v.codes /\ v'.validThen = v.validThen /\ v'.signing = v.signing
    BY DEF VerifierInv, Sound, Hop, Verification
<1>3. ReadsSound(v')
    BY <1>2 DEF VerifierInv, Sound, ReadsSound, After, Over
<1>4. VerdictSound(v')
    BY <1>2 DEF VerifierInv, Sound, VerdictSound, SigningJudged
<1>5. Sound(v')
    BY <1>1, <1>3, <1>4 DEF Sound
<1>6. QED BY <1>5, Stays

LEMMA HopFields ==
    ASSUME v \in Verification, NEW step, Hop(step)
    PROVE  /\ v'.step = step /\ v'.scope = v.scope /\ v'.current = v.current
           /\ v'.depth = v.depth
BY DEF Hop, Verification

LEMMA Heads ==
    ASSUME VerifierInv, NEW c \in Card, Exists(c)
    PROVE  /\ Len(log[c]) \in 1..Len(log[c]) /\ Len(log[c]) \in Nat \ {0}
           /\ HeadOf(c) = log[c][Len(log[c])] /\ HeadOf(c) \in Entry
           /\ Since(c, Len(log[c]))
<1>1. log[c] \in Seq(Entry) /\ start.entries[c] <= Len(log[c])
    BY DEF VerifierInv, ChainTypeOK, StartSound
<1>2. Len(log[c]) \in 1..Len(log[c])
    BY <1>1 DEF Exists
<1>3. QED BY <1>1, <1>2 DEF HeadOf, Last, Since

LEMMA SignerRead == VerifierInv /\ ReadSigner => VerifierInv'
<1> SUFFICES ASSUME VerifierInv, ReadSigner PROVE VerifierInv'
    OBVIOUS
<1>1. At("signer") /\ "signer" \in Reads \ After
    BY DEF ReadSigner, Reads, After, Over
<1>2. /\ {"CARD_NOT_FOUND", "DECRYPTION_FAILED", "ADDRESS_BINDING_MISMATCH"} \subseteq Code
    BY DEF Code
<1>3. CASE \E code \in {"CARD_NOT_FOUND", "DECRYPTION_FAILED", "ADDRESS_BINDING_MISMATCH"} :
               Reject(code)
    BY <1>1, <1>2, <1>3, Rejected
<1>4. CASE subCard.exists /\ subCard.flaw # "binding" /\ Hop("master")
    <2>1. v'.step = "master" /\ v'.scope = v.scope
        BY <1>4, HopFields DEF VerifierInv, Sound
    <2>2. Located(v') /\ SubCardSeen(v')
        BY <1>4, <2>1 DEF Located, SubCardSeen, VerifierInv, Sound
    <2>3. QED BY <1>1, <1>4, <2>2, Hopped DEF At, Reads, After, Over
<1>5. QED BY <1>3, <1>4 DEF ReadSigner

LEMMA MasterRead == VerifierInv /\ ReadMaster => VerifierInv'
<1> SUFFICES ASSUME VerifierInv, ReadMaster PROVE VerifierInv'
    OBVIOUS
<1>1. Master \in Card
    BY ChainAssumption
<1>2. At("master") /\ "master" \in Reads \ After /\ v.step = "master"
    BY DEF ReadMaster, Reads, After, Over, At
<1>3. {"CARD_NOT_FOUND", "DECRYPTION_FAILED", "SUB_CARD_NOT_IN_ACTIVE_DIRECTORY"} \subseteq Code
    BY DEF Code
<1>4. CASE \E code \in {"CARD_NOT_FOUND", "DECRYPTION_FAILED",
                        "SUB_CARD_NOT_IN_ACTIVE_DIRECTORY"} : Reject(code)
    BY <1>2, <1>3, <1>4, Rejected
<1>5. CASE /\ Exists(Master) /\ Listed(HeadOf(Master))
           /\ v' = [v EXCEPT !.step = "sub-card",
                       !.chain = <<[card |-> Master, entry |-> Len(log[Master])]>>]
    <2> DEFINE chain == <<[card |-> Master, entry |-> Len(log[Master])]>>
    <2>1. chain \in Links /\ DOMAIN chain = {1} /\ chain[1].card = Master
          /\ chain[1].entry = Len(log[Master])
        BY <1>1, <1>5, Heads DEF Links
    <2>2. v' \in Verification /\ v'.step = "sub-card" /\ v'.chain = chain
          /\ v'.scope = v.scope /\ v'.status = v.status /\ v'.codes = v.codes
        <3> HIDE DEF chain
        <3>1. v' = [v EXCEPT !.step = "sub-card", !.chain = chain]
            BY <1>5 DEF chain
        <3>2. QED BY <2>1, <3>1, ZenonT(60) DEF VerifierInv, Sound, Verification, Links, Reads
    <2>3. ChainSound(chain) /\ \A i \in DOMAIN chain : chain[i].entry # 0
        BY <1>1, <1>5, <2>1, Heads DEF ChainSound, LinkSound
    <2>4. ReadsSound(v') /\ Located(v')
        BY <1>5, <2>2, <2>3 DEF ReadsSound, Located
    <2> HIDE DEF chain
    <2>5. MasterListed
        BY <1>1, <1>5, Heads DEF MasterListed, Listed
    <2>6. Sound(v')
        BY <1>2, <2>2, <2>5, <2>4 DEF Sound, VerifierInv, SubCardSeen,
            VerdictSound, After, Over
    <2>7. QED BY <1>2, <2>6, Stays DEF At
<1>6. QED BY <1>4, <1>5 DEF ReadMaster

LEMMA SubCardRead == VerifierInv /\ ReadSubCard => VerifierInv'
<1> SUFFICES ASSUME VerifierInv, ReadSubCard PROVE VerifierInv'
    OBVIOUS
<1> DEFINE refusals == {"ADDRESS_BINDING_MISMATCH", "INVALID_HOLDER_SIGNATURE",
                        "SUB_CARD_INACTIVE", "INVALID_APP_SIGNATURE",
                        "APP_CERTIFICATION_ROOT_NOT_CONFIGURED"}
<1>1. At("sub-card") /\ "sub-card" \in Reads \ After /\ v.step = "sub-card"
    BY DEF ReadSubCard, Reads, After, Over, At
<1>2. refusals \subseteq Code
    BY DEF Code
<1>3. CASE \E code \in refusals : Reject(code)
    BY <1>1, <1>2, <1>3, Rejected
<1>4. CASE subCard.flaw \notin {"registration", "holder-signature", "app-signature"}
           /\ subCard.active /\ Hop("app-card")
    <2>1. v'.step = "app-card" /\ v'.scope = v.scope
        BY <1>4, HopFields DEF VerifierInv, Sound
    <2>2. start.active /\ subCard.exists /\ subCard.flaw # "binding" /\ MasterListed
        BY <1>1, <1>4 DEF VerifierInv, StartSound, Sound, SubCardSeen
    <2>3. subCard.flaw = "none"
        BY <1>4, <2>2 DEF VerifierInv, ChainTypeOK, SubCardEntry
    <2>4. Located(v') /\ SubCardSeen(v')
        BY <1>1, <2>1, <2>2, <2>3 DEF Located, SubCardSeen, Over, VerifierInv, Sound
    <2>5. QED BY <1>1, <1>4, <2>4, Hopped DEF At, Reads, After, Over
<1>5. QED BY <1>3, <1>4 DEF ReadSubCard, Active

\* Stage 2 is clean.
LEMMA Cleaned ==
    ASSUME VerifierInv, NEW step \in {"app-card", "app-hop"}, At(step), Clean
    PROVE  VerifierInv'
<1>1. 0 \in 0..MaxChainDepth /\ Master \in Card
    BY Beginning
<1>2. v' \in Verification /\ v'.step = "root" /\ v'.scope = "yes" /\ v'.chain = v.chain
      /\ v'.status = v.status /\ v'.codes = v.codes
    BY <1>1, ZenonT(60) DEF Clean, VerifierInv, Sound, Verification, Reads, Answer
<1>3. v.step = step /\ v.step \notin After
    BY DEF At, After, Over
<1>4. Sound(v')
    BY <1>2, <1>3 DEF VerifierInv, Sound, Located, ReadsSound, SubCardSeen, VerdictSound,
        After, Over
<1>5. QED BY <1>4, Stays DEF At

LEMMA AppCardRead == VerifierInv /\ ReadAppCard => VerifierInv'
<1> SUFFICES ASSUME VerifierInv, ReadAppCard PROVE VerifierInv'
    OBVIOUS
<1>1. At("app-card") /\ "app-card" \in Reads \ After /\ v.step = "app-card" /\ AppCard \in Card
    BY ChainAssumption DEF ReadAppCard, Reads, After, Over, At
<1>2. {"APP_CARD_CHAIN_NOT_TRUSTED", "DECRYPTION_FAILED"} \subseteq Code
    BY DEF Code
<1>3. CASE \E code \in {"APP_CARD_CHAIN_NOT_TRUSTED", "DECRYPTION_FAILED"} : Reject(code)
    BY <1>1, <1>2, <1>3, Rejected
<1>4. CASE Clean
    BY <1>1, <1>4, Cleaned
<1>5. CASE v' = [v EXCEPT !.step = "app-hop", !.current = AppCard]
    <2>1. v' \in Verification /\ v'.step = "app-hop" /\ v'.chain = v.chain
          /\ v'.scope = v.scope /\ v'.status = v.status /\ v'.codes = v.codes
        BY <1>1, <1>5, ZenonT(60) DEF VerifierInv, Sound, Verification, Reads
    <2>2. Sound(v')
        BY <1>1, <2>1
        DEF VerifierInv, Sound, Located, ReadsSound, SubCardSeen, VerdictSound,
        After, Over
    <2>3. QED BY <1>1, <2>2, Stays DEF At
<1>6. QED BY <1>3, <1>4, <1>5 DEF ReadAppCard

LEMMA AppChainWalked == VerifierInv /\ WalkAppChain => VerifierInv'
<1> SUFFICES ASSUME VerifierInv, WalkAppChain PROVE VerifierInv'
    OBVIOUS
<1> DEFINE above == parent[v.current]
<1>1. At("app-hop") /\ "app-hop" \in Reads \ After /\ v.step = "app-hop"
    BY DEF WalkAppChain, Reads, After, Over, At
<1>2. {"APP_CARD_CHAIN_NOT_TRUSTED", "DECRYPTION_FAILED"} \subseteq Code
    BY DEF Code
<1>3. CASE \E code \in {"APP_CARD_CHAIN_NOT_TRUSTED", "DECRYPTION_FAILED"} : Reject(code)
    BY <1>1, <1>2, <1>3, Rejected
<1>4. CASE Clean
    BY <1>1, <1>4, Cleaned
<1>5. CASE ~TooDeep(v.depth) /\ above # Nil
           /\ v' = [v EXCEPT !.current = above, !.depth = Deeper(@)]
    <2>1. parent \in [Card -> Card \cup {Nil}] /\ v.current \in Card /\ v.depth \in 0..MaxChainDepth
        BY ChainAssumption DEF VerifierInv, ChainTypeOK, Sound, Verification
    <2>2. above \in Card /\ v.depth + 1 \in 0..MaxChainDepth
        BY <1>5, <2>1, VerifierAssumption DEF TooDeep
    <2>3. v' \in Verification /\ v'.step = v.step /\ v'.chain = v.chain
          /\ v'.scope = v.scope /\ v'.status = v.status /\ v'.codes = v.codes
        BY <1>5, <2>2, ZenonT(60) DEF VerifierInv, Sound, Verification, Deeper
    <2>4. Sound(v')
        BY <1>1, <2>3
        DEF VerifierInv, Sound, Located, ReadsSound, SubCardSeen, VerdictSound,
        After, Over
    <2>5. QED BY <1>1, <2>4, Stays DEF At
<1>6. QED BY <1>3, <1>4, <1>5 DEF WalkAppChain

-----------------------------------------------------------------------------
(* A card, and stage 3                                                        *)

LEMMA CardRead == VerifierInv /\ ReadCard => VerifierInv'
<1> SUFFICES ASSUME VerifierInv, ReadCard PROVE VerifierInv'
    OBVIOUS
<1>1. Master \in Card
    BY ChainAssumption
<1>2. At("card") /\ v.step = "card" /\ v.status = "unknown"
    BY DEF ReadCard, At, VerifierInv, Sound, VerdictSound, After, Over
<1>3. CASE /\ Exists(Master)
           /\ v' = [v EXCEPT !.step = "card-content",
                       !.chain = <<[card |-> Master, entry |-> Len(log[Master])]>>]
    <2> DEFINE chain == <<[card |-> Master, entry |-> Len(log[Master])]>>
    <2>1. chain \in Links /\ DOMAIN chain = {1} /\ chain[1].card = Master
          /\ chain[1].entry = Len(log[Master])
        BY <1>1, <1>3, Heads DEF Links
    <2>2. v' \in Verification /\ v'.step = "card-content" /\ v'.chain = chain
          /\ v'.scope = v.scope /\ v'.status = v.status /\ v'.codes = v.codes
        <3> HIDE DEF chain
        <3>1. v' = [v EXCEPT !.step = "card-content", !.chain = chain]
            BY <1>3 DEF chain
        <3>2. QED BY <2>1, <3>1, ZenonT(60) DEF VerifierInv, Sound, Verification, Links, Reads
    <2>3. ChainSound(chain) /\ \A i \in DOMAIN chain : chain[i].entry # 0
        BY <1>1, <1>3, <2>1, Heads DEF ChainSound, LinkSound
    <2>4. ReadsSound(v') /\ Located(v')
        BY <1>3, <2>2, <2>3 DEF ReadsSound, Located
    <2> HIDE DEF chain
    <2>5. Sound(v')
        BY <1>2, <2>2, <2>4 DEF Sound, VerifierInv, SubCardSeen,
            VerdictSound, After, Over
    <2>6. QED BY <1>2, <2>5, Stays DEF At
<1>4. CASE v' = [v EXCEPT !.step = "done", !.codes = {"CARD_NOT_FOUND"}]
    <2>1. v' \in Verification /\ v'.step = "done" /\ v'.chain = v.chain
          /\ v'.scope = v.scope /\ v'.status = v.status /\ v'.codes = {"CARD_NOT_FOUND"}
        BY <1>4, ZenonT(60) DEF VerifierInv, Sound, Verification, Over, Code
    <2>2. Sound(v')
        BY <1>2, <2>1
        DEF VerifierInv, Sound, Located, ReadsSound, SubCardSeen, VerdictSound,
        After, Over
    <2>3. QED BY <1>2, <2>2, Stays DEF At
<1>5. QED BY <1>3, <1>4 DEF ReadCard

\* Stage 4 begins, with any part of a chain that is known to be sound.
LEMMA RevocationIs ==
    ASSUME VerifierInv, NEW chain \in Links
    PROVE  /\ Revocation(chain) \in Verification
           /\ Revocation(chain).step = "revocation" /\ Revocation(chain).chain = chain
           /\ Revocation(chain).entryAt = [i \in DOMAIN chain |-> 0]
           /\ Revocation(chain).logAt = [i \in DOMAIN chain |-> 0]
           /\ Revocation(chain).scope = v.scope /\ Revocation(chain).status = v.status
           /\ Revocation(chain).codes = v.codes /\ Revocation(chain).kind = v.kind
<1> DEFINE none == [i \in DOMAIN chain |-> 0]
           w == [v EXCEPT !.step = "revocation", !.chain = chain, !.fetchedAt = now]
<1>1. none \in Seq(Nat) /\ chain \in Seq([card : Card, entry : Nat]) /\ "revocation" \in Reads
    BY DEF Links, Reads
<1>2. now \in Nat /\ v \in Verification
    BY ChainAssumption DEF VerifierInv, ChainTypeOK, Sound
<1> HIDE DEF none
<1>3. w \in Verification
    BY <1>1, <1>2 DEF Verification
<1>4. Revocation(chain) = [w EXCEPT !.entryAt = none, !.logAt = none]
    BY DEF Revocation, none
<1>5. /\ w.step = "revocation" /\ w.chain = chain /\ w.scope = v.scope /\ w.status = v.status
      /\ w.codes = v.codes /\ w.kind = v.kind
    BY <1>2 DEF Verification
<1> HIDE DEF w
<1>6. QED BY <1>1, <1>3, <1>4, <1>5, ZenonT(60) DEF Verification, none

LEMMA RevocationBegun ==
    ASSUME VerifierInv, UNCHANGED <<chainVars, start>>, v.step \in Reads \ After,
           NEW chain \in Links, ChainSound(chain), v' \in Verification, Exists(Master),
           v'.step = "revocation", v'.chain = chain, v'.entryAt = [i \in DOMAIN chain |-> 0],
           v'.logAt = [i \in DOMAIN chain |-> 0], v'.scope = v.scope, v'.status = v.status,
           "HISTORY_MISMATCH" \notin v'.codes
    PROVE  VerifierInv'
<1>1. v.status = "unknown"
    BY DEF VerifierInv, Sound, VerdictSound
<1>2. Sound(v')
    BY <1>1
    DEF VerifierInv, Sound, Located, ReadsSound, ReadSound, SubCardSeen, VerdictSound,
        After, Over
<1>3. QED BY <1>2, Stays

LEMMA NoMismatchYet ==
    ASSUME VerifierInv, v.step \in Reads \ After
    PROVE  "HISTORY_MISMATCH" \notin v.codes /\ v.codes \in SUBSET Code /\ v.chain \in Links
           /\ ChainSound(v.chain) /\ v.status = "unknown"
BY DEF VerifierInv, Sound, VerdictSound, Verification, ReadsSound, Links

\* What there was of the chain is kept.
LEMMA WalkEnded ==
    ASSUME VerifierInv, UNCHANGED <<chainVars, start>>, v.step \in Walk,
           NEW reaches \in Answer, NEW more \in SUBSET (Code \ {"HISTORY_MISMATCH"}),
           v' = [Revocation(v.chain) EXCEPT !.reaches = reaches, !.codes = @ \cup more]
    PROVE  VerifierInv'
<1> DEFINE w == Revocation(v.chain)
<1>1. /\ w \in Verification /\ w.step = "revocation" /\ w.chain = v.chain
      /\ w.entryAt = [i \in DOMAIN v.chain |-> 0] /\ w.logAt = [i \in DOMAIN v.chain |-> 0]
      /\ w.scope = v.scope /\ w.status = v.status /\ w.codes = v.codes
    BY NoMismatchYet, RevocationIs DEF Walk, Reads, After, Over
<1> HIDE DEF w
<1>2. v' = [w EXCEPT !.reaches = reaches, !.codes = @ \cup more]
    BY DEF w
<1>3. v.step \in Reads \ After /\ Exists(Master)
    BY DEF Walk, Reads, After, Over, VerifierInv, Sound, Located
<1>4. w.codes \cup more \in SUBSET Code
    BY <1>1, <1>3, NoMismatchYet
<1>5. v' = [w EXCEPT !.reaches = reaches, !.codes = w.codes \cup more]
    BY <1>2
<1>6. v' \in Verification
    BY <1>1, <1>4, <1>5, ZenonT(60) DEF Verification
<1>7. /\ v'.step = "revocation" /\ v'.chain = v.chain
      /\ v'.entryAt = w.entryAt /\ v'.logAt = w.logAt /\ v'.scope = v.scope
      /\ v'.status = v.status /\ v'.codes = v.codes \cup more
    BY <1>1, <1>5, ZenonT(60) DEF Verification
<1>8. "HISTORY_MISMATCH" \notin v'.codes /\ v.chain \in Links /\ ChainSound(v.chain)
    BY <1>3, <1>7, NoMismatchYet
<1>9. QED BY <1>1, <1>3, <1>6, <1>7, <1>8, RevocationBegun

LEMMA WalkEndedSo ==
    ASSUME VerifierInv, UNCHANGED <<chainVars, start>>, v.step \in Walk,
           NEW reaches \in Answer, v' = [Revocation(v.chain) EXCEPT !.reaches = reaches]
    PROVE  VerifierInv'
<1> DEFINE w == Revocation(v.chain)
<1>1. /\ w \in Verification /\ w.step = "revocation" /\ w.chain = v.chain
      /\ w.entryAt = [i \in DOMAIN v.chain |-> 0] /\ w.logAt = [i \in DOMAIN v.chain |-> 0]
      /\ w.scope = v.scope /\ w.status = v.status /\ w.codes = v.codes
    BY NoMismatchYet, RevocationIs DEF Walk, Reads, After, Over
<1>2. v' = [w EXCEPT !.reaches = reaches]
    OBVIOUS
<1> HIDE DEF w
<1>3. v.step \in Reads \ After /\ Exists(Master)
    BY DEF Walk, Reads, After, Over, VerifierInv, Sound, Located
<1>4. /\ v' \in Verification /\ v'.step = "revocation" /\ v'.chain = v.chain
      /\ v'.entryAt = w.entryAt /\ v'.logAt = w.logAt /\ v'.scope = v.scope
      /\ v'.status = v.status /\ v'.codes = v.codes
    BY <1>1, <1>2, ZenonT(60) DEF Verification
<1>5. "HISTORY_MISMATCH" \notin v'.codes /\ v.chain \in Links /\ ChainSound(v.chain)
    BY <1>3, <1>4, NoMismatchYet
<1>6. QED BY <1>1, <1>3, <1>4, <1>5, RevocationBegun

\* What there was of it is dropped: the stub takes its place.
LEMMA StubTaken ==
    ASSUME VerifierInv, UNCHANGED <<chainVars, start>>, v.step \in Reads \ After,
           Exists(Master), v' \in Verification, v'.step = "revocation", v'.chain = Stub,
           v'.entryAt = [i \in DOMAIN Stub |-> 0], v'.logAt = [i \in DOMAIN Stub |-> 0],
           v'.scope = v.scope, v'.status = v.status, "HISTORY_MISMATCH" \notin v'.codes
    PROVE  VerifierInv'
<1>1. Stub \in Links /\ DOMAIN Stub = {1} /\ Stub[1].card = Master /\ Stub[1].entry = 0
    BY Beginning DEF Stub, Links
<1>2. ChainSound(Stub)
    BY <1>1 DEF ChainSound, LinkSound
<1>3. QED BY <1>1, <1>2, RevocationBegun

LEMMA StubIs ==
    ASSUME VerifierInv
    PROVE  /\ Revocation(Stub) \in Verification
           /\ Revocation(Stub).step = "revocation" /\ Revocation(Stub).chain = Stub
           /\ Revocation(Stub).entryAt = [i \in DOMAIN Stub |-> 0]
           /\ Revocation(Stub).logAt = [i \in DOMAIN Stub |-> 0]
           /\ Revocation(Stub).scope = v.scope /\ Revocation(Stub).status = v.status
           /\ Revocation(Stub).codes = v.codes
<1>1. Stub \in Links
    BY Beginning DEF Stub, Links
<1>2. QED BY <1>1, RevocationIs

LEMMA CardContentRead == VerifierInv /\ ReadCardContent => VerifierInv'
<1> SUFFICES ASSUME VerifierInv, ReadCardContent PROVE VerifierInv'
    OBVIOUS
<1> DEFINE w == Revocation(Stub)
           reaches == YesNo(IsRoot(Master))
<1>1. At("card-content") /\ v.step \in Reads \ After /\ UNCHANGED <<chainVars, start>>
      /\ v.step = "card-content" /\ v \in Verification
    BY DEF ReadCardContent, At, Reads, After, Over, VerifierInv, Sound
<1>2. Exists(Master)
    BY <1>1 DEF VerifierInv, Sound, Located, Over
<1>3. reaches \in Answer
    BY DEF YesNo, Answer
<1>4. /\ w \in Verification /\ w.step = "revocation" /\ w.chain = Stub
      /\ w.entryAt = [i \in DOMAIN Stub |-> 0] /\ w.logAt = [i \in DOMAIN Stub |-> 0]
      /\ w.scope = v.scope /\ w.status = v.status /\ w.codes = v.codes
    BY StubIs
<1>5. "HISTORY_MISMATCH" \notin w.codes
    BY <1>1, <1>4, NoMismatchYet
<1>6. \/ v' = [w EXCEPT !.reaches = reaches]
      \/ v' = [[w EXCEPT !.reaches = reaches] EXCEPT !.codes = {"ADDRESS_BINDING_MISMATCH"}]
      \/ v' = [[w EXCEPT !.reaches = reaches] EXCEPT !.codes = {"DECRYPTION_FAILED"}]
      \/ v' = [v EXCEPT !.step = "root", !.reaches = [w EXCEPT !.reaches = reaches].reaches]
    BY DEF ReadCardContent
<1> HIDE DEF w, reaches
<1> DEFINE asked == [w EXCEPT !.reaches = reaches]
<1>7. /\ asked \in Verification /\ asked.step = "revocation" /\ asked.chain = Stub
      /\ asked.entryAt = w.entryAt /\ asked.logAt = w.logAt /\ asked.scope = v.scope
      /\ asked.status = v.status /\ asked.codes = w.codes /\ asked.reaches = reaches
    BY <1>3, <1>4, ZenonT(60) DEF Verification
<1> HIDE DEF asked
<1>8. CASE v' = asked
    BY <1>1, <1>2, <1>4, <1>5, <1>7, <1>8, StubTaken
<1>9. ASSUME NEW code \in {"ADDRESS_BINDING_MISMATCH", "DECRYPTION_FAILED"},
             v' = [asked EXCEPT !.codes = {code}]
      PROVE  VerifierInv'
    <2>1. {code} \in SUBSET Code /\ code # "HISTORY_MISMATCH"
        BY DEF Code
    <2>2. v' \in Verification
        BY <1>7, <1>9, <2>1, ZenonT(60) DEF Verification
    <2>3. /\ v'.step = "revocation" /\ v'.chain = Stub
          /\ v'.entryAt = w.entryAt /\ v'.logAt = w.logAt /\ v'.scope = v.scope
          /\ v'.status = v.status /\ v'.codes = {code}
        BY <1>7, <1>9 DEF Verification
    <2>4. QED BY <1>1, <1>2, <1>4, <2>1, <2>2, <2>3, StubTaken
<1>10. CASE v' = [v EXCEPT !.step = "root", !.reaches = reaches]
    <2>1. v' \in Verification /\ v'.step = "root" /\ v'.chain = v.chain
          /\ v'.scope = v.scope /\ v'.status = v.status /\ v'.codes = v.codes
        BY <1>1, <1>3, <1>10, ZenonT(60) DEF Verification, Reads
    <2>2. Sound(v')
        BY <1>1, <1>2, <2>1
        DEF VerifierInv, Sound, Located, ReadsSound, SubCardSeen, VerdictSound,
        After, Over
    <2>3. QED BY <1>1, <2>2, Stays
<1>11. QED BY <1>6, <1>7, <1>8, <1>9, <1>10 DEF asked

LEMMA CardWalkThrown == VerifierInv /\ WalkThrows => VerifierInv'
<1> SUFFICES ASSUME VerifierInv, WalkThrows PROVE VerifierInv'
    OBVIOUS
<1> DEFINE w == Revocation(Stub)
<1>1. v.step \in Walk /\ v.step \in Reads \ After /\ UNCHANGED <<chainVars, start>>
      /\ Exists(Master)
    BY DEF WalkThrows, Walk, Reads, After, Over, VerifierInv, Sound, Located
<1>2. /\ w \in Verification /\ w.step = "revocation" /\ w.chain = Stub
      /\ w.entryAt = [i \in DOMAIN Stub |-> 0] /\ w.logAt = [i \in DOMAIN Stub |-> 0]
      /\ w.scope = v.scope /\ w.status = v.status
    BY StubIs
<1>3. v' = [w EXCEPT !.codes = {"DECRYPTION_FAILED"}]
    BY DEF WalkThrows
<1> HIDE DEF w
<1>4. {"DECRYPTION_FAILED"} \in SUBSET Code
    BY DEF Code
<1>5. v' \in Verification
    BY <1>2, <1>3, <1>4, ZenonT(60) DEF Verification
<1>6. /\ v'.step = "revocation" /\ v'.chain = Stub
      /\ v'.entryAt = w.entryAt /\ v'.logAt = w.logAt /\ v'.scope = v.scope
      /\ v'.status = v.status /\ v'.codes = {"DECRYPTION_FAILED"}
    BY <1>2, <1>3 DEF Verification
<1>7. QED BY <1>1, <1>2, <1>5, <1>6, StubTaken

LEMMA ChainWalked == VerifierInv /\ WalkChain => VerifierInv'
<1> SUFFICES ASSUME VerifierInv, WalkChain PROVE VerifierInv'
    OBVIOUS
<1>1. At("root") /\ v.step = "root" /\ v.step \in Walk /\ UNCHANGED <<chainVars, start>>
    BY DEF WalkChain, At, Walk
<1>2. CASE v' = [Revocation(v.chain) EXCEPT !.reaches = "no",
                                            !.codes = @ \cup {"CHAIN_DEPTH_EXCEEDED"}]
    BY <1>1, <1>2, WalkEnded DEF Answer, Code
<1>3. CASE v' = [Revocation(v.chain) EXCEPT !.reaches = YesNo(IsRoot(v.current))]
    BY <1>1, <1>3, WalkEndedSo DEF Answer, YesNo
<1>4. CASE ~TooDeep(v.depth) /\ parent[v.current] # Nil /\ Hop("next-root")
    <2>1. v'.step = "next-root" /\ v'.scope = v.scope /\ v'.current = v.current /\ v'.depth = v.depth
        BY <1>4, HopFields DEF VerifierInv, Sound
    <2>2. Located(v') /\ SubCardSeen(v')
        BY <1>1, <1>4, <2>1 DEF Located, SubCardSeen, VerifierInv, Sound, TooDeep, Over
    <2>3. QED BY <1>1, <1>4, <2>2, Hopped DEF Reads, After, Over
<1>5. QED BY <1>2, <1>3, <1>4 DEF WalkChain

LEMMA NextRootAsked == VerifierInv /\ AskNextRoot => VerifierInv'
<1> SUFFICES ASSUME VerifierInv, AskNextRoot PROVE VerifierInv'
    OBVIOUS
<1>1. At("next-root") /\ v.step = "next-root" /\ v.step \in Walk /\ UNCHANGED <<chainVars, start>>
    BY DEF AskNextRoot, At, Walk
<1>2. CASE v' = [Revocation(v.chain) EXCEPT !.reaches = "yes"]
    BY <1>1, <1>2, WalkEndedSo DEF Answer
<1>3. CASE Hop("ancestor")
    <2>1. v'.step = "ancestor" /\ v'.scope = v.scope /\ v'.current = v.current /\ v'.depth = v.depth
        BY <1>3, HopFields DEF VerifierInv, Sound
    <2>2. Located(v') /\ SubCardSeen(v')
        BY <1>1, <2>1 DEF Located, SubCardSeen, VerifierInv, Sound, Over
    <2>3. QED BY <1>1, <1>3, <2>2, Hopped DEF Reads, After, Over
<1>4. QED BY <1>2, <1>3 DEF AskNextRoot

LEMMA AncestorRead == VerifierInv /\ ReadAncestor => VerifierInv'
<1> SUFFICES ASSUME VerifierInv, ReadAncestor PROVE VerifierInv'
    OBVIOUS
<1> DEFINE above == parent[v.current]
<1>1. At("ancestor") /\ v.step = "ancestor" /\ v.step \in Walk /\ UNCHANGED <<chainVars, start>>
    BY DEF ReadAncestor, At, Walk
<1>2. v \in Verification /\ v.status = "unknown" /\ "HISTORY_MISMATCH" \notin v.codes
      /\ v.codes \subseteq Code
    BY <1>1, NoMismatchYet DEF VerifierInv, Sound, Walk, Reads, After, Over
<1>3. parent \in [Card -> Card \cup {Nil}] /\ v.current \in Card /\ v.depth \in 0..MaxChainDepth
    BY <1>2, ChainAssumption DEF VerifierInv, ChainTypeOK, Verification
<1>4. above \in Card /\ v.depth + 1 \in 0..MaxChainDepth
    <2>1. above # Nil /\ v.depth # MaxChainDepth
        BY <1>1 DEF VerifierInv, Sound, Located
    <2>2. QED BY <1>3, <2>1, VerifierAssumption
<1>5. CASE v' = [Revocation(v.chain) EXCEPT !.reaches = "no", !.codes = @ \cup {"CARD_NOT_FOUND"}]
    BY <1>1, <1>5, WalkEnded DEF Answer, Code
<1>6. CASE v' = [Revocation(v.chain) EXCEPT !.reaches = "no",
                                            !.codes = @ \cup {"DECRYPTION_FAILED"}]
    BY <1>1, <1>6, WalkEnded DEF Answer, Code
<1>7. CASE v' = [[v EXCEPT !.step = "done"] EXCEPT !.reaches = "no",
                                                   !.codes = @ \cup {"DECRYPTION_FAILED"}]
    <2>1. v.codes \cup {"DECRYPTION_FAILED"} \in SUBSET Code /\ "no" \in Answer
        BY <1>2 DEF Code, Answer
    <2>2. v' = [v EXCEPT !.step = "done", !.reaches = "no",
                         !.codes = v.codes \cup {"DECRYPTION_FAILED"}]
        BY <1>2, <1>7 DEF Verification
    <2>3. v' \in Verification /\ v'.step = "done" /\ v'.chain = v.chain /\ v'.scope = v.scope
          /\ v'.status = v.status /\ v'.codes = v.codes \cup {"DECRYPTION_FAILED"}
        BY <1>2, <2>1, <2>2, ZenonT(60) DEF Verification, Over
    <2>4. Sound(v')
        BY <1>2, <2>3
        DEF VerifierInv, Sound, Located, ReadsSound, SubCardSeen, VerdictSound,
        After, Over
    <2>5. QED BY <1>1, <2>4, Stays
<1>8. CASE /\ Exists(above) /\ HeadOf(above).readable
           /\ v' = [v EXCEPT !.step = "root", !.current = above, !.depth = Deeper(@),
                             !.chain = Append(@, [card |-> above, entry |-> Len(log[above])])]
    <2> DEFINE chain == Append(v.chain, [card |-> above, entry |-> Len(log[above])])
    <2>1. v.chain \in Links /\ Len(log[above]) \in Nat \ {0} /\ Since(above, Len(log[above]))
          /\ ChainSound(v.chain)
        BY <1>2, <1>4, <1>8, Heads DEF Verification, Links, VerifierInv, Sound, ReadsSound
    <2>2. /\ Len(chain) = Len(v.chain) + 1 /\ DOMAIN chain = 1..Len(chain)
          /\ chain[Len(chain)].card = above /\ chain[Len(chain)].entry = Len(log[above])
          /\ \A i \in DOMAIN v.chain : chain[i] = v.chain[i]
          /\ chain \in Links
        BY <1>4, <2>1 DEF Links
    <2>3. \A i \in DOMAIN chain : i \in DOMAIN v.chain \/ i = Len(chain)
        BY <2>1, <2>2 DEF Links
    <2> HIDE DEF chain
    <2>4. \A i \in DOMAIN chain : LinkSound(chain[i]) /\ chain[i].entry # 0
        <3>1. \A i \in DOMAIN v.chain : LinkSound(v.chain[i]) /\ v.chain[i].entry # 0
            BY <1>1 DEF VerifierInv, Sound, ReadsSound, ChainSound, After, Over
        <3>2. LinkSound(chain[Len(chain)]) /\ chain[Len(chain)].entry # 0
            BY <1>8, <2>1, <2>2 DEF LinkSound
        <3>3. QED BY <2>2, <2>3, <3>1, <3>2
    <2>5. v' = [v EXCEPT !.step = "root", !.current = above, !.depth = v.depth + 1, !.chain = chain]
        BY <1>2, <1>8 DEF chain, Deeper, Verification
    <2>6. v' \in Verification /\ v'.step = "root" /\ v'.chain = chain /\ v'.scope = v.scope
          /\ v'.status = v.status /\ v'.codes = v.codes
        BY <1>2, <1>4, <2>2, <2>5, ZenonT(60) DEF Verification, Links, Reads
    <2>7. Sound(v')
        BY <1>1, <1>2, <2>4, <2>6 DEF VerifierInv, Sound, Located, ReadsSound, ChainSound,
            SubCardSeen, VerdictSound, After, Over
    <2>8. QED BY <1>1, <2>7, Stays
<1>9. QED BY <1>5, <1>6, <1>7, <1>8 DEF ReadAncestor

-----------------------------------------------------------------------------
(* Stage 4                                                                    *)

LEMMA ElementOf == ASSUME NEW S, NEW s \in Seq(S), NEW i \in DOMAIN s PROVE s[i] \in S
OBVIOUS

LEMMA LinkType ==
    ASSUME NEW chain \in Links, NEW i \in DOMAIN chain
    PROVE  chain[i].card \in Card /\ chain[i].entry \in Nat
<1>1. chain[i] \in [card : Card, entry : Nat]
    BY ElementOf DEF Links
<1>2. QED BY <1>1

LEMMA RevocationsRead == VerifierInv /\ ReadRevocations => VerifierInv'
<1> SUFFICES ASSUME VerifierInv, ReadRevocations PROVE VerifierInv'
    OBVIOUS
<1>1. At("revocation") /\ v.step = "revocation" /\ UNCHANGED <<chainVars, start>>
      /\ v \in Verification
    BY DEF ReadRevocations, At, VerifierInv, Sound
<1>2. PICK i \in DOMAIN v.chain : ReadEntry(i) \/ ReadEventLog(i)
    BY DEF ReadRevocations
<1> DEFINE n == Len(log[v.chain[i].card])
<1>3. v.chain \in Links /\ v.chain[i].card \in Card /\ LinkSound(v.chain[i])
    <2>1. v.chain \in Links
        BY <1>1 DEF Verification, Links
    <2>2. v.chain[i].card \in Card
        BY <1>2, <2>1, LinkType
    <2>3. QED BY <1>2, <2>1, <2>2 DEF VerifierInv, Sound, ReadsSound, ChainSound
<1>4. n \in Nat /\ Since(v.chain[i].card, n)
    BY <1>3, Heads DEF LinkSound
<1> HIDE DEF n
<1>5. /\ v.entryAt \in Seq(Nat) /\ v.logAt \in Seq(Nat) /\ ReadSound(v.chain, v.entryAt)
      /\ ReadSound(v.chain, v.logAt)
    BY <1>1 DEF Verification, VerifierInv, Sound, ReadsSound
<1>6. ASSUME NEW reads \in Seq(Nat), ReadSound(v.chain, reads)
      PROVE  [reads EXCEPT ![i] = n] \in Seq(Nat) /\ ReadSound(v.chain, [reads EXCEPT ![i] = n])
    <2>1. i \in DOMAIN reads
        BY <1>2, <1>6 DEF ReadSound
    <2>2. [reads EXCEPT ![i] = n] \in Seq(Nat)
        BY <1>4, <2>1
    <2>3. QED BY <1>4, <1>6, <2>1, <2>2 DEF ReadSound
<1>7. CASE ReadEntry(i)
    <2> DEFINE reads == [v.entryAt EXCEPT ![i] = n]
    <2>1. reads \in Seq(Nat) /\ ReadSound(v.chain, reads)
        BY <1>5, <1>6
    <2>2. v' = [v EXCEPT !.entryAt = reads]
        BY <1>1, <1>7 DEF ReadEntry, n, Verification
    <2> HIDE DEF reads
    <2>3. v' \in Verification /\ v'.step = v.step /\ v'.chain = v.chain /\ v'.entryAt = reads
          /\ v'.logAt = v.logAt /\ v'.scope = v.scope /\ v'.status = v.status /\ v'.codes = v.codes
        BY <1>1, <2>1, <2>2, ZenonT(60) DEF Verification
    <2>4. Sound(v')
        BY <1>1, <1>5, <2>1, <2>3 DEF VerifierInv, Sound, Located, ReadsSound, SubCardSeen,
            VerdictSound, After, Over
    <2>5. QED BY <1>1, <2>4, Stays
<1>8. CASE ReadEventLog(i)
    <2> DEFINE reads == [v.logAt EXCEPT ![i] = n]
    <2>1. reads \in Seq(Nat) /\ ReadSound(v.chain, reads)
        BY <1>5, <1>6
    <2>2. v' = [v EXCEPT !.logAt = reads]
        BY <1>1, <1>8 DEF ReadEventLog, n, Verification
    <2> HIDE DEF reads
    <2>3. v' \in Verification /\ v'.step = v.step /\ v'.chain = v.chain /\ v'.logAt = reads
          /\ v'.entryAt = v.entryAt /\ v'.scope = v.scope /\ v'.status = v.status
          /\ v'.codes = v.codes
        BY <1>1, <2>1, <2>2 DEF Verification
    <2>4. Sound(v')
        BY <1>1, <1>5, <2>1, <2>3 DEF VerifierInv, Sound, Located, ReadsSound, SubCardSeen,
            VerdictSound, After, Over
    <2>5. QED BY <1>1, <2>4, Stays
<1>9. QED BY <1>2, <1>7, <1>8

LEMMA LeastDate ==
    ASSUME NEW S \in SUBSET Nat, S # {}
    PROVE  \E m \in S : \A n \in S : m <= n
<1> DEFINE less == {pair \in Nat \X Nat : pair[1] < pair[2]}
<1>1. IsWellFoundedOn(less, Nat)
    BY NatLessThanWellFounded DEF OpToRel
<1> HIDE DEF less
<1>2. S \subseteq Nat
    OBVIOUS
<1>3. \E m \in S : \A n \in S : ~(<<n, m>> \in less)
    BY <1>1, <1>2, WFMin, Zenon
<1>4. PICK m \in S : \A n \in S : ~(<<n, m>> \in less)
    BY <1>3
<1>5. ASSUME NEW n \in S PROVE m <= n
    <2>1. <<n, m>> \in Nat \X Nat /\ n \in Nat /\ m \in Nat
        BY <1>2
    <2>2. ~(n < m)
        BY <1>4, <2>1 DEF less
    <2>3. QED BY <2>1, <2>2
<1>6. QED BY <1>5

LEMMA EarliestIs ==
    ASSUME NEW S \in SUBSET Nat, S # {}
    PROVE  Earliest(S) \in S /\ \A e \in S : Earliest(S) <= e
<1>1. \E d \in S : \A e \in S : d <= e
    BY LeastDate
<1>2. QED BY <1>1 DEF Earliest

\* What the verdict is passed on: together the reads of a card are a look at it.
LEMMA LinkRead ==
    ASSUME VerifierInv, v.step = "revocation", NEW i \in DOMAIN v.chain,
           v.entryAt[i] # 0, v.logAt[i] # 0
    PROVE  /\ v.chain[i].card \in Card
           /\ log[v.chain[i].card][v.entryAt[i]] \in Entry
           /\ HasContent(i) => Since(v.chain[i].card, v.chain[i].entry) /\ ContentOf(i) \in Entry
                               /\ EffectiveDate(i) \in Nat \cup {Nil}
           /\ ~HeadHasEvent(i) => EffectiveDate(i) = ContentOf(i).reported
           /\ HeadHasEvent(i) => EffectiveDate(i) \in Nat
           /\ ~Moved(v.chain[i].card) =>
                 /\ HeadHasEvent(i)
                 /\ HasContent(i) =>
                       /\ v.chain[i].entry = v.logAt[i] /\ v.entryAt[i] = v.logAt[i]
                       /\ ContentOf(i) = HeadOf(v.chain[i].card)
                       /\ EffectiveDate(i) = HeadOf(v.chain[i].card).at
<1> DEFINE c == v.chain[i].card
<1>1. v \in Verification /\ v.chain \in Links
    BY DEF VerifierInv, Sound, Verification, Links
<1>2. c \in Card
    BY <1>1, LinkType
<1>3. LinkSound(v.chain[i]) /\ Since(c, v.entryAt[i]) /\ Since(c, v.logAt[i])
    BY DEF VerifierInv, Sound, ReadsSound, ReadSound, ChainSound
<1>4. log[c] \in Seq(Entry) /\ start.entries[c] \in Nat
    BY <1>2 DEF VerifierInv, ChainTypeOK, StartSound
<1> HIDE DEF c
<1>5. log[c][v.entryAt[i]] \in Entry
    BY <1>3, <1>4 DEF Since
<1>6. HasContent(i) => Since(c, v.chain[i].entry)
    BY <1>3 DEF HasContent, LinkSound, c
<1>7. HasContent(i) => ContentOf(i) \in Entry
    BY <1>4, <1>6, SMTT(30) DEF ContentOf, Since, c
<1>8. HeadHasEvent(i) => EffectiveDate(i) \in Nat /\ EffectiveDate(i) = log[c][v.entryAt[i]].at
    BY <1>5 DEF EffectiveDate, Entry, c
<1>9. ~HeadHasEvent(i) => EffectiveDate(i) = ContentOf(i).reported
    BY DEF EffectiveDate
<1>10. HasContent(i) => EffectiveDate(i) \in Nat \cup {Nil}
    BY <1>7, <1>8, <1>9 DEF Entry
<1>11. ASSUME ~Moved(c)
       PROVE  /\ v.entryAt[i] = Len(log[c]) /\ v.logAt[i] = Len(log[c])
              /\ HasContent(i) => v.chain[i].entry = Len(log[c])
    <2>1. start.entries[c] = Len(log[c]) /\ Len(log[c]) \in Nat
        BY <1>4, <1>11 DEF Moved
    <2>2. QED BY <1>3, <1>6, <2>1 DEF Since
<1>12. ASSUME ~Moved(c) PROVE HeadHasEvent(i)
    BY <1>4, <1>11, <1>12 DEF HeadHasEvent
<1>13. ASSUME ~Moved(c), HasContent(i)
       PROVE  ContentOf(i) = HeadOf(c) /\ EffectiveDate(i) = HeadOf(c).at
    BY <1>8, <1>11, <1>12, <1>13 DEF ContentOf, HeadOf, Last, c
<1>14. QED BY <1>2, <1>5, <1>6, <1>7, <1>8, <1>9, <1>10, <1>11, <1>12, <1>13 DEF c

LEMMA RevocationJudged == VerifierInv /\ JudgeRevocation => VerifierInv'
<1> SUFFICES ASSUME VerifierInv, JudgeRevocation PROVE VerifierInv'
    OBVIOUS
<1> DEFINE stale == now - v.fetchedAt > FreshnessWindow
           codes == {code \in Code :
                       \/ code = "HISTORY_MISMATCH" /\ \E i \in DOMAIN v.chain : Mismatch(i)
                       \/ /\ code = "NO_ONCHAIN_EVENT_FOR_HEAD"
                          /\ \E i \in DOMAIN v.chain : Revoked(i) /\ ~HeadHasEvent(i)
                       \/ code = "STALE_REVOCATION_DATA" /\ stale}
           onward == IF v.kind = "card" THEN "annotate" ELSE "press"
           next == [v EXCEPT !.step = onward, !.codes = v.codes \cup codes]
           date == Earliest({EffectiveDate(i) : i \in Revocations})
<1>1. At("revocation") /\ v.step = "revocation" /\ UNCHANGED <<chainVars, start>>
      /\ v \in Verification /\ v.chain \in Links /\ ChainSound(v.chain)
    BY DEF JudgeRevocation, At, VerifierInv, Sound, Verification, Links, ReadsSound
<1>2. \A i \in DOMAIN v.chain : v.entryAt[i] # 0 /\ v.logAt[i] # 0
    BY DEF JudgeRevocation
<1>3. v.status = "unknown" /\ "HISTORY_MISMATCH" \notin v.codes /\ v.codes \subseteq Code
    BY <1>1, NoMismatchYet DEF Reads, After, Over
<1>4. \/ /\ \A i \in DOMAIN v.chain : ~HasContent(i)
         /\ v' = next
      \/ /\ \E i \in DOMAIN v.chain : HasContent(i)
         /\ Revocations = {}
         /\ v' = [next EXCEPT !.status = "not_revoked", !.validThen = "yes",
                              !.validNow = YesNo(~stale)]
      \/ /\ Revocations # {}
         /\ v' = [next EXCEPT !.status = "revoked", !.effective = date,
                              !.validThen = YesNo(v.signing < date),
                              !.validNow = YesNo(now < date /\ ~stale)]
    BY <1>1 DEF JudgeRevocation, Verification
<1>5. codes \subseteq Code
    OBVIOUS
<1>6. "HISTORY_MISMATCH" \in codes => \E i \in DOMAIN v.chain : Mismatch(i)
    OBVIOUS
<1> HIDE DEF codes, stale
<1>7. /\ next \in Verification /\ next.step \in {"annotate", "press"} /\ next.chain = v.chain
      /\ next.scope = v.scope /\ next.status = "unknown" /\ next.codes = v.codes \cup codes
      /\ next.signing = v.signing
    BY <1>1, <1>3, <1>5, ZenonT(60) DEF Verification, Reads
<1> HIDE DEF next
<1>8. "HISTORY_MISMATCH" \in next.codes => Accused(v.chain)
    <2> SUFFICES ASSUME NEW i \in DOMAIN v.chain, Mismatch(i), ~Moved(v.chain[i].card)
                 PROVE  ~HeadOf(v.chain[i].card).honest
        BY <1>3, <1>6, <1>7 DEF Accused
    <2>1. HasContent(i)
        BY DEF Mismatch, Updated
    <2>2. QED BY <1>1, <1>2, <2>1, LinkRead DEF Mismatch, HistoryMatches
<1>9. \A i \in DOMAIN v.chain :
         /\ Revoked(i) => EffectiveDate(i) \in Nat \cup {Nil}
    BY <1>1, <1>2, LinkRead DEF Revoked
\* Sound whatever is answered, as long as the answer is right.
<1>10. ASSUME NEW x \in Verification, x.step = next.step, x.chain = v.chain, x.scope = v.scope,
              x.codes = next.codes, v' = x,
              x.status = "not_revoked" => \A i \in DOMAIN v.chain : Undated(v.chain[i]),
              x.status # "unknown" => SigningJudged(x)
       PROVE  VerifierInv'
    <2>1. Located(x) /\ ReadsSound(x) /\ SubCardSeen(x)
        BY <1>1, <1>7, <1>10
        DEF VerifierInv, Sound, Located, ReadsSound, SubCardSeen, After, Over
    <2>2. VerdictSound(x)
        BY <1>7, <1>8, <1>10 DEF VerdictSound, After, Over
    <2>3. Sound(v')
        BY <1>10, <2>1, <2>2 DEF Sound
    <2>4. QED BY <1>1, <2>3, Stays
<1>11. CASE v' = next
    BY <1>7, <1>10, <1>11
<1>12. CASE /\ \E i \in DOMAIN v.chain : HasContent(i)
            /\ Revocations = {}
            /\ v' = [next EXCEPT !.status = "not_revoked", !.validThen = "yes",
                                 !.validNow = YesNo(~stale)]
    <2>1. \A i \in DOMAIN v.chain : HasContent(i)
        <3>1. v.chain = Stub => DOMAIN v.chain = {1} /\ v.chain[1].entry = 0
            BY DEF Stub
        <3>2. QED BY <1>1, <1>12, <3>1 DEF ChainSound, HasContent
    <2>2. \A i \in DOMAIN v.chain : Revoked(i) => EffectiveDate(i) = Nil
        BY <1>12 DEF Revocations
    <2>3. ASSUME NEW i \in DOMAIN v.chain PROVE Undated(v.chain[i])
        <3>1. Since(v.chain[i].card, v.chain[i].entry)
            BY <1>1, <1>2, <2>1, LinkRead
        <3>2. ContentOf(i).kind # "revocation" \/ ContentOf(i).reported = Nil
            BY <1>1, <1>2, <2>1, <2>2, LinkRead, ChainAssumption DEF Revoked
        <3>3. QED BY <3>1, <3>2 DEF Undated, Since, ContentOf
    <2>4. YesNo(~stale) \in Answer /\ "yes" \in Answer
        BY DEF YesNo, Answer
    <2>5. /\ v' \in Verification /\ v'.step = next.step /\ v'.chain = v.chain /\ v'.scope = v.scope
          /\ v'.codes = next.codes /\ v'.status = "not_revoked" /\ v'.validThen = "yes"
        BY <1>7, <1>12, <2>4, ZenonT(60) DEF Verification
    <2>6. ASSUME NEW i \in DOMAIN v.chain, ~Moved(v.chain[i].card)
          PROVE  HeadOf(v.chain[i].card).kind # "revocation"
        <3>1. HeadHasEvent(i) /\ ContentOf(i) = HeadOf(v.chain[i].card)
            BY <1>1, <1>2, <2>1, <2>6, LinkRead
        <3>2. EffectiveDate(i) \in Nat
            BY <1>1, <1>2, <3>1, LinkRead
        <3>3. QED BY <2>1, <2>2, <3>1, <3>2, ChainAssumption DEF Revoked
    <2>7. SigningJudged(v')
        BY <2>5, <2>6 DEF SigningJudged
    <2>8. QED BY <1>10, <2>3, <2>5, <2>7
<1>13. CASE /\ Revocations # {}
            /\ v' = [next EXCEPT !.status = "revoked", !.effective = date,
                                 !.validThen = YesNo(v.signing < date),
                                 !.validNow = YesNo(now < date /\ ~stale)]
    <2> DEFINE dates == {EffectiveDate(i) : i \in Revocations}
    <2>1. dates \in SUBSET Nat /\ dates # {}
        <3>1. \A i \in Revocations : EffectiveDate(i) \in Nat
            BY <1>9 DEF Revocations
        <3>2. QED BY <1>13, <3>1
    <2>2. date \in dates /\ \A e \in dates : date <= e
        BY <2>1, EarliestIs
    <2>3. date \in Nat
        BY <2>1, <2>2
    <2>4. \A i \in Revocations : date <= EffectiveDate(i) /\ EffectiveDate(i) \in Nat
        BY <2>1, <2>2
    <2>5. \E i \in Revocations : date = EffectiveDate(i)
        BY <2>2
    <2> HIDE DEF date, dates
    <2>6. YesNo(v.signing < date) \in Answer /\ YesNo(now < date /\ ~stale) \in Answer
        BY DEF YesNo, Answer
    <2>7. /\ v' \in Verification /\ v'.step = next.step /\ v'.chain = v.chain /\ v'.scope = v.scope
          /\ v'.codes = next.codes /\ v'.status = "revoked" /\ v'.signing = v.signing
          /\ v'.validThen = YesNo(v.signing < date)
        BY <1>7, <1>13, <2>3, <2>6, ZenonT(60) DEF Verification
    <2>8. ASSUME \A i \in DOMAIN v.chain : ~Moved(v.chain[i].card)
          PROVE  v.signing < date <=> \A i \in DOMAIN v.chain :
                    LET head == HeadOf(v.chain[i].card) IN
                    head.kind = "revocation" => v.signing < head.at
        <3>1. v.signing \in Nat
            BY <1>1 DEF Verification
        <3>2. \A i \in DOMAIN v.chain : HasContent(i)
            <4>1. v.chain = Stub => DOMAIN v.chain = {1} /\ v.chain[1].entry = 0
                BY DEF Stub
            <4>2. \E i \in DOMAIN v.chain : HasContent(i)
                BY <1>13 DEF Revocations, Revoked
            <4>3. QED BY <1>1, <4>1, <4>2 DEF ChainSound, HasContent
        <3>3. \A i \in DOMAIN v.chain :
                 /\ EffectiveDate(i) = HeadOf(v.chain[i].card).at /\ EffectiveDate(i) \in Nat
                 /\ ContentOf(i) = HeadOf(v.chain[i].card)
            BY <1>1, <1>2, <2>8, <3>2, LinkRead
        <3>4. \A i \in DOMAIN v.chain :
                 i \in Revocations <=> HeadOf(v.chain[i].card).kind = "revocation"
            BY <3>2, <3>3, ChainAssumption DEF Revocations, Revoked
        <3>5. ASSUME v.signing < date, NEW i \in DOMAIN v.chain,
                     HeadOf(v.chain[i].card).kind = "revocation"
              PROVE  v.signing < HeadOf(v.chain[i].card).at
            BY <2>3, <2>4, <3>1, <3>3, <3>4, <3>5
        <3>6. ASSUME \A i \in DOMAIN v.chain : HeadOf(v.chain[i].card).kind = "revocation" =>
                         v.signing < HeadOf(v.chain[i].card).at
              PROVE  v.signing < date
            <4>1. PICK i \in Revocations : date = EffectiveDate(i)
                BY <2>5
            <4>2. i \in DOMAIN v.chain
                BY DEF Revocations
            <4>3. QED BY <3>3, <3>4, <3>6, <4>1, <4>2
        <3>7. QED BY <3>5, <3>6
    <2>9. SigningJudged(v')
        BY <2>7, <2>8 DEF SigningJudged, YesNo
    <2>10. QED BY <1>10, <2>7, <2>9
<1>14. QED BY <1>4, <1>11, <1>12, <1>13

-----------------------------------------------------------------------------
(* Stages 5 and 6, and failure                                                *)

\* After the verdict only what the verdict does not rest on changes.
LEMMA Annotated ==
    ASSUME VerifierInv, UNCHANGED <<chainVars, start>>, v.step \in After,
           v' \in Verification, v'.step \in After, v'.chain = v.chain, v'.scope = v.scope,
           v'.status = v.status, v'.validThen = v.validThen, v'.signing = v.signing,
           "HISTORY_MISMATCH" \in v'.codes => "HISTORY_MISMATCH" \in v.codes,
           Located(v')
    PROVE  VerifierInv'
<1>1. ReadsSound(v') /\ SubCardSeen(v')
    BY DEF VerifierInv, Sound, ReadsSound, SubCardSeen, After, Over
<1>2. VerdictSound(v')
    BY DEF VerifierInv, Sound, VerdictSound, SigningJudged
<1>3. QED BY <1>1, <1>2, Stays DEF Sound

LEMMA PressRead == VerifierInv /\ ReadPress => VerifierInv'
<1> SUFFICES ASSUME VerifierInv, ReadPress PROVE VerifierInv'
    OBVIOUS
<1> DEFINE revoked == (Last(pressLog) = "inactive")
<1>1. At("press") /\ v.step = "press" /\ v.step \in After /\ UNCHANGED <<chainVars, start>>
      /\ v \in Verification /\ Exists(Master) /\ v.codes \subseteq Code
    BY DEF ReadPress, At, After, VerifierInv, Sound, Located, Over, Verification
<1>2. revoked \in BOOLEAN
    OBVIOUS
<1>3. \/ v' = [v EXCEPT !.step = "annotate", !.compliant = Nil,
                        !.codes = v.codes \cup {"POLICY_FETCH_FAILED"}]
      \/ v' = [v EXCEPT !.step = "report", !.compliant = "no", !.pressRevoked = revoked]
      \/ v' = [v EXCEPT !.step = "annotate", !.compliant = "yes", !.pressRevoked = revoked]
    BY <1>1 DEF ReadPress, Verification
<1> HIDE DEF revoked
<1>4. v.codes \cup {"POLICY_FETCH_FAILED"} \subseteq Code
    BY <1>1 DEF Code
<1> DEFINE kept == /\ v' \in Verification /\ v'.step \in {"annotate", "report"}
                   /\ v'.chain = v.chain /\ v'.scope = v.scope /\ v'.status = v.status
                   /\ v'.validThen = v.validThen /\ v'.signing = v.signing
                   /\ v'.codes \subseteq v.codes \cup {"POLICY_FETCH_FAILED"}
<1>5. kept
    <2>1. "annotate" \in Reads /\ "report" \in Reads /\ {"no", "yes"} \subseteq Answer
        BY DEF Reads, Answer
    <2>2. CASE v' = [v EXCEPT !.step = "annotate", !.compliant = Nil,
                              !.codes = v.codes \cup {"POLICY_FETCH_FAILED"}]
        BY <1>1, <1>4, <2>1, <2>2, ZenonT(60) DEF Verification
    <2>3. CASE v' = [v EXCEPT !.step = "report", !.compliant = "no", !.pressRevoked = revoked]
        BY <1>1, <1>2, <2>1, <2>3, ZenonT(60) DEF Verification
    <2>4. CASE v' = [v EXCEPT !.step = "annotate", !.compliant = "yes", !.pressRevoked = revoked]
        BY <1>1, <1>2, <2>1, <2>4, ZenonT(60) DEF Verification
    <2>5. QED BY <1>3, <2>2, <2>3, <2>4
<1>6. Located(v')
    BY <1>1, <1>5 DEF Located
<1>7. QED BY <1>1, <1>5, <1>6, Annotated DEF After

LEMMA NonComplianceReported == VerifierInv /\ ReportNonCompliance => VerifierInv'
<1> SUFFICES ASSUME VerifierInv, ReportNonCompliance PROVE VerifierInv'
    OBVIOUS
<1>1. At("report") /\ v.step = "report" /\ v.step \in After /\ UNCHANGED <<chainVars, start>>
      /\ v \in Verification /\ Exists(Master) /\ v.codes \subseteq Code
    BY DEF ReportNonCompliance, At, After, VerifierInv, Sound, Located, Over, Verification
<1>2. v.codes \cup {"NON_COMPLIANCE_REPORT_FAILED"} \subseteq Code
    BY <1>1 DEF Code
<1>3. \/ v' = [v EXCEPT !.step = "annotate", !.reported = TRUE]
      \/ v' = [v EXCEPT !.step = "annotate",
                        !.codes = v.codes \cup {"NON_COMPLIANCE_REPORT_FAILED"}]
    BY <1>1 DEF ReportNonCompliance, Verification
<1>4. /\ v' \in Verification /\ v'.step = "annotate" /\ v'.chain = v.chain
      /\ v'.scope = v.scope /\ v'.status = v.status /\ v'.validThen = v.validThen
      /\ v'.signing = v.signing /\ v'.codes \subseteq v.codes \cup {"NON_COMPLIANCE_REPORT_FAILED"}
    BY <1>1, <1>2, <1>3, ZenonT(120) DEF Verification, Reads
<1>5. Located(v')
    BY <1>1, <1>4 DEF Located
<1>6. QED BY <1>1, <1>4, <1>5, Annotated DEF After

LEMMA AnnotationsRead == VerifierInv /\ Annotate => VerifierInv'
<1> SUFFICES ASSUME VerifierInv, Annotate PROVE VerifierInv'
    OBVIOUS
<1> DEFINE root == IsRoot(AppCard)
<1>1. At("annotate") /\ v.step = "annotate" /\ v.step \in After /\ UNCHANGED <<chainVars, start>>
      /\ v \in Verification
    BY DEF Annotate, At, After, VerifierInv, Sound
<1>2. root \in BOOLEAN
    BY DEF IsRoot
<1>3. v' = [v EXCEPT !.step = "done", !.annotator = root] \/ v' = [v EXCEPT !.step = "done"]
    BY DEF Annotate, Hop
<1> HIDE DEF root
<1>4. /\ v' \in Verification /\ v'.step = "done" /\ v'.chain = v.chain
      /\ v'.scope = v.scope /\ v'.status = v.status /\ v'.validThen = v.validThen
      /\ v'.signing = v.signing /\ v'.codes = v.codes
    BY <1>1, <1>2, <1>3, ZenonT(60) DEF Verification, Over
<1>5. Located(v') /\ "done" \in After
    BY <1>4 DEF Located, After, Over
<1>6. QED BY <1>1, <1>4, <1>5, Annotated

LEMMA Thrown == VerifierInv /\ Throw => VerifierInv'
<1> SUFFICES ASSUME VerifierInv, Throw PROVE VerifierInv'
    OBVIOUS
<1>1. UNCHANGED <<chainVars, start>> /\ v \in Verification /\ v' = [v EXCEPT !.step = "threw"]
    BY DEF Throw, VerifierInv, Sound
<1>2. /\ v' \in Verification /\ v'.step = "threw" /\ v'.chain = v.chain
      /\ v'.scope = v.scope /\ v'.status = v.status /\ v'.validThen = v.validThen
      /\ v'.signing = v.signing /\ v'.codes = v.codes
    BY <1>1, ZenonT(60) DEF Verification, Over
<1>3. Located(v') /\ SubCardSeen(v') /\ ReadsSound(v')
    BY <1>2 DEF VerifierInv, Sound, Located, SubCardSeen, ReadsSound, After, Over
<1>4. VerdictSound(v')
    BY <1>2 DEF VerifierInv, Sound, VerdictSound, SigningJudged, After, Over
<1>5. QED BY <1>1, <1>2, <1>3, <1>4, Stays DEF Sound

-----------------------------------------------------------------------------
(* The chain moving on                                                        *)

LEMMA SinceStays ==
    ASSUME VerifierInv, ChainStep, UNCHANGED start, NEW c \in Card
    PROVE  /\ \A n \in Nat : Since(c, n) => Since(c, n)' /\ log'[c][n] = log[c][n]
           /\ Exists(c) => Exists(c)'
           /\ Moved(c) => Moved(c)'
           /\ ~Moved(c)' => log'[c] = log[c]
<1>1. log[c] \in Seq(Entry) /\ log'[c] \in Seq(Entry) /\ start.entries[c] \in Nat
      /\ start.entries[c] <= Len(log[c]) /\ Moves(log, log')
    BY ChainGrows DEF VerifierInv, ChainTypeOK, StartSound
<1>2. /\ Len(log[c]) <= Len(log'[c]) /\ Len(log[c]) \in Nat /\ Len(log'[c]) \in Nat
      /\ \A n \in 1..Len(log[c]) : log'[c][n] = log[c][n]
    BY <1>1 DEF Moves
<1>3. \A n \in Nat : Since(c, n) => Since(c, n)' /\ log'[c][n] = log[c][n]
    BY <1>2 DEF Since
<1>4. Exists(c) => Exists(c)'
    BY <1>1, <1>2 DEF Exists
<1>5. Moved(c) => Moved(c)'
    BY <1>1, <1>2 DEF Moved
<1>6. ASSUME ~Moved(c)' PROVE log'[c] = log[c]
    <2>1. Len(log'[c]) = Len(log[c])
        BY <1>1, <1>2, <1>6 DEF Moved
    <2>2. QED BY <1>1, <1>2, <2>1
<1>7. QED BY <1>3, <1>4, <1>5, <1>6

LEMMA ChainMoved ==
    ASSUME VerifierInv, ChainStep, UNCHANGED <<v, start>>
    PROVE  VerifierInv'
<1>1. /\ ChainTypeOK' /\ UNCHANGED parent
      /\ subCard'.exists = subCard.exists /\ subCard'.flaw = subCard.flaw
      /\ subCard'.active => subCard.active
    BY ChainGrows DEF VerifierInv
<1>2. /\ v \in Verification /\ v.chain \in Links
      /\ \A i \in DOMAIN v.chain : v.chain[i].card \in Card /\ v.chain[i].entry \in Nat
    <2>1. v \in Verification /\ v.chain \in Links
        BY DEF VerifierInv, Sound, Verification, Links
    <2>2. QED BY <2>1, LinkType
<1>3. StartSound'
    <2>1. \A c \in Card : Len(log[c]) \in Nat /\ Len(log'[c]) \in Nat /\ Len(log[c]) <= Len(log'[c])
        <3>1. \A c \in Card : log[c] \in Seq(Entry) /\ log'[c] \in Seq(Entry)
            BY <1>1 DEF VerifierInv, ChainTypeOK
        <3>2. QED BY <3>1, ChainGrows DEF VerifierInv, Moves
    <2>2. QED BY <1>1, <2>1 DEF VerifierInv, StartSound
<1>4. Located(v)'
    BY <1>1, SinceStays, Beginning DEF VerifierInv, Sound, Located
<1>5. \A i \in DOMAIN v.chain : LinkSound(v.chain[i])'
    BY <1>2, SinceStays DEF VerifierInv, Sound, ReadsSound, ChainSound, LinkSound
<1>6. ASSUME NEW reads \in Seq(Nat), ReadSound(v.chain, reads) PROVE ReadSound(v.chain, reads)'
    <2>1. \A i \in DOMAIN v.chain : reads[i] \in Nat
        BY <1>6, ElementOf DEF ReadSound
    <2>2. QED BY <1>2, <1>6, <2>1, SinceStays DEF ReadSound
<1>7. ReadsSound(v)'
    <2>1. v.entryAt \in Seq(Nat) /\ v.logAt \in Seq(Nat)
        BY <1>2 DEF Verification
    <2>2. ChainSound(v.chain)'
        BY <1>5 DEF VerifierInv, Sound, ReadsSound, ChainSound
    <2>3. v.step = "revocation" => ReadSound(v.chain, v.entryAt)' /\ ReadSound(v.chain, v.logAt)'
        BY <1>6, <2>1 DEF VerifierInv, Sound, ReadsSound
    <2>4. QED BY <2>2, <2>3 DEF VerifierInv, Sound, ReadsSound
<1>8. SubCardSeen(v)'
    <2>1. MasterListed => MasterListed'
        <3> SUFFICES ASSUME NEW n \in 1..Len(log[Master]), Since(Master, n), log[Master][n].listed
                     PROVE  MasterListed'
            BY DEF MasterListed
        <3>1. n \in Nat /\ Since(Master, n)' /\ log'[Master][n] = log[Master][n]
            BY SinceStays, Beginning
        <3>2. QED BY <3>1 DEF MasterListed, Since
    <2>2. QED BY <1>1, <2>1 DEF VerifierInv, Sound, SubCardSeen
<1>9. VerdictSound(v)'
    <2>1. ASSUME NEW i \in DOMAIN v.chain, Undated(v.chain[i]) PROVE Undated(v.chain[i])'
        <3>1. PICK n \in 1..Len(log[v.chain[i].card]) :
                /\ Since(v.chain[i].card, n)
                /\ \/ log[v.chain[i].card][n].kind # "revocation"
                   \/ log[v.chain[i].card][n].reported = Nil
            BY <2>1 DEF Undated
        <3>2. n \in Nat /\ Since(v.chain[i].card, n)'
              /\ log'[v.chain[i].card][n] = log[v.chain[i].card][n]
            BY <1>2, <3>1, SinceStays
        <3>3. n \in 1..Len(log'[v.chain[i].card])
            BY <3>2 DEF Since
        <3>4. QED BY <3>1, <3>2, <3>3, ZenonT(60) DEF Undated
    <2>2. SigningJudged(v) => SigningJudged(v)'
        <3> SUFFICES ASSUME SigningJudged(v), \A i \in DOMAIN v.chain : ~Moved(v.chain[i].card)'
                     PROVE  (v.validThen = "yes" <=> \A i \in DOMAIN v.chain :
                                LET head == HeadOf(v.chain[i].card) IN
                                head.kind = "revocation" => v.signing < head.at)'
            BY DEF SigningJudged
        <3>1. \A i \in DOMAIN v.chain :
                ~Moved(v.chain[i].card) /\ HeadOf(v.chain[i].card)' = HeadOf(v.chain[i].card)
            BY <1>2, SinceStays DEF HeadOf
        <3>2. QED BY <3>1 DEF SigningJudged
    <2>3. Accused(v.chain) => Accused(v.chain)'
        BY <1>2, SinceStays DEF Accused, HeadOf
    <2>4. QED BY <2>1, <2>2, <2>3, SMTT(30) DEF VerifierInv, Sound, VerdictSound
<1>10. QED BY <1>1, <1>2, <1>3, <1>4, <1>7, <1>8, <1>9 DEF VerifierInv, Sound

LEMMA VerifierInvInit == Init => VerifierInv
<1> SUFFICES ASSUME Init PROVE VerifierInv
    OBVIOUS
<1>1. ChainTypeOK
    <2>1. Genesis \in Entry /\ <<>> \in Seq(Entry) /\ <<Genesis>> \in Seq(Entry)
        BY DEF Genesis, Entry
    <2>2. log \in [Card -> Seq(Entry)]
        BY <2>1 DEF Init, ChainInit
    <2>3. <<"none">> \in Seq(PressStatus) /\ <<"active">> \in Seq(PressStatus)
        BY DEF PressStatus
    <2>4. 0 \in 0..MaxTime /\ 0 \in 0..MaxChanges
        BY ChainAssumption
    <2>5. QED BY <2>2, <2>3, <2>4, ChainAssumption DEF Init, ChainInit, ChainTypeOK
<1>2. StartSound
    BY <1>1, SnapshotSound DEF Init
<1>3. Idle.step = "idle" /\ Idle.chain = <<>> /\ Idle.scope = "skipped"
      /\ Idle.status = "unknown" /\ Idle.codes = {}
    BY DEF Idle
<1>4. Sound(Idle)
    BY <1>3, IdleType, Fresh
<1>5. QED BY <1>1, <1>2, <1>4 DEF Init, VerifierInv

LEMMA StagePasses == VerifierInv /\ Stage => VerifierInv'
BY SignerRead, MasterRead, SubCardRead, AppCardRead, AppChainWalked, CardRead,
   CardContentRead,
   ChainWalked, NextRootAsked, AncestorRead, RevocationsRead, RevocationJudged, PressRead,
   NonComplianceReported, AnnotationsRead, Thrown, CardWalkThrown
   DEF Stage

LEMMA VerifierInvNext == VerifierInv /\ [Next]_vars => VerifierInv'
<1> SUFFICES ASSUME VerifierInv, [Next]_vars PROVE VerifierInv'
    OBVIOUS
<1>1. CASE UNCHANGED vars
    BY <1>1, Stays DEF vars, VerifierInv
<1>2. CASE v.step \notin Over /\ ChainStep /\ UNCHANGED <<v, start>>
    BY <1>2, ChainMoved
<1>3. QED BY <1>1, <1>2, Begins, StagePasses DEF Next

\* The invariant says what the properties say.
LEMMA InvMeans ==
    ASSUME VerifierInv
    PROVE  TypeOK /\ SubCardHonoured /\ RevocationsJudged /\ NoFalseAccusation
<1>1. TypeOK
    BY DEF VerifierInv, StartSound, Sound, TypeOK
<1>2. SubCardHonoured
    <2> SUFFICES ASSUME v.scope = "yes" PROVE \E e \in HeadsSince(Master) : e.listed
        BY DEF VerifierInv, Sound, SubCardSeen, SubCardHonoured
    <2>1. PICK n \in 1..Len(log[Master]) : Since(Master, n) /\ log[Master][n].listed
        BY DEF VerifierInv, Sound, SubCardSeen, MasterListed
    <2>2. log[Master][n] \in HeadsSince(Master)
        <3>1. log[Master] \in Seq(Entry) /\ start.entries[Master] \in Nat
            BY Beginning DEF VerifierInv, ChainTypeOK, StartSound
        <3>2. n \in start.entries[Master]..Len(log[Master])
            BY <2>1, <3>1 DEF Since
        <3>3. QED BY <3>2 DEF HeadsSince
    <2>3. QED BY <2>1, <2>2
<1>3. NoFalseAccusation
    BY DEF VerifierInv, Sound, VerdictSound, Accused, NoFalseAccusation
<1>4. SigningTimeJudged
    BY DEF VerifierInv, Sound, VerdictSound, SigningJudged, SigningTimeJudged, Judged
<1>5. RevocationReported
    <2> SUFFICES ASSUME v.status = "not_revoked", NEW i \in DOMAIN v.chain
                 PROVE  \E e \in HeadsSince(v.chain[i].card) :
                            e.kind # "revocation" \/ e.reported = Nil
        BY DEF RevocationReported, Judged
    <2> DEFINE c == v.chain[i].card
    <2>1. PICK n \in 1..Len(log[c]) :
            Since(c, n) /\ (log[c][n].kind # "revocation" \/ log[c][n].reported = Nil)
        BY DEF VerifierInv, Sound, VerdictSound, Undated
    <2>2. c \in Card
        <3>1. v.chain \in Links
            BY DEF VerifierInv, Sound, Verification, Links
        <3>2. QED BY <3>1, LinkType
    <2>3. log[c] \in Seq(Entry) /\ start.entries[c] \in Nat
        BY <2>2 DEF VerifierInv, ChainTypeOK, StartSound
    <2>4. n \in start.entries[c]..Len(log[c])
        BY <2>1, <2>3 DEF Since
    <2>5. log[c][n] \in HeadsSince(c)
        BY <2>4 DEF HeadsSince
    <2>6. QED BY <2>1, <2>5
<1>6. QED BY <1>1, <1>2, <1>3, <1>4, <1>5 DEF RevocationsJudged

-----------------------------------------------------------------------------
(* What holds of every verification                                          *)

\* The chain and the verification in progress always have their types: what a
\* stage leaves behind is what the next one expects (card-verifier.ts).
THEOREM VerifierTypeCorrect == Spec => []TypeOK
<1>1. VerifierInv => TypeOK
    BY InvMeans
<1>2. QED BY <1>1, VerifierInvInit, VerifierInvNext, PTL DEF Spec

\* A sub-card in scope was listed by an entry that was the head of its master card
\* at some moment since the verification began (subcard-check.ts).
THEOREM OnlyListedHonoured == Spec => []SubCardHonoured
<1>1. VerifierInv => SubCardHonoured
    BY InvMeans
<1>2. QED BY <1>1, VerifierInvInit, VerifierInvNext, PTL DEF Spec

\* "not revoked" means every card of the chain had a head that does not revoke it
\* since the verification began, and a chain that stayed as it was gets the exact
\* verdict on the time of signing (revocation-check.ts).
THEOREM RevocationsAreJudged == Spec => []RevocationsJudged
<1>1. VerifierInv => RevocationsJudged
    BY InvMeans
<1>2. QED BY <1>1, VerifierInvInit, VerifierInvNext, PTL DEF Spec

\* A verifier reports a history that does not match only if an unmoved card's content
\* really does not, however the chain moved during the walk (chain-walk.ts).
THEOREM NobodyFalselyAccused == Spec => []NoFalseAccusation
<1>1. VerifierInv => NoFalseAccusation
    BY InvMeans
<1>2. QED BY <1>1, VerifierInvInit, VerifierInvNext, PTL DEF Spec

-----------------------------------------------------------------------------
(* The types of the port, and how it is read as the original                 *)

Pcs == {"none", "done", "raised"} \cup Awaited
Beginnings == [entries : [Card -> Nat], active : BOOLEAN, press : Nat]

PortType ==
    [pc : Pcs, provider : {"strict", "web3"}, signing : Nat, appRoot : AppRoots \cup {Nil},
     current : Card, depth : 0..MaxChainDepth, links : Links, fetchedAt : Nat, stage4 : BOOLEAN,
     heads : Seq(Nat), latest : Seq(Nat), events : Seq(SUBSET Nat), got : SUBSET Nat,
     block : Nat, window : Nat, errors : SUBSET Code, scope : Answer, reaches : Answer,
     status : {"not_revoked", "revoked", "unknown"}, effective : Nat \cup {Nil},
     validThen : Answer, validNow : Answer, compliant : Answer \cup {Nil},
     pressRevoked : BOOLEAN, reported : BOOLEAN, annotator : BOOLEAN, masked : BOOLEAN,
     before : Verification, began : Beginnings]

LEMMA Steps ==
    \A pc :
        /\ pc = "none" => StepOf(pc) = "idle"
        /\ pc = "entry" => StepOf(pc) = "signer"
        /\ pc = "master-entry" => StepOf(pc) = "master"
        /\ pc = "sub-card-entry" => StepOf(pc) = "sub-card"
        /\ pc = "app-card" => StepOf(pc) = "app-card"
        /\ pc = "app-ancestor" => StepOf(pc) = "app-hop"
        /\ pc = "walk" => StepOf(pc) = "root"
        /\ pc = "authorizer" => StepOf(pc) = "next-root"
        /\ pc = "ancestor" => StepOf(pc) = "ancestor"
        /\ pc \in {"card-entry", "block-number", "logs"} => StepOf(pc) = "revocation"
        /\ pc \in {"signer-again", "press"} => StepOf(pc) = "press"
        /\ pc = "report" => StepOf(pc) = "report"
        /\ pc = "annotations" => StepOf(pc) = "annotate"
        /\ pc = "done" => StepOf(pc) = "done"
        /\ pc = "raised" => StepOf(pc) = "threw"
BY ZenonT(60) DEF StepOf

LEMMA StepType ==
    /\ \A pc \in Pcs : StepOf(pc) \in {"idle"} \cup Reads \cup Over
    /\ \A pc \in Awaited \ {"report"} : StepOf(pc) \in Reads \ {"report"}
<1>1. \A pc \in Awaited \ {"report"} : StepOf(pc) \in Reads /\ StepOf(pc) # "report"
    BY Steps DEF Awaited, Reads
<1>2. QED BY <1>1, Steps DEF Pcs, Awaited, Reads, Over

LEMMA Reading ==
    ASSUME NEW links \in Links, NEW reads \in Seq(Nat)
    PROVE  [i \in DOMAIN links |-> ReadSoFar(reads, i)] \in Seq(Nat)
<1>1. DOMAIN links = 1..Len(links) /\ Len(links) \in Nat
    BY DEF Links
<1>2. ASSUME NEW i \in 1..Len(links) PROVE ReadSoFar(reads, i) \in Nat
    <2>1. i <= Len(reads) => reads[i] \in Nat
        BY <1>1
    <2>2. QED BY <2>1 DEF ReadSoFar
<1>3. QED BY <1>1, <1>2

LEMMA OriginalType ==
    ASSUME NEW p \in PortType
    PROVE  AsOriginal(p) \in Verification
<1>1. p.links \in Links /\ p.heads \in Seq(Nat) /\ p.latest \in Seq(Nat) /\ p.pc \in Pcs
    BY DEF PortType
<1>2. AsOriginal(p).entryAt \in Seq(Nat) /\ AsOriginal(p).logAt \in Seq(Nat)
    <2>1. <<>> \in Seq(Nat)
        OBVIOUS
    <2>2. QED BY <1>1, <2>1, Reading DEF AsOriginal
<1>3. StepOf(p.pc) \in {"idle"} \cup Reads \cup Over
    BY <1>1, StepType
<1>4. /\ p.signing \in Nat /\ p.appRoot \in AppRoots \cup {Nil} /\ p.current \in Card
      /\ p.depth \in 0..MaxChainDepth /\ p.links \in Seq([card : Card, entry : Nat])
      /\ p.fetchedAt \in Nat /\ p.errors \in SUBSET Code /\ p.scope \in Answer
      /\ p.reaches \in Answer /\ p.status \in {"not_revoked", "revoked", "unknown"}
      /\ p.effective \in Nat \cup {Nil} /\ p.validThen \in Answer /\ p.validNow \in Answer
      /\ p.compliant \in Answer \cup {Nil} /\ p.pressRevoked \in BOOLEAN
      /\ p.reported \in BOOLEAN /\ p.annotator \in BOOLEAN
    BY DEF PortType, Links
<1>5. QED BY <1>2, <1>3, <1>4 DEF AsOriginal, Verification

Whole(a) ==
    [step |-> a.step, kind |-> a.kind, port |-> a.port, pubkey |-> a.pubkey,
     signing |-> a.signing, appRoot |-> a.appRoot, current |-> a.current, depth |-> a.depth,
     chain |-> a.chain, entryAt |-> a.entryAt, logAt |-> a.logAt,
     fetchedAt |-> a.fetchedAt, codes |-> a.codes, scope |-> a.scope, reaches |-> a.reaches,
     status |-> a.status, effective |-> a.effective, validThen |-> a.validThen,
     validNow |-> a.validNow, compliant |-> a.compliant, pressRevoked |-> a.pressRevoked,
     reported |-> a.reported, annotator |-> a.annotator]

\* What stage 4 has read, as the original keeps it.
ReadingsOf(p, reads) == IF p.stage4 THEN [i \in DOMAIN p.links |-> ReadSoFar(reads, i)] ELSE <<>>

\* Verification a stands for the port's p.
Reflects(a, p) ==
    /\ a.step = StepOf(p.pc) /\ a.kind = "signature" /\ a.port = "ts" /\ a.pubkey = "none"
    /\ a.signing = p.signing /\ a.appRoot = p.appRoot /\ a.current = p.current
    /\ a.depth = p.depth /\ a.chain = p.links /\ a.entryAt = ReadingsOf(p, p.heads)
    /\ a.logAt = ReadingsOf(p, p.latest) /\ a.fetchedAt = p.fetchedAt /\ a.codes = p.errors
    /\ a.scope = p.scope /\ a.reaches = p.reaches /\ a.status = p.status
    /\ a.effective = p.effective /\ a.validThen = p.validThen /\ a.validNow = p.validNow
    /\ a.compliant = p.compliant /\ a.pressRevoked = p.pressRevoked /\ a.reported = p.reported
    /\ a.annotator = p.annotator

LEMMA Reflected ==
    ASSUME NEW p \in PortType, NEW a \in Verification, Reflects(a, p)
    PROVE  a = AsOriginal(p)
<1>1. a = Whole(a)
    BY DEF Verification, Whole
<1>2. AsOriginal(p) = Whole(a)
    BY Zenon DEF Whole, AsOriginal, Reflects, ReadingsOf
<1>3. QED BY <1>1, <1>2

LEMMA AsOriginalIs ==
    ASSUME NEW p \in PortType
    PROVE  \E a \in Verification : a = AsOriginal(p) /\ Reflects(a, p)
BY OriginalType DEF AsOriginal, Reflects, ReadingsOf

-----------------------------------------------------------------------------
(* What is known of a verification of the port                                *)

WalkPcs == {"walk", "authorizer", "ancestor"}
Early == {"entry", "master-entry", "sub-card-entry", "app-card", "app-ancestor"} \cup WalkPcs
LogPcs == {"card-entry", "block-number", "logs"}
Late == {"signer-again", "press", "report", "annotations", "done", "raised"}

\* Entry n of a card has been its head since the port began.
SinceBegan(p, c, n) == n \in 1..Len(log[c]) /\ p.began.entries[c] <= n

PortBegan(p) ==
    /\ \A c \in Card : p.began.entries[c] <= Len(log[c])
    /\ subCard.active => p.began.active
    /\ p.pc = "none" => ~p.masked
PortLinks(p) == \A i \in DOMAIN p.links : SinceBegan(p, p.links[i].card, p.links[i].entry)
PortLocated(p) ==
    /\ p.pc \in {"authorizer", "ancestor"} =>
          parent[p.current] # Nil /\ p.depth # MaxChainDepth
    /\ p.pc \in {"sub-card-entry", "app-card", "app-ancestor"} \cup WalkPcs => p.links # <<>>
    /\ p.pc \in Early => p.heads = <<>> /\ p.latest = <<>> /\ p.events = <<>>
    /\ p.pc \in Early \cup LogPcs => (p.stage4 <=> p.pc \in LogPcs)

\* Card by card: the head, the latest block, and every window up to it.
PortReadings(p) ==
    p.pc \in LogPcs =>
        /\ Len(p.events) < Len(p.links)
        /\ Len(p.heads) = IF p.pc = "card-entry" THEN Len(p.events) ELSE Len(p.events) + 1
        /\ Len(p.latest) = IF p.pc = "logs" THEN Len(p.events) + 1 ELSE Len(p.events)
        /\ \A i \in 1..Len(p.heads) :
              p.heads[i] \in 0..Len(log[p.links[i].card]) /\ (p.heads[i] # 0 \/ p.masked)
        /\ \A i \in 1..Len(p.latest) : p.latest[i] \in 1..Len(log[p.links[i].card])
        /\ \A i \in 1..Len(p.events) : p.events[i] = 1..p.latest[i]
        /\ p.pc = "logs" =>
              /\ p.block # 0 /\ p.window # 0
              /\ p.got = 1..(p.block - 1) /\ p.block <= p.latest[Len(p.latest)]

ListedSince(p) == \E n \in 1..Len(log[Master]) : SinceBegan(p, Master, n) /\ log[Master][n].listed
PortSeen(p) ==
    /\ p.pc \in {"master-entry", "sub-card-entry", "app-card", "app-ancestor"} => subCard.exists
    /\ p.pc \in {"sub-card-entry", "app-card", "app-ancestor"} => ListedSince(p)
    /\ p.pc \in {"app-card", "app-ancestor"} => p.began.active /\ subCard.flaw = "none"
    /\ p.scope = "yes" =>
          subCard.exists /\ p.began.active /\ subCard.flaw = "none" /\ ListedSince(p)

UndatedSince(p, l) ==
    \E n \in 1..Len(log[l.card]) :
        /\ SinceBegan(p, l.card, n)
        /\ log[l.card][n].kind # "revocation" \/ log[l.card][n].reported = Nil
PortVerdict(p) ==
    /\ p.status = "unknown" \/ p.pc \in Late
    /\ p.status = "not_revoked" => \A i \in DOMAIN p.links : UndatedSince(p, p.links[i])

PortSound(p) ==
    /\ p \in PortType /\ PortBegan(p) /\ PortLinks(p) /\ PortLocated(p) /\ PortReadings(p)
    /\ PortSeen(p) /\ PortVerdict(p)

PortInv == ChainTypeOK /\ PortSound(port)

\* A step of the port leaves the chain alone.
LEMMA PortRests ==
    ASSUME PortInv, UNCHANGED vars, PortSound(port')
    PROVE  PortInv'
<1>1. ChainTypeOK'
    BY DEF PortInv, ChainTypeOK, vars, chainVars
<1>2. PortSound(port)'
    BY DEF vars, chainVars, PortSound, PortBegan, PortLinks, PortLocated, PortReadings,
       PortSeen,
        PortVerdict, SinceBegan, ListedSince, UndatedSince
<1>3. QED BY <1>1, <1>2 DEF PortInv

\* The record with which a read goes on, whether or not it was masked.
Source(p) == port.pc # "none" /\ (p = port \/ p = Masked)

LEMMA Sources ==
    ASSUME PortInv, NEW p, Source(p)
    PROVE  /\ PortSound(p) /\ p.pc = port.pc /\ p.links = port.links /\ p.current = port.current
           /\ p.depth = port.depth /\ p.began = port.began /\ p.status = port.status
           /\ p.scope = port.scope /\ p.heads = port.heads /\ p.latest = port.latest
           /\ p.events = port.events /\ p.stage4 = port.stage4 /\ p.fetchedAt = port.fetchedAt
<1>1. CASE p = port
    BY <1>1 DEF PortInv
<1>2. CASE p = Masked
    <2>1. port \in PortType
        BY DEF PortInv, PortSound
    <2>2. AsOriginal(port) \in Verification
        <3>1. PICK r \in PortType : r = port
            BY <2>1
        <3>2. QED BY <3>1, OriginalType
    <2>3. PICK b \in Verification : b = IF port.masked THEN port.before ELSE AsOriginal(port)
        BY <2>1, <2>2 DEF PortType
    <2>4. p = [port EXCEPT !.masked = TRUE, !.before = b]
        BY <1>2, <2>1, <2>3 DEF Masked, PortType
    <2>5. /\ p \in PortType /\ p.masked
          /\ p.pc = port.pc /\ p.links = port.links /\ p.current = port.current
          /\ p.depth = port.depth /\ p.began = port.began /\ p.status = port.status
          /\ p.scope = port.scope /\ p.heads = port.heads /\ p.latest = port.latest
          /\ p.events = port.events /\ p.stage4 = port.stage4 /\ p.fetchedAt = port.fetchedAt
          /\ p.got = port.got /\ p.block = port.block /\ p.window = port.window
        BY <2>1, <2>4, ZenonT(60) DEF PortType
    <2>6. PortBegan(p) /\ PortLinks(p) /\ PortLocated(p) /\ PortReadings(p)
        BY <2>5, SMTT(60)
        DEF Source, PortInv, PortSound, PortBegan, PortLinks, PortLocated, PortReadings,
            SinceBegan
    <2>7. PortSeen(p)
        BY <2>5, SMTT(60) DEF PortInv, PortSound, PortSeen, SinceBegan, ListedSince,
            UndatedSince
    <2>8. PortVerdict(p)
        BY <2>5, SMTT(60) DEF PortInv, PortSound, PortVerdict, SinceBegan, ListedSince,
            UndatedSince
    <2>9. QED BY <2>5, <2>6, <2>7, <2>8 DEF PortSound
<1>3. QED BY <1>1, <1>2 DEF Source

\* The chain moves on under a verification.
LEMMA PortChainMoved ==
    ASSUME PortInv, ChainStep, UNCHANGED port
    PROVE  PortInv'
<1>1. /\ ChainTypeOK' /\ UNCHANGED parent /\ Moves(log, log')
      /\ subCard'.exists = subCard.exists /\ subCard'.flaw = subCard.flaw
      /\ subCard'.active => subCard.active
    BY ChainGrows DEF PortInv
<1>2. \A c \in Card :
        /\ Len(log[c]) \in Nat /\ Len(log'[c]) \in Nat /\ Len(log[c]) <= Len(log'[c])
        /\ \A n \in 1..Len(log[c]) : log'[c][n] = log[c][n]
    <2>1. \A c \in Card : log[c] \in Seq(Entry) /\ log'[c] \in Seq(Entry)
        BY <1>1 DEF PortInv, ChainTypeOK
    <2>2. QED BY <1>1, <2>1 DEF Moves
<1>3. /\ port \in PortType /\ port.links \in Links /\ port.began.entries \in [Card -> Nat]
      /\ \A i \in DOMAIN port.links : port.links[i].card \in Card /\ port.links[i].entry \in Nat
    <2>1. port \in PortType /\ port.links \in Links /\ port.began.entries \in [Card -> Nat]
        BY DEF PortInv, PortSound, PortType, Beginnings
    <2>2. QED BY <2>1, LinkType
<1>4. \A c \in Card : \A n \in Nat : SinceBegan(port, c, n) => SinceBegan(port, c, n)'
    BY <1>2 DEF SinceBegan
<1>5. PortBegan(port)'
    BY <1>1, <1>2, <1>3 DEF PortInv, PortSound, PortBegan
<1>6. PortLinks(port)'
    BY <1>3, <1>4 DEF PortInv, PortSound, PortLinks
<1>7. PortLocated(port)'
    BY <1>1 DEF PortInv, PortSound, PortLocated
<1>8. PortReadings(port)'
    <2> SUFFICES ASSUME port.pc \in LogPcs PROVE PortReadings(port)'
        BY DEF PortReadings
    <2>1. port.heads \in Seq(Nat) /\ port.latest \in Seq(Nat) /\ port.events \in Seq(SUBSET Nat)
        BY <1>3 DEF PortType
    <2>2. /\ Len(port.heads) <= Len(port.links) /\ Len(port.latest) <= Len(port.links)
          /\ Len(port.links) \in Nat /\ DOMAIN port.links = 1..Len(port.links)
        BY <1>3, <2>1, SMTT(30) DEF PortInv, PortSound, PortReadings, Links
    <2>3. ASSUME NEW i \in 1..Len(port.heads)
          PROVE  port.heads[i] \in 0..Len(log'[port.links[i].card])
        <3>1. i \in DOMAIN port.links
            BY <2>1, <2>2
        <3>2. port.links[i].card \in Card /\ port.heads[i] \in 0..Len(log[port.links[i].card])
            BY <1>3, <3>1 DEF PortInv, PortSound, PortReadings
        <3>3. QED BY <1>2, <3>2
    <2>4. ASSUME NEW i \in 1..Len(port.latest)
          PROVE  port.latest[i] \in 1..Len(log'[port.links[i].card])
        <3>1. i \in DOMAIN port.links
            BY <2>1, <2>2
        <3>2. port.links[i].card \in Card /\ port.latest[i] \in 1..Len(log[port.links[i].card])
            BY <1>3, <3>1 DEF PortInv, PortSound, PortReadings
        <3>3. QED BY <1>2, <3>2
    <2>5. QED BY <2>3, <2>4 DEF PortInv, PortSound, PortReadings
<1>9. PortSeen(port)'
    <2>1. ListedSince(port) => ListedSince(port)'
        <3> SUFFICES ASSUME NEW n \in 1..Len(log[Master]), SinceBegan(port, Master, n),
                            log[Master][n].listed
                     PROVE  ListedSince(port)'
            BY DEF ListedSince
        <3>1. n \in Nat /\ SinceBegan(port, Master, n)' /\ log'[Master][n] = log[Master][n]
            BY <1>2, <1>4, Beginning
        <3>2. QED BY <3>1 DEF ListedSince, SinceBegan
    <2>2. QED BY <1>1, <2>1 DEF PortInv, PortSound, PortSeen
<1>10. PortVerdict(port)'
    <2>1. ASSUME NEW i \in DOMAIN port.links, UndatedSince(port, port.links[i])
          PROVE  UndatedSince(port, port.links[i])'
        <3>1. PICK n \in 1..Len(log[port.links[i].card]) :
                /\ SinceBegan(port, port.links[i].card, n)
                /\ \/ log[port.links[i].card][n].kind # "revocation"
                   \/ log[port.links[i].card][n].reported = Nil
            BY <2>1 DEF UndatedSince
        <3>2. n \in Nat /\ SinceBegan(port, port.links[i].card, n)'
              /\ log'[port.links[i].card][n] = log[port.links[i].card][n]
            BY <1>2, <1>3, <1>4, <3>1
        <3>3. QED BY <3>1, <3>2 DEF UndatedSince, SinceBegan
    <2>2. QED BY <2>1, SMTT(30) DEF PortInv, PortSound, PortVerdict
<1>11. QED
    BY <1>1, <1>3, <1>5, <1>6, <1>7, <1>8, <1>9, <1>10 DEF PortInv, PortSound

-----------------------------------------------------------------------------
(* What a step of the port may be for the original                           *)

\* What PortConforms allows a step to be.
ConformStep ==
    Original!Next \/ (ChainStep /\ UNCHANGED port) \/ UNCHANGED Original!vars

\* The two records a step leaves as they are whatever else it does
Tied(q, p) == q.masked = p.masked /\ q.before = p.before /\ q.began = p.began

LEMMA SameNames ==
    /\ Original!Reads = Reads /\ Original!Over = Over /\ Original!chainVars = chainVars
    /\ Original!Code = Code /\ Original!Walk = Walk
BY DEF Original!Reads, Reads, Original!Over, Over, Original!chainVars, chainVars,
   Original!Code,
    Code, Original!Walk, Walk

LEMMA MaskedIs ==
    ASSUME PortInv
    PROVE  Masked.masked /\ Masked.before = IF port.masked THEN port.before ELSE AsOriginal(port)
BY DEF PortInv, PortSound, PortType, Masked

LEMMA Shown ==
    ASSUME ~port.masked, ~port'.masked
    PROVE  Mapped = AsOriginal(port) /\ Mapped' = AsOriginal(port')
BY DEF Mapped, AsOriginal, ReadSoFar, StepOf

\* The premises under which a step of the port must be one of the original
Unmasked(p) ==
    /\ p = port /\ ~port.masked /\ Mapped = AsOriginal(port) /\ Mapped' = AsOriginal(port')
    /\ Original!At(StepOf(port.pc))

\* The port conforms while it is masked, and where it becomes so the original throws.
LEMMA Conforming ==
    ASSUME PortInv, UNCHANGED vars, NEW p, Source(p), Tied(port', p),
           p = port \/ StepOf(port.pc) \in Reads \ {"report"},
           Unmasked(p) => Original!Stage \/ Mapped' = Mapped
    PROVE  ConformStep
<1>1. UNCHANGED chainVars
    BY DEF vars
<1>2. port'.began = port.began
    BY Sources DEF Tied
<1>3. CASE port.masked
    <2>1. p.masked /\ p.before = port.before
        BY <1>3, MaskedIs DEF Source
    <2>2. Mapped' = Mapped
        BY <1>3, <2>1 DEF Tied, Mapped
    <2>3. QED
        BY <1>1, <1>2, <2>2, SameNames
        DEF ConformStep, Original!vars, Original!chainVars, chainVars
<1>4. AsOriginal(port).step = StepOf(port.pc) /\ AsOriginal(port).kind = "signature"
    BY DEF AsOriginal
<1>5. CASE ~port.masked /\ p # port
    <2>1. p.masked /\ p.before = AsOriginal(port)
        BY <1>5, MaskedIs DEF Source
    <2>2. Mapped = AsOriginal(port) /\ Mapped' = [AsOriginal(port) EXCEPT !.step = "threw"]
        BY <1>5, <2>1 DEF Tied, Mapped
    <2>3. Original!Throw
        BY <1>4, <1>1, <1>2, <1>5, <2>2, SameNames
        DEF Original!Throw, Original!chainVars, chainVars
    <2>4. QED BY <2>3 DEF ConformStep, Original!Next, Original!Stage
<1>6. CASE ~port.masked /\ p = port
    <2>1. Mapped = AsOriginal(port) /\ Mapped' = AsOriginal(port')
        BY <1>6, Shown DEF Tied
    <2>2. Original!At(StepOf(port.pc))
        BY <1>4, <1>1, <1>2, <2>1 DEF Original!At, Original!chainVars, chainVars
    <2>3. QED
        BY <1>1, <1>2, <1>6, <2>1, <2>2
        DEF Unmasked, ConformStep, Original!Next, Original!vars,
            Original!chainVars, chainVars
<1>7. QED BY <1>3, <1>5, <1>6

\* What the original reads is what the port reads.
LEMMA SameReads ==
    /\ \A c : Original!Exists(c) <=> Exists(c)
    /\ \A c : Original!HeadOf(c) = HeadOf(c)
    /\ \A c : Original!IsRoot(c) <=> IsRoot(c)
    /\ \A e : Original!Listed(e) = e.listed /\ Original!Active(e) = e.active
    /\ \A d : (Original!TooDeep(d) <=> d = MaxChainDepth) /\ Original!Deeper(d) = d + 1
    /\ \A b : Original!YesNo(b) = YesNo(b)
<1>1. \A c : (Original!Exists(c) <=> Exists(c)) /\ Original!HeadOf(c) = HeadOf(c)
    <2>1. \A c : Original!Exists(c) <=> Exists(c)
        BY DEF Original!Exists, Exists
    <2>2. \A c : Original!HeadOf(c) = HeadOf(c)
        BY Zenon DEF Original!HeadOf, HeadOf, Original!Last, Last
    <2>3. QED BY <2>1, <2>2
<1>2. \A c : Original!IsRoot(c) <=> IsRoot(c)
    BY DEF Original!IsRoot, IsRoot
<1>3. \A e : Original!Listed(e) = e.listed /\ Original!Active(e) = e.active
    BY DEF Original!Listed, Original!Active
<1>4. \A d : (Original!TooDeep(d) <=> d = MaxChainDepth) /\ Original!Deeper(d) = d + 1
    BY DEF Original!TooDeep, Original!Deeper
<1>5. \A b : Original!YesNo(b) = YesNo(b)
    BY Zenon DEF Original!YesNo, YesNo
<1>6. QED BY <1>1, <1>2, <1>3, <1>4, <1>5

LEMMA Read ==
    ASSUME NEW p, Unmasked(p)
    PROVE  /\ Mapped.step = StepOf(port.pc) /\ Mapped.kind = "signature" /\ Mapped.port = "ts"
           /\ Mapped.signing = port.signing /\ Mapped.appRoot = port.appRoot
           /\ Mapped.current = port.current /\ Mapped.depth = port.depth
           /\ Mapped.chain = port.links /\ Mapped.fetchedAt = port.fetchedAt
           /\ Mapped.entryAt = ReadingsOf(port, port.heads)
           /\ Mapped.logAt = ReadingsOf(port, port.latest)
BY DEF Unmasked, AsOriginal, ReadingsOf

\* A verification that ends keeps what it knew.
LEMMA Ended ==
    ASSUME NEW p, PortSound(p), NEW q \in PortType, q.pc \in {"done", "raised"},
           q.began = p.began, q.links = p.links, q.status = p.status, q.scope \in {p.scope, "no"}
    PROVE  PortSound(q)
<1>1. PortBegan(q) /\ PortLinks(q)
    BY DEF PortSound, PortBegan, PortLinks, SinceBegan
<1>2. PortLocated(q) /\ PortReadings(q)
    BY DEF PortLocated, PortReadings, Early, WalkPcs, LogPcs
<1>3. PortSeen(q) /\ PortVerdict(q)
    BY DEF PortSound, PortSeen, PortVerdict, Late, ListedSince, UndatedSince, SinceBegan
<1>4. QED BY <1>1, <1>2, <1>3 DEF PortSound

LEMMA RefusedMaps ==
    ASSUME NEW p \in PortType, NEW q, NEW code \in Code,
           q = [p EXCEPT !.pc = "done", !.scope = "no", !.errors = @ \cup {code}]
    PROVE  /\ q \in PortType /\ Tied(q, p) /\ q.pc = "done" /\ q.scope = "no"
           /\ q.links = p.links /\ q.status = p.status
           /\ AsOriginal(q) = [AsOriginal(p) EXCEPT !.step = "done", !.scope = "no",
                                                    !.codes = @ \cup {code}]
<1>1. PICK a \in Verification : a = AsOriginal(p) /\ Reflects(a, p)
    BY AsOriginalIs
<1> DEFINE b == [a EXCEPT !.step = "done", !.scope = "no", !.codes = @ \cup {code}]
<1>2. q \in PortType
    BY ZenonT(60) DEF PortType, Pcs, Answer
<1>3. b \in Verification
    BY ZenonT(60) DEF Verification, Over, Answer
<1>4. Reflects(b, q)
    <2>1. /\ b.step = "done" /\ b.scope = "no" /\ b.codes = a.codes \cup {code}
          /\ b.kind = a.kind /\ b.port = a.port /\ b.pubkey = a.pubkey /\ b.signing = a.signing
          /\ b.appRoot = a.appRoot /\ b.current = a.current /\ b.depth = a.depth
          /\ b.chain = a.chain /\ b.entryAt = a.entryAt /\ b.logAt = a.logAt
          /\ b.fetchedAt = a.fetchedAt /\ b.reaches = a.reaches /\ b.status = a.status
          /\ b.effective = a.effective /\ b.validThen = a.validThen /\ b.validNow = a.validNow
          /\ b.compliant = a.compliant /\ b.pressRevoked = a.pressRevoked
          /\ b.reported = a.reported /\ b.annotator = a.annotator
        BY DEF Verification
    <2>2. /\ q.pc = "done" /\ q.scope = "no" /\ q.errors = p.errors \cup {code}
          /\ q.signing = p.signing /\ q.appRoot = p.appRoot /\ q.current = p.current
          /\ q.depth = p.depth /\ q.links = p.links /\ q.fetchedAt = p.fetchedAt
          /\ q.reaches = p.reaches /\ q.status = p.status /\ q.effective = p.effective
          /\ q.validThen = p.validThen /\ q.validNow = p.validNow
          /\ q.compliant = p.compliant /\ q.pressRevoked = p.pressRevoked
          /\ q.reported = p.reported /\ q.annotator = p.annotator
          /\ q.stage4 = p.stage4 /\ q.heads = p.heads /\ q.latest = p.latest
        BY DEF PortType
    <2>3. ReadingsOf(q, q.heads) = ReadingsOf(p, p.heads)
          /\ ReadingsOf(q, q.latest) = ReadingsOf(p, p.latest)
        BY <2>2 DEF ReadingsOf
    <2>4. StepOf("done") = "done"
        BY Steps
    <2> HIDE DEF b
    <2>5. QED BY <1>1, <2>1, <2>2, <2>3, <2>4 DEF Reflects
<1>5. /\ q.pc = "done" /\ q.scope = "no" /\ q.links = p.links
      /\ q.status = p.status /\ Tied(q, p)
    BY DEF PortType, Tied
<1>6. QED BY <1>1, <1>2, <1>3, <1>4, <1>5, Reflected

\* A refused sub-card ends the verification.
LEMMA RefusedStep ==
    ASSUME PortInv, UNCHANGED vars, NEW p, Source(p), NEW code \in Code, Refuse(p, code),
           StepOf(port.pc) \in Reads \ {"report"},
           Unmasked(p) /\ Original!Reject(code) => Original!Stage
    PROVE  PortInv' /\ ConformStep
<1>1. PortSound(p) /\ p \in PortType
    BY Sources DEF PortSound
<1>2. PICK q : q = port'
    OBVIOUS
<1>3. /\ q \in PortType /\ Tied(q, p) /\ q.pc = "done" /\ q.scope = "no"
      /\ q.links = p.links /\ q.status = p.status
      /\ AsOriginal(q) = [AsOriginal(p) EXCEPT !.step = "done", !.scope = "no",
                                                !.codes = @ \cup {code}]
    BY <1>1, <1>2, RefusedMaps, ZenonT(60) DEF Refuse
<1>4. PortSound(q)
    BY <1>1, <1>3, Ended DEF Tied
<1>5. Unmasked(p) => Original!Stage
    BY <1>2, <1>3 DEF Original!Reject, Unmasked
<1>6. ConformStep
    BY <1>2, <1>3, <1>5, Conforming
<1>7. QED BY <1>2, <1>4, <1>6, PortRests

LEMMA HopMaps ==
    ASSUME NEW p \in PortType, NEW q, NEW pc \in Pcs, q = [p EXCEPT !.pc = pc]
    PROVE  /\ q \in PortType /\ Tied(q, p) /\ q.pc = pc /\ q.current = p.current
           /\ q.depth = p.depth /\ q.links = p.links /\ q.status = p.status /\ q.scope = p.scope
           /\ q.stage4 = p.stage4 /\ q.heads = p.heads /\ q.latest = p.latest
           /\ q.events = p.events
           /\ AsOriginal(q) = [AsOriginal(p) EXCEPT !.step = StepOf(pc)]
<1>1. PICK a \in Verification : a = AsOriginal(p) /\ Reflects(a, p)
    BY AsOriginalIs
<1> DEFINE b == [a EXCEPT !.step = StepOf(pc)]
<1>2. q \in PortType /\ Tied(q, p) /\ q.pc = pc /\ q.current = p.current
      /\ q.depth = p.depth /\ q.links = p.links /\ q.status = p.status /\ q.scope = p.scope
      /\ q.stage4 = p.stage4 /\ q.heads = p.heads /\ q.latest = p.latest
      /\ q.events = p.events
    BY ZenonT(60) DEF PortType, Tied
<1>3. b \in Verification
    BY StepType DEF Verification
<1>4. Reflects(b, q)
    <2>1. /\ b.step = StepOf(pc) /\ b.scope = a.scope /\ b.codes = a.codes
          /\ b.kind = a.kind /\ b.port = a.port /\ b.pubkey = a.pubkey /\ b.signing = a.signing
          /\ b.appRoot = a.appRoot /\ b.current = a.current /\ b.depth = a.depth
          /\ b.chain = a.chain /\ b.entryAt = a.entryAt /\ b.logAt = a.logAt
          /\ b.fetchedAt = a.fetchedAt /\ b.reaches = a.reaches /\ b.status = a.status
          /\ b.effective = a.effective /\ b.validThen = a.validThen /\ b.validNow = a.validNow
          /\ b.compliant = a.compliant /\ b.pressRevoked = a.pressRevoked
          /\ b.reported = a.reported /\ b.annotator = a.annotator
        BY DEF Verification
    <2>2. /\ q.pc = pc /\ q.scope = p.scope /\ q.errors = p.errors
          /\ q.signing = p.signing /\ q.appRoot = p.appRoot /\ q.current = p.current
          /\ q.depth = p.depth /\ q.links = p.links /\ q.fetchedAt = p.fetchedAt
          /\ q.reaches = p.reaches /\ q.status = p.status /\ q.effective = p.effective
          /\ q.validThen = p.validThen /\ q.validNow = p.validNow
          /\ q.compliant = p.compliant /\ q.pressRevoked = p.pressRevoked
          /\ q.reported = p.reported /\ q.annotator = p.annotator
          /\ q.stage4 = p.stage4 /\ q.heads = p.heads /\ q.latest = p.latest
        BY DEF PortType
    <2>3. ReadingsOf(q, q.heads) = ReadingsOf(p, p.heads)
          /\ ReadingsOf(q, q.latest) = ReadingsOf(p, p.latest)
        BY <2>2 DEF ReadingsOf
    <2> HIDE DEF b
    <2>4. QED BY <1>1, <2>1, <2>2, <2>3 DEF Reflects
<1>5. QED BY <1>1, <1>2, <1>3, <1>4, Reflected

\* A verification that goes on before stage 4.
LEMMA GoesOn ==
    ASSUME NEW p, PortSound(p), p.pc \in Early, NEW q \in PortType, q.pc \in Early,
           q.began = p.began, q.status = p.status, q.stage4 = p.stage4, q.heads = p.heads,
           q.latest = p.latest, q.events = p.events, PortLinks(q), PortSeen(q),
           q.pc \in {"authorizer", "ancestor"} => parent[q.current] # Nil /\ q.depth # MaxChainDepth,
           q.pc \in {"sub-card-entry", "app-card", "app-ancestor"} \cup WalkPcs => q.links # <<>>
    PROVE  PortSound(q)
<1>1. PortBegan(q) /\ PortLocated(q)
    BY DEF PortSound, PortBegan, PortLocated, Early, WalkPcs, LogPcs
<1>2. PortReadings(q)
    BY DEF PortReadings, Early, WalkPcs, LogPcs
<1>3. PortVerdict(q)
    BY DEF PortSound, PortVerdict, Early, WalkPcs, Late
<1>4. QED BY <1>1, <1>2, <1>3 DEF PortSound

\* And one that goes on after it.
LEMMA WindsUp ==
    ASSUME NEW p, PortSound(p), p.pc \in Late, NEW q \in PortType, q.pc \in Late,
           q.began = p.began, q.status = p.status, q.links = p.links, q.scope = p.scope
    PROVE  PortSound(q)
<1>1. PortBegan(q) /\ PortLinks(q)
    BY DEF PortSound, PortBegan, PortLinks, SinceBegan, Late
<1>2. PortLocated(q) /\ PortReadings(q)
    BY DEF PortLocated, PortReadings, Early, WalkPcs, LogPcs, Late
<1>3. PortSeen(q) /\ PortVerdict(q)
    BY DEF PortSound, PortSeen, PortVerdict, Late, ListedSince, UndatedSince, SinceBegan
<1>4. QED BY <1>1, <1>2, <1>3 DEF PortSound

LEMMA HopStep ==
    ASSUME PortInv, UNCHANGED vars, NEW p, Source(p), NEW pc \in Pcs, Resume(p, pc),
           p = port \/ StepOf(port.pc) \in Reads \ {"report"},
           \A q \in PortType :
              /\ Tied(q, p) /\ q.pc = pc /\ q.current = p.current
              /\ q.depth = p.depth /\ q.links = p.links /\ q.status = p.status /\ q.scope = p.scope
              /\ q.stage4 = p.stage4 /\ q.heads = p.heads /\ q.latest = p.latest
              /\ q.events = p.events
              => PortSound(q),
           Unmasked(p) /\ Original!Hop(StepOf(pc)) => Original!Stage \/ Mapped' = Mapped
    PROVE  PortInv' /\ ConformStep
<1>1. PortSound(p) /\ p \in PortType
    BY Sources DEF PortSound
<1>2. PICK q : q = port'
    OBVIOUS
<1>3. /\ q \in PortType /\ Tied(q, p) /\ q.pc = pc /\ q.current = p.current
      /\ q.depth = p.depth /\ q.links = p.links /\ q.status = p.status /\ q.scope = p.scope
      /\ q.stage4 = p.stage4 /\ q.heads = p.heads /\ q.latest = p.latest
      /\ q.events = p.events
      /\ AsOriginal(q) = [AsOriginal(p) EXCEPT !.step = StepOf(pc)]
    BY <1>1, <1>2, HopMaps DEF Resume
<1>4. PortSound(q)
    BY <1>3
<1>5. Unmasked(p) => Original!Stage \/ Mapped' = Mapped
    BY <1>2, <1>3 DEF Original!Hop, Unmasked
<1>6. ConformStep
    BY <1>2, <1>3, <1>5, Conforming
<1>7. QED BY <1>2, <1>4, <1>6, PortRests

-----------------------------------------------------------------------------
(* What the port assigns, and what that is for the original                  *)

\* The updates a step of the port makes to its record, and what they are in the original.
WithLinks(p, links, pc) == [p EXCEPT !.links = links, !.pc = pc]
WithChain(a, links, pc) == [a EXCEPT !.step = StepOf(pc), !.chain = links]
Standing(p, card, depth, links, scope, pc) ==
    [p EXCEPT !.current = card, !.depth = depth, !.links = links, !.scope = scope, !.pc = pc]
StandingO(a, card, depth, links, scope, pc) ==
    [a EXCEPT !.step = StepOf(pc), !.chain = links, !.current = card, !.depth = depth,
              !.scope = scope]
Opened(p, reaches, codes, time) ==
    [p EXCEPT !.reaches = reaches, !.errors = @ \cup codes, !.stage4 = TRUE, !.fetchedAt = time,
              !.pc = "card-entry"]
OpenedO(a, reaches, codes, time, unread) ==
    [a EXCEPT !.step = "revocation", !.fetchedAt = time, !.entryAt = unread, !.logAt = unread,
              !.reaches = reaches, !.codes = @ \cup codes]
Closed(p, code) == [p EXCEPT !.reaches = "no", !.errors = @ \cup {code}, !.pc = "done"]
ClosedO(a, code) == [a EXCEPT !.step = "done", !.reaches = "no", !.codes = @ \cup {code}]
Pressed(p, compliant, revoked, codes, pc) ==
    [p EXCEPT !.compliant = compliant, !.pressRevoked = revoked, !.errors = @ \cup codes, !.pc = pc]
PressedO(a, compliant, revoked, codes, pc) ==
    [a EXCEPT !.step = StepOf(pc), !.compliant = compliant, !.pressRevoked = revoked,
              !.codes = @ \cup codes]
Closing(p, reported, annotator, codes, pc) ==
    [p EXCEPT !.reported = reported, !.annotator = annotator, !.errors = @ \cup codes, !.pc = pc]
ClosingO(a, reported, annotator, codes, pc) ==
    [a EXCEPT !.step = StepOf(pc), !.reported = reported, !.annotator = annotator,
              !.codes = @ \cup codes]

LEMMA DirectoryMaps ==
    ASSUME NEW p \in PortType, ~p.stage4, NEW links \in Links, NEW pc \in Pcs, NEW q,
           q = WithLinks(p, links, pc)
    PROVE  /\ q \in PortType /\ Tied(q, p) /\ q.pc = pc /\ q.links = links /\ q.current = p.current
           /\ q.depth = p.depth /\ q.status = p.status /\ q.scope = p.scope
           /\ q.stage4 = p.stage4 /\ q.heads = p.heads /\ q.latest = p.latest
           /\ q.events = p.events
           /\ AsOriginal(q) = WithChain(AsOriginal(p), links, pc)
<1>1. PICK a \in Verification : a = AsOriginal(p) /\ Reflects(a, p)
    BY AsOriginalIs
<1> DEFINE b == WithChain(a, links, pc)
<1>2. /\ q \in PortType /\ Tied(q, p) /\ q.pc = pc /\ q.links = links /\ q.current = p.current
      /\ q.depth = p.depth /\ q.status = p.status /\ q.scope = p.scope
      /\ q.stage4 = p.stage4 /\ q.heads = p.heads /\ q.latest = p.latest
      /\ q.events = p.events
    BY ZenonT(60) DEF WithLinks, PortType, Tied
<1>3. b \in Verification
    BY StepType DEF WithChain, Verification, Links
<1>4. Reflects(b, q)
    BY <1>1 DEF WithLinks, WithChain, Reflects, ReadingsOf, Verification, PortType
<1>5. QED BY <1>1, <1>2, <1>3, <1>4, Reflected

\* Where the walk stands, be it around the app card or up from the master.
LEMMA StandMaps ==
    ASSUME NEW p \in PortType, ~p.stage4, NEW card \in Card, NEW depth \in 0..MaxChainDepth,
           NEW links \in Links, NEW scope \in Answer, NEW pc \in Pcs, NEW q,
           q = Standing(p, card, depth, links, scope, pc)
    PROVE  /\ q \in PortType /\ Tied(q, p) /\ q.pc = pc /\ q.links = links /\ q.current = card
           /\ q.depth = depth /\ q.status = p.status /\ q.scope = scope
           /\ q.stage4 = p.stage4 /\ q.heads = p.heads /\ q.latest = p.latest
           /\ q.events = p.events
           /\ AsOriginal(q) = StandingO(AsOriginal(p), card, depth, links, scope, pc)
<1>1. PICK a \in Verification : a = AsOriginal(p) /\ Reflects(a, p)
    BY AsOriginalIs
<1> DEFINE b == StandingO(a, card, depth, links, scope, pc)
<1>2. /\ q \in PortType /\ Tied(q, p) /\ q.pc = pc /\ q.links = links /\ q.current = card
      /\ q.depth = depth /\ q.status = p.status /\ q.scope = scope
      /\ q.stage4 = p.stage4 /\ q.heads = p.heads /\ q.latest = p.latest
      /\ q.events = p.events
    BY ZenonT(60) DEF Standing, PortType, Tied
<1>3. b \in Verification
    BY StepType DEF StandingO, Verification, Links
<1>4. Reflects(b, q)
    BY <1>1 DEF Standing, StandingO, Reflects, ReadingsOf, Verification, PortType
<1>5. QED BY <1>1, <1>2, <1>3, <1>4, Reflected

LEMMA OpenedMaps ==
    ASSUME NEW p \in PortType, ~p.stage4, p.heads = <<>>, p.latest = <<>>, now \in Nat,
           NEW reaches \in Answer, NEW codes \in SUBSET Code, NEW q,
           q = Opened(p, reaches, codes, now)
    PROVE  /\ q \in PortType /\ Tied(q, p) /\ q.pc = "card-entry" /\ q.links = p.links
           /\ q.status = p.status /\ q.scope = p.scope /\ q.stage4 /\ q.heads = p.heads
           /\ q.latest = p.latest /\ q.events = p.events
           /\ AsOriginal(q) = OpenedO(AsOriginal(p), reaches, codes, now,
                                     [i \in DOMAIN p.links |-> 0])
<1>1. PICK a \in Verification : a = AsOriginal(p) /\ Reflects(a, p)
    BY AsOriginalIs
<1>2. /\ q \in PortType /\ Tied(q, p) /\ q.pc = "card-entry" /\ q.links = p.links
      /\ q.status = p.status /\ q.scope = p.scope /\ q.stage4 /\ q.heads = p.heads
      /\ q.latest = p.latest /\ q.events = p.events
    BY ZenonT(60) DEF Opened, PortType, Tied, Pcs, Awaited
<1>3. PICK unread : /\ unread = [i \in DOMAIN p.links |-> 0] /\ unread \in Seq(Nat)
                    /\ unread = ReadingsOf(q, q.heads) /\ unread = ReadingsOf(q, q.latest)
    <2>1. p.links \in Links /\ DOMAIN p.links = 1..Len(p.links) /\ Len(p.links) \in Nat
        BY DEF PortType, Links
    <2>2. [i \in DOMAIN p.links |-> 0] \in Seq(Nat)
        BY <2>1
    <2>3. \A i \in DOMAIN p.links : ReadSoFar(<<>>, i) = 0
        BY <2>1 DEF ReadSoFar
    <2>4. QED BY <1>2, <2>2, <2>3 DEF ReadingsOf
<1> DEFINE b == OpenedO(a, reaches, codes, now, unread)
<1>4. b \in Verification
    BY <1>3, ZenonT(60) DEF OpenedO, Verification, Reads
<1>5. Reflects(b, q)
    <2>1. b.entryAt = ReadingsOf(q, q.heads) /\ b.logAt = ReadingsOf(q, q.latest)
        BY <1>3 DEF OpenedO, Verification
    <2>2. b.step = StepOf(q.pc) /\ b.fetchedAt = q.fetchedAt /\ b.codes = q.errors
          /\ b.reaches = q.reaches
        BY <1>1, Steps DEF Opened, OpenedO, Reflects, Verification, PortType
    <2>3. QED BY <1>1, <2>1, <2>2 DEF Opened, OpenedO, Reflects, Verification, PortType
<1>6. QED BY <1>1, <1>2, <1>3, <1>4, <1>5, Reflected

LEMMA ClosedMaps ==
    ASSUME NEW p \in PortType, ~p.stage4, NEW code \in Code, NEW q, q = Closed(p, code)
    PROVE  /\ q \in PortType /\ Tied(q, p) /\ q.pc = "done" /\ q.links = p.links
           /\ q.status = p.status /\ q.scope = p.scope
           /\ AsOriginal(q) = ClosedO(AsOriginal(p), code)
<1>1. PICK a \in Verification : a = AsOriginal(p) /\ Reflects(a, p)
    BY AsOriginalIs
<1> DEFINE b == ClosedO(a, code)
<1>2. /\ q \in PortType /\ Tied(q, p) /\ q.pc = "done" /\ q.links = p.links
      /\ q.status = p.status /\ q.scope = p.scope
    BY ZenonT(60) DEF Closed, PortType, Tied, Pcs, Answer
<1>3. b \in Verification
    BY ZenonT(60) DEF ClosedO, Verification, Over, Answer
<1>4. Reflects(b, q)
    BY <1>1, Steps DEF Closed, ClosedO, Reflects, ReadingsOf, Verification, PortType
<1>5. QED BY <1>1, <1>2, <1>3, <1>4, Reflected

\* Stages 5 and 6
LEMMA PressMaps ==
    ASSUME NEW p \in PortType, NEW compliant \in Answer \cup {Nil}, NEW revoked \in BOOLEAN,
           NEW codes \in SUBSET Code, NEW pc \in Pcs, NEW q,
           q = Pressed(p, compliant, revoked, codes, pc)
    PROVE  /\ q \in PortType /\ Tied(q, p) /\ q.pc = pc /\ q.links = p.links
           /\ q.status = p.status /\ q.scope = p.scope
           /\ AsOriginal(q) = PressedO(AsOriginal(p), compliant, revoked, codes, pc)
<1>1. PICK a \in Verification : a = AsOriginal(p) /\ Reflects(a, p)
    BY AsOriginalIs
<1> DEFINE b == PressedO(a, compliant, revoked, codes, pc)
<1>2. /\ q \in PortType /\ Tied(q, p) /\ q.pc = pc /\ q.links = p.links
      /\ q.status = p.status /\ q.scope = p.scope
    BY ZenonT(60) DEF Pressed, PortType, Tied
<1>3. b \in Verification
    BY StepType, ZenonT(60) DEF PressedO, Verification
<1>4. Reflects(b, q)
    <2>1. ReadingsOf(q, q.heads) = ReadingsOf(p, p.heads)
          /\ ReadingsOf(q, q.latest) = ReadingsOf(p, p.latest)
        BY DEF Pressed, ReadingsOf, PortType
    <2>2. b.step = StepOf(q.pc) /\ b.codes = q.errors
          /\ b.compliant = q.compliant /\ b.pressRevoked = q.pressRevoked
        BY <1>1 DEF Pressed, PressedO, Reflects, Verification, PortType
    <2>3. QED BY <1>1, <2>1, <2>2 DEF Pressed, PressedO, Reflects, Verification, PortType
<1>5. QED BY <1>1, <1>2, <1>3, <1>4, Reflected

LEMMA ReportMaps ==
    ASSUME NEW p \in PortType, NEW reported \in BOOLEAN, NEW annotator \in BOOLEAN,
           NEW codes \in SUBSET Code, NEW pc \in Pcs, NEW q,
           q = Closing(p, reported, annotator, codes, pc)
    PROVE  /\ q \in PortType /\ Tied(q, p) /\ q.pc = pc /\ q.links = p.links
           /\ q.status = p.status /\ q.scope = p.scope
           /\ AsOriginal(q) = ClosingO(AsOriginal(p), reported, annotator, codes, pc)
<1>1. PICK a \in Verification : a = AsOriginal(p) /\ Reflects(a, p)
    BY AsOriginalIs
<1> DEFINE b == ClosingO(a, reported, annotator, codes, pc)
<1>2. /\ q \in PortType /\ Tied(q, p) /\ q.pc = pc /\ q.links = p.links
      /\ q.status = p.status /\ q.scope = p.scope
    BY ZenonT(60) DEF Closing, PortType, Tied
<1>3. b \in Verification
    BY StepType, ZenonT(60) DEF ClosingO, Verification
<1>4. Reflects(b, q)
    <2>1. ReadingsOf(q, q.heads) = ReadingsOf(p, p.heads)
          /\ ReadingsOf(q, q.latest) = ReadingsOf(p, p.latest)
        BY DEF Closing, ReadingsOf, PortType
    <2>2. b.step = StepOf(q.pc) /\ b.codes = q.errors
          /\ b.reported = q.reported /\ b.annotator = q.annotator
        BY <1>1 DEF Closing, ClosingO, Reflects, Verification, PortType
    <2>3. QED BY <1>1, <2>1, <2>2 DEF Closing, ClosingO, Reflects, Verification, PortType
<1>5. QED BY <1>1, <1>2, <1>3, <1>4, Reflected

-----------------------------------------------------------------------------
(* Stage 2                                                                   *)

LEMMA Hidden ==
    ASSUME PortInv, port.pc # "none", NEW exists \in BOOLEAN, NEW p \in NoneAnswers(exists)
    PROVE  Source(p) /\ (Unmasked(p) => ~exists)
BY MaskedIs DEF NoneAnswers, Source, Unmasked

\* Where each step of the port stands in the original.
LEMMA StandsAt ==
    ASSUME NEW p, Unmasked(p)
    PROVE  Original!At(StepOf(port.pc)) /\ p = port
BY DEF Unmasked

LEMMA FetchSubCardSafe ==
    ASSUME PortInv, FetchSubCard
    PROVE  PortInv' /\ ConformStep
<1>1. port.pc = "entry" /\ UNCHANGED vars /\ StepOf(port.pc) = "signer" /\ Source(port)
      /\ StepOf(port.pc) \in Reads \ {"report"}
    BY Steps DEF FetchSubCard, Await, Source, Reads
<1>2. subCard.exists \in BOOLEAN
    BY DEF PortInv, ChainTypeOK, SubCardEntry
<1>3. ASSUME NEW p \in NoneAnswers(subCard.exists), Refuse(p, "CARD_NOT_FOUND")
      PROVE  PortInv' /\ ConformStep
    <2>1. Unmasked(p) /\ Original!Reject("CARD_NOT_FOUND") => Original!Stage
        BY <1>1, <1>2, Hidden, StandsAt DEF Original!ReadSigner, Original!Stage
    <2>2. QED BY <1>1, <1>2, <1>3, <2>1, Hidden, RefusedStep DEF Code
<1>4. CASE subCard.exists /\ Refuse(port, "DECRYPTION_FAILED")
    <2>1. Unmasked(port) /\ Original!Reject("DECRYPTION_FAILED") => Original!Stage
        BY <1>1, <1>4, StandsAt DEF Original!ReadSigner, Original!Stage
    <2>2. QED BY <1>1, <1>4, <2>1, RefusedStep DEF Code
<1>5. CASE /\ subCard.exists /\ subCard.flaw = "binding"
           /\ Refuse(port, "ADDRESS_BINDING_MISMATCH")
    <2>1. Unmasked(port) /\ Original!Reject("ADDRESS_BINDING_MISMATCH") => Original!Stage
        BY <1>1, <1>5, StandsAt DEF Original!ReadSigner, Original!Stage
    <2>2. QED BY <1>1, <1>5, <2>1, RefusedStep DEF Code
<1>6. CASE subCard.exists /\ subCard.flaw # "binding" /\ Resume(port, "master-entry")
    <2>1. Unmasked(port) /\ Original!Hop(StepOf("master-entry")) => Original!Stage
        BY <1>1, <1>6, StandsAt, Steps DEF Original!ReadSigner, Original!Stage
    <2>2. ASSUME NEW q \in PortType, Tied(q, port), q.pc = "master-entry",
                 q.links = port.links, q.status = port.status, q.scope = port.scope,
                 q.stage4 = port.stage4, q.heads = port.heads, q.latest = port.latest,
                 q.events = port.events
          PROVE  PortSound(q)
        <3>1. PortSound(port) /\ port.pc \in Early /\ q.pc \in Early
            BY <1>1, <2>2 DEF PortInv, Early
        <3>2. PortLinks(q) /\ PortSeen(q)
            BY <1>1, <1>6, <2>2, <3>1 DEF PortSound, PortLinks, PortSeen, Tied, SinceBegan,
                ListedSince
        <3>3. QED BY <2>2, <3>1, <3>2, GoesOn DEF Tied, WalkPcs
    <2>3. QED BY <1>1, <1>6, <2>1, <2>2, HopStep DEF Pcs, Awaited
<1>7. QED BY <1>3, <1>4, <1>5, <1>6 DEF FetchSubCard

\* A step that stays before stage 4 and keeps its links and its scope.
LEMMA EarlyStep ==
    ASSUME PortInv, UNCHANGED vars, port.pc \in Early, NEW q, q = port', Tied(q, port),
           q \in PortType, q.pc \in Early,
           q.status = port.status, q.stage4 = port.stage4, q.heads = port.heads,
           q.latest = port.latest, q.events = port.events, PortLinks(q), PortSeen(q),
           q.pc \in {"authorizer", "ancestor"} => parent[q.current] # Nil /\ q.depth # MaxChainDepth,
           q.pc \in {"sub-card-entry", "app-card", "app-ancestor"} \cup WalkPcs => q.links # <<>>,
           Unmasked(port) => Original!Stage
    PROVE  PortInv' /\ ConformStep
<1>1. PortSound(port)
    BY DEF PortInv
<1>2. PortSound(q)
    BY <1>1, GoesOn DEF Tied
<1>3. QED BY <1>1, <1>2, PortRests, Conforming DEF Source, Early, WalkPcs

LEMMA FetchMasterSafe ==
    ASSUME PortInv, FetchMaster
    PROVE  PortInv' /\ ConformStep
<1>1. port.pc = "master-entry" /\ UNCHANGED vars /\ StepOf(port.pc) = "master" /\ Source(port)
      /\ StepOf(port.pc) \in Reads \ {"report"}
    BY Steps DEF FetchMaster, Await, Source, Reads
<1>2. Exists(Master) \in BOOLEAN
    BY DEF Exists
<1>3. ASSUME NEW p \in NoneAnswers(Exists(Master)), Refuse(p, "CARD_NOT_FOUND")
      PROVE  PortInv' /\ ConformStep
    <2>1. Unmasked(p) /\ Original!Reject("CARD_NOT_FOUND") => Original!Stage
        BY <1>1, <1>2, Hidden, StandsAt, SameReads DEF Original!ReadMaster, Original!Stage
    <2>2. QED BY <1>1, <1>2, <1>3, <2>1, Hidden, RefusedStep DEF Code
<1>4. CASE Exists(Master) /\ Refuse(port, "DECRYPTION_FAILED")
    <2>1. Unmasked(port) /\ Original!Reject("DECRYPTION_FAILED") => Original!Stage
        BY <1>1, <1>4, StandsAt, SameReads DEF Original!ReadMaster, Original!Stage
    <2>2. QED BY <1>1, <1>4, <2>1, RefusedStep DEF Code
<1>5. CASE /\ Exists(Master) /\ HeadOf(Master).readable /\ ~HeadOf(Master).listed
           /\ Refuse(port, "SUB_CARD_NOT_IN_ACTIVE_DIRECTORY")
    <2>1. Unmasked(port) /\ Original!Reject("SUB_CARD_NOT_IN_ACTIVE_DIRECTORY") => Original!Stage
        BY <1>1, <1>5, StandsAt, SameReads DEF Original!ReadMaster, Original!Stage
    <2>2. QED BY <1>1, <1>5, <2>1, RefusedStep DEF Code
<1>6. CASE /\ Exists(Master) /\ HeadOf(Master).readable /\ HeadOf(Master).listed
           /\ Resume([port EXCEPT !.links = <<[card |-> Master, entry |-> Len(log[Master])]>>],
                     "sub-card-entry")
    <2>1. PICK links : links = <<[card |-> Master, entry |-> Len(log[Master])]>>
        OBVIOUS
    <2>2. /\ links \in Links /\ links # <<>> /\ DOMAIN links = {1}
          /\ links[1].card = Master /\ links[1].entry = Len(log[Master])
        <3>1. Len(log[Master]) \in Nat
            BY ChainAssumption DEF PortInv, ChainTypeOK
        <3>2. QED BY <2>1, <3>1, ChainAssumption DEF Links
    <2>3. Len(log[Master]) \in 1..Len(log[Master]) /\ SinceBegan(port, Master, Len(log[Master]))
          /\ HeadOf(Master) = log[Master][Len(log[Master])]
        <3>1. log[Master] \in Seq(Entry) /\ log[Master] # <<>>
            BY <1>6, ChainAssumption DEF PortInv, ChainTypeOK, Exists
        <3>2. Len(log[Master]) \in 1..Len(log[Master])
            BY <3>1
        <3>3. QED BY <3>2, ChainAssumption DEF PortInv, PortSound, PortBegan, SinceBegan, HeadOf, Last
    <2>4. port \in PortType /\ ~port.stage4 /\ "sub-card-entry" \in Pcs
        BY <1>1 DEF PortInv, PortSound, PortLocated, Early, LogPcs, Pcs, Awaited
    <2>5. PICK q : q = port' /\ q = WithLinks(port, links, "sub-card-entry")
        BY <1>6, <2>1, <2>4 DEF WithLinks, Resume, PortType
    <2>6. /\ q \in PortType /\ Tied(q, port) /\ q.pc = "sub-card-entry" /\ q.links = links
          /\ q.current = port.current
          /\ q.depth = port.depth /\ q.status = port.status /\ q.scope = port.scope
          /\ q.stage4 = port.stage4 /\ q.heads = port.heads /\ q.latest = port.latest
          /\ q.events = port.events
          /\ AsOriginal(q) = WithChain(AsOriginal(port), links, "sub-card-entry")
        <3>1. q = WithLinks(port, links, "sub-card-entry")
            BY <2>5
        <3>2. links \in Links
            BY <2>2
        <3>3. QED BY <2>4, <3>1, <3>2, DirectoryMaps
    <2>7. PortLinks(q)
        BY <2>2, <2>3, <2>6 DEF PortLinks, SinceBegan, Tied
    <2>8. PortSeen(q)
        BY <1>1, <1>6, <2>3, <2>6
        DEF PortInv, PortSound, PortSeen, ListedSince, SinceBegan, Tied
    <2>9. ASSUME Unmasked(port) PROVE Original!Stage
        <3>1. Mapped' = [Mapped EXCEPT !.step = "sub-card",
                           !.chain = <<[card |-> Master, entry |-> Len(log[Master])]>>]
            BY <2>1, <2>5, <2>6, <2>9, Steps DEF Unmasked, WithChain
        <3>2. Original!At("master") /\ Original!Exists(Master)
              /\ Original!HeadOf(Master).readable /\ Original!Listed(Original!HeadOf(Master))
            BY <1>1, <1>6, <2>9, StandsAt, SameReads
        <3>3. Original!ReadMaster
            BY <3>1, <3>2 DEF Original!ReadMaster
        <3>4. QED BY <3>3 DEF Original!Stage
    <2>10. QED BY <1>1, <2>2, <2>5, <2>6, <2>7, <2>8, <2>9, EarlyStep DEF Early
<1>7. QED BY <1>3, <1>4, <1>5, <1>6 DEF FetchMaster

LEMMA StandsStill ==
    ASSUME NEW p \in PortType, NEW card, NEW depth
    PROVE  [p EXCEPT !.current = card, !.depth = depth]
                = Standing(p, card, depth, p.links, p.scope, p.pc)
BY DEF Standing, PortType

LEMMA CheckSubCardSafe ==
    ASSUME PortInv, CheckSubCard
    PROVE  PortInv' /\ ConformStep
<1>1. port.pc = "sub-card-entry" /\ UNCHANGED vars /\ StepOf(port.pc) = "sub-card" /\ Source(port)
      /\ StepOf(port.pc) \in Reads \ {"report"}
    BY Steps DEF CheckSubCard, Await, Source, Reads
<1>2. ASSUME NEW p \in NoneAnswers(subCard.flaw # "registration"),
             Refuse(p, "ADDRESS_BINDING_MISMATCH")
      PROVE  PortInv' /\ ConformStep
    <2>1. Unmasked(p) /\ Original!Reject("ADDRESS_BINDING_MISMATCH") => Original!Stage
        BY <1>1, Hidden, StandsAt DEF Original!ReadSubCard, Original!Stage
    <2>2. QED BY <1>1, <1>2, <2>1, Hidden, RefusedStep DEF Code
<1>3. CASE subCard.flaw = "holder-signature" /\ Refuse(port, "INVALID_HOLDER_SIGNATURE")
    <2>1. Unmasked(port) /\ Original!Reject("INVALID_HOLDER_SIGNATURE") => Original!Stage
        BY <1>1, <1>3, StandsAt DEF Original!ReadSubCard, Original!Stage
    <2>2. QED BY <1>1, <1>3, <2>1, RefusedStep DEF Code
<1>4. CASE /\ subCard.flaw \in {"none", "app-signature"} /\ ~subCard.active
           /\ Refuse(port, "SUB_CARD_INACTIVE")
    <2>1. Unmasked(port) /\ Original!Reject("SUB_CARD_INACTIVE") => Original!Stage
        BY <1>1, <1>4, StandsAt, SameReads DEF Original!ReadSubCard, Original!Stage
    <2>2. QED BY <1>1, <1>4, <2>1, RefusedStep DEF Code
<1>5. CASE /\ subCard.flaw = "app-signature" /\ subCard.active
           /\ Refuse(port, "INVALID_APP_SIGNATURE")
    <2>1. Unmasked(port) /\ Original!Reject("INVALID_APP_SIGNATURE") => Original!Stage
        BY <1>1, <1>5, StandsAt, SameReads DEF Original!ReadSubCard, Original!Stage
    <2>2. QED BY <1>1, <1>5, <2>1, RefusedStep DEF Code
<1>6. CASE /\ subCard.flaw = "none" /\ subCard.active /\ port.appRoot = Nil
           /\ Refuse(port, "APP_CERTIFICATION_ROOT_NOT_CONFIGURED")
    <2>1. Unmasked(port) => Mapped.appRoot = Nil
        BY <1>6, Read
    <2>2. Unmasked(port) /\ Original!Reject("APP_CERTIFICATION_ROOT_NOT_CONFIGURED")
            => Original!Stage
        BY <1>1, <1>6, <2>1, StandsAt, SameReads DEF Original!ReadSubCard, Original!Stage
    <2>3. QED BY <1>1, <1>6, <2>2, RefusedStep DEF Code
<1>7. CASE /\ subCard.flaw = "none" /\ subCard.active /\ port.appRoot # Nil
           /\ Resume(port, "app-card")
    <2>1. Unmasked(port) => Mapped.appRoot # Nil
        BY <1>7, Read
    <2>2. Unmasked(port) /\ Original!Hop(StepOf("app-card")) => Original!Stage
        BY <1>1, <1>7, <2>1, StandsAt, SameReads, Steps
        DEF Original!ReadSubCard, Original!Stage
    <2>3. ASSUME NEW q \in PortType, Tied(q, port), q.pc = "app-card",
                 q.links = port.links, q.status = port.status, q.scope = port.scope,
                 q.stage4 = port.stage4, q.heads = port.heads, q.latest = port.latest,
                 q.events = port.events
          PROVE  PortSound(q)
        <3>1. PortSound(port) /\ port.pc \in Early /\ q.pc \in Early
            BY <1>1, <2>3 DEF PortInv, Early
        <3>2. PortLinks(q) /\ PortSeen(q)
            BY <1>1, <1>7, <2>3, <3>1 DEF PortSound, PortBegan, PortLinks, PortSeen, Tied,
                SinceBegan, ListedSince
        <3>3. q.links # <<>>
            BY <1>1, <2>3, <3>1 DEF PortSound, PortLocated
        <3>4. QED BY <2>3, <3>1, <3>2, <3>3, GoesOn DEF Tied, WalkPcs
    <2>4. QED BY <1>1, <1>7, <2>2, <2>3, HopStep DEF Pcs, Awaited
<1>8. QED BY <1>2, <1>3, <1>4, <1>5, <1>6, <1>7 DEF CheckSubCard

\* Stage 2 ends well, and the walk sets out.
LEMMA CleanStep ==
    ASSUME PortInv, UNCHANGED vars, port.pc \in {"app-card", "app-ancestor"}, ScopeClean(port),
           Unmasked(port) /\ Original!Clean => Original!Stage
    PROVE  PortInv' /\ ConformStep
<1>1. /\ port \in PortType /\ ~port.stage4 /\ "walk" \in Pcs /\ port.links \in Links
      /\ Master \in Card /\ 0 \in 0..MaxChainDepth /\ "yes" \in Answer /\ port.links # <<>>
      /\ PortLinks(port) /\ PortSeen(port) /\ port.pc \in Early
    BY ChainAssumption, VerifierAssumption
    DEF PortInv, PortSound, PortLocated, Early, LogPcs, Pcs,
        Awaited, PortType, Answer
<1>2. PICK q : q = port' /\ q = Standing(port, Master, 0, port.links, "yes", "walk")
    BY <1>1 DEF Standing, ScopeClean, Resume, PortType
<1>3. /\ q \in PortType /\ Tied(q, port) /\ q.pc = "walk" /\ q.links = port.links
      /\ q.status = port.status /\ q.scope = "yes" /\ q.stage4 = port.stage4
      /\ q.heads = port.heads /\ q.latest = port.latest /\ q.events = port.events
      /\ AsOriginal(q) = StandingO(AsOriginal(port), Master, 0, port.links, "yes", "walk")
    BY <1>1, <1>2, StandMaps
<1>4. PortLinks(q)
    BY <1>1, <1>3 DEF PortLinks, SinceBegan, Tied
<1>5. PortSeen(q)
    BY <1>1, <1>3 DEF PortSeen, ListedSince, SinceBegan, Tied
<1>6. ASSUME Unmasked(port) PROVE Original!Stage
    <2>1. PICK a \in Verification : a = AsOriginal(port) /\ Reflects(a, port)
        BY <1>1, AsOriginalIs
    <2>2. AsOriginal(q) = StandingO(a, Master, 0, a.chain, "yes", "walk")
        BY <1>3, <2>1 DEF Reflects
    <2>3. AsOriginal(q) = [a EXCEPT !.step = StepOf("walk"), !.scope = "yes", !.current = Master,
                                    !.depth = 0]
        BY <2>1, <2>2, ZenonT(60) DEF StandingO, Verification
    <2>4. Mapped' = [Mapped EXCEPT !.step = "root", !.scope = "yes", !.current = Master,
                                    !.depth = 0]
        BY <1>2, <1>6, <2>1, <2>3, Steps DEF Unmasked
    <2>5. Original!Clean
        BY <2>4 DEF Original!Clean
    <2>6. QED BY <1>6, <2>5
<1>7. QED BY <1>1, <1>2, <1>3, <1>4, <1>5, <1>6, EarlyStep DEF Early, WalkPcs

LEMMA FetchAppCardSafe ==
    ASSUME PortInv, FetchAppCard
    PROVE  PortInv' /\ ConformStep
<1>1. port.pc = "app-card" /\ UNCHANGED vars /\ StepOf(port.pc) = "app-card" /\ Source(port)
      /\ StepOf(port.pc) \in Reads \ {"report"}
    BY Steps DEF FetchAppCard, Await, Source, Reads
<1>2. Exists(AppCard) \in BOOLEAN
    BY DEF Exists
<1>3. ASSUME NEW p \in NoneAnswers(Exists(AppCard)), Refuse(p, "APP_CARD_CHAIN_NOT_TRUSTED")
      PROVE  PortInv' /\ ConformStep
    <2>1. Unmasked(p) /\ Original!Reject("APP_CARD_CHAIN_NOT_TRUSTED") => Original!Stage
        BY <1>1, <1>2, Hidden, StandsAt, SameReads DEF Original!ReadAppCard, Original!Stage
    <2>2. QED BY <1>1, <1>2, <1>3, <2>1, Hidden, RefusedStep DEF Code
<1>4. CASE Exists(AppCard) /\ Refuse(port, "DECRYPTION_FAILED")
    <2>1. Unmasked(port) /\ Original!Reject("DECRYPTION_FAILED") => Original!Stage
        BY <1>1, <1>4, StandsAt, SameReads DEF Original!ReadAppCard, Original!Stage
    <2>2. QED BY <1>1, <1>4, <2>1, RefusedStep DEF Code
<1>5. CASE Exists(AppCard) /\ HeadOf(AppCard).readable /\ AppCard = port.appRoot /\ ScopeClean(port)
    <2>1. Unmasked(port) => Mapped.appRoot = AppCard
        BY <1>5, Read
    <2>2. Unmasked(port) /\ Original!Clean => Original!Stage
        BY <1>1, <1>5, <2>1, StandsAt, SameReads DEF Original!ReadAppCard, Original!Stage
    <2>3. QED BY <1>1, <1>5, <2>2, CleanStep
<1>6. CASE /\ Exists(AppCard) /\ HeadOf(AppCard).readable /\ AppCard # port.appRoot
           /\ Resume([port EXCEPT !.current = AppCard], "app-ancestor")
    <2>1. /\ port \in PortType /\ ~port.stage4 /\ "app-ancestor" \in Pcs /\ port.links \in Links
          /\ AppCard \in Card /\ port.depth \in 0..MaxChainDepth /\ port.scope \in Answer
          /\ port.links # <<>>
          /\ PortLinks(port) /\ PortSeen(port) /\ port.pc \in Early
        BY <1>1, ChainAssumption DEF PortInv, PortSound, PortLocated, Early, LogPcs, Pcs,
            Awaited, PortType
    <2>2. PICK q : /\ q = port'
                   /\ q = Standing(port, AppCard, port.depth, port.links, port.scope, "app-ancestor")
        BY <1>6, <2>1 DEF Standing, Resume, PortType
    <2>3. /\ q \in PortType /\ Tied(q, port) /\ q.pc = "app-ancestor" /\ q.links = port.links
          /\ q.status = port.status /\ q.scope = port.scope /\ q.stage4 = port.stage4
          /\ q.heads = port.heads /\ q.latest = port.latest /\ q.events = port.events
          /\ AsOriginal(q) = StandingO(AsOriginal(port), AppCard, port.depth, port.links, port.scope,
                                       "app-ancestor")
        BY <2>1, <2>2, StandMaps
    <2>4. PortLinks(q)
        BY <2>1, <2>3 DEF PortLinks, SinceBegan, Tied
    <2>5. PortSeen(q)
        BY <1>1, <2>1, <2>3 DEF PortSeen, ListedSince, SinceBegan, Tied
    <2>6. ASSUME Unmasked(port) PROVE Original!Stage
        <3>1. PICK a \in Verification : a = AsOriginal(port) /\ Reflects(a, port)
            BY <2>1, AsOriginalIs
        <3>2. AsOriginal(q) = [a EXCEPT !.step = StepOf("app-ancestor"), !.current = AppCard]
            <4>1. AsOriginal(q) = StandingO(a, AppCard, a.depth, a.chain, a.scope, "app-ancestor")
                BY <2>3, <3>1 DEF Reflects
            <4>2. QED BY <4>1, ZenonT(60) DEF StandingO, Verification
        <3>3. Mapped' = [Mapped EXCEPT !.step = "app-hop", !.current = AppCard]
              /\ Mapped.appRoot # AppCard
            BY <1>6, <2>2, <2>6, <3>1, <3>2, Read, Steps DEF Unmasked
        <3>4. Original!ReadAppCard
            BY <1>1, <1>6, <2>6, <3>3, StandsAt, SameReads DEF Original!ReadAppCard
        <3>5. QED BY <3>4 DEF Original!Stage
    <2>7. QED BY <1>1, <2>1, <2>2, <2>3, <2>4, <2>5, <2>6, EarlyStep DEF Early, WalkPcs
<1>7. QED BY <1>3, <1>4, <1>5, <1>6 DEF FetchAppCard

LEMMA FetchAppAncestorSafe ==
    ASSUME PortInv, FetchAppAncestor
    PROVE  PortInv' /\ ConformStep
<1> DEFINE next == parent[port.current]
<1>1. port.pc = "app-ancestor" /\ UNCHANGED vars /\ StepOf(port.pc) = "app-hop" /\ Source(port)
      /\ StepOf(port.pc) \in Reads \ {"report"}
    BY Steps DEF FetchAppAncestor, Await, Source, Reads
<1>2. Exists(next) \in BOOLEAN
    BY DEF Exists
<1>3. ASSUME NEW p, Unmasked(p) PROVE
      /\ parent[Mapped.current] = next /\ Mapped.appRoot = port.appRoot
      /\ Original!TooDeep(Mapped.depth) <=> port.depth = MaxChainDepth
      /\ Original!At("app-hop")
    BY <1>1, <1>3, Read, SameReads, StandsAt
<1>4. CASE /\ port.depth = MaxChainDepth \/ next = Nil
           /\ Refuse(port, "APP_CARD_CHAIN_NOT_TRUSTED")
    <2>1. Unmasked(port) /\ Original!Reject("APP_CARD_CHAIN_NOT_TRUSTED") => Original!Stage
        BY <1>3, <1>4 DEF Original!WalkAppChain, Original!Stage
    <2>2. QED BY <1>1, <1>4, <2>1, RefusedStep DEF Code
<1>5. CASE port.depth # MaxChainDepth /\ next = port.appRoot /\ next # Nil /\ ScopeClean(port)
    <2>1. Unmasked(port) /\ Original!Clean => Original!Stage
        BY <1>3, <1>5 DEF Original!WalkAppChain, Original!Stage
    <2>2. QED BY <1>1, <1>5, <2>1, CleanStep
<1>6. ASSUME port.depth # MaxChainDepth, next \notin {Nil, port.appRoot},
             NEW p \in NoneAnswers(Exists(next)), Refuse(p, "APP_CARD_CHAIN_NOT_TRUSTED")
      PROVE  PortInv' /\ ConformStep
    <2>1. Unmasked(p) /\ Original!Reject("APP_CARD_CHAIN_NOT_TRUSTED") => Original!Stage
        BY <1>1, <1>2, <1>3, <1>6, Hidden, SameReads
        DEF Original!WalkAppChain, Original!Stage
    <2>2. QED BY <1>1, <1>2, <1>6, <2>1, Hidden, RefusedStep DEF Code
<1>7. CASE /\ port.depth # MaxChainDepth /\ next \notin {Nil, port.appRoot} /\ Exists(next)
           /\ Refuse(port, "DECRYPTION_FAILED")
    <2>1. Unmasked(port) /\ Original!Reject("DECRYPTION_FAILED") => Original!Stage
        BY <1>3, <1>7, SameReads DEF Original!WalkAppChain, Original!Stage
    <2>2. QED BY <1>1, <1>7, <2>1, RefusedStep DEF Code
<1>8. CASE /\ port.depth # MaxChainDepth /\ next \notin {Nil, port.appRoot} /\ Exists(next)
           /\ HeadOf(next).readable /\ port' = [port EXCEPT !.current = next, !.depth = @ + 1]
    <2>1. /\ port \in PortType /\ ~port.stage4 /\ "app-ancestor" \in Pcs /\ port.links \in Links
          /\ port.depth \in 0..MaxChainDepth /\ port.scope \in Answer
          /\ port.links # <<>> /\ port.current \in Card
          /\ PortLinks(port) /\ PortSeen(port) /\ port.pc \in Early
        BY <1>1, ChainAssumption DEF PortInv, PortSound, PortLocated, Early, LogPcs, Pcs,
            Awaited, PortType
    <2>2. next \in Card /\ port.depth + 1 \in 0..MaxChainDepth
        BY <1>8, <2>1, ChainAssumption, VerifierAssumption, SMTT(40) DEF PortInv, ChainTypeOK
    <2>3. PICK q : /\ q = port'
                   /\ q = Standing(port, next, port.depth + 1, port.links, port.scope, "app-ancestor")
        <3>1. port' = [port EXCEPT !.current = next, !.depth = port.depth + 1]
            BY <1>8
        <3>2. QED BY <1>1, <2>1, <3>1, StandsStill
    <2>4. /\ q \in PortType /\ Tied(q, port) /\ q.pc = "app-ancestor" /\ q.links = port.links
          /\ q.status = port.status /\ q.scope = port.scope /\ q.stage4 = port.stage4
          /\ q.heads = port.heads /\ q.latest = port.latest /\ q.events = port.events
          /\ AsOriginal(q) = StandingO(AsOriginal(port), next, port.depth + 1, port.links, port.scope,
                                       "app-ancestor")
        BY <2>1, <2>2, <2>3, StandMaps
    <2>5. PortLinks(q)
        BY <2>1, <2>4 DEF PortLinks, SinceBegan, Tied
    <2>6. PortSeen(q)
        BY <1>1, <2>1, <2>4 DEF PortSeen, ListedSince, SinceBegan, Tied
    <2>7. ASSUME Unmasked(port) PROVE Original!Stage
        <3>1. PICK a \in Verification : a = AsOriginal(port) /\ Reflects(a, port)
            BY <2>1, AsOriginalIs
        <3>2. AsOriginal(q) = [a EXCEPT !.current = next, !.depth = port.depth + 1]
            <4>1. AsOriginal(q) = StandingO(a, next, port.depth + 1, a.chain, a.scope, "app-ancestor")
                  /\ a.step = StepOf("app-ancestor")
                BY <1>1, <2>4, <3>1 DEF Reflects
            <4>2. QED BY <4>1, ZenonT(60) DEF StandingO, Verification
        <3>3. Mapped' = [Mapped EXCEPT !.current = next, !.depth = Original!Deeper(@)]
            <4>1. Mapped = a /\ a.depth = port.depth
                BY <2>7, <3>1 DEF Unmasked, Reflects
            <4>2. Mapped' = [Mapped EXCEPT !.current = next, !.depth = port.depth + 1]
                BY <2>3, <2>7, <3>2, <4>1 DEF Unmasked
            <4>3. Original!Deeper(a.depth) = port.depth + 1
                BY <4>1, SameReads
            <4>4. QED BY <3>1, <4>1, <4>2, <4>3 DEF Verification
        <3>4. Original!WalkAppChain
            BY <1>3, <1>8, <2>7, <3>3, SameReads DEF Original!WalkAppChain
        <3>5. QED BY <3>4 DEF Original!Stage
    <2>8. QED BY <1>1, <2>1, <2>3, <2>4, <2>5, <2>6, <2>7, EarlyStep DEF Early, WalkPcs
<1>9. QED BY <1>4, <1>5, <1>6, <1>7, <1>8 DEF FetchAppAncestor

-----------------------------------------------------------------------------
(* Stage 3                                                                   *)

\* Stage 4 begins with nothing read.
LEMMA Opening ==
    ASSUME NEW p, PortSound(p), p.pc \in WalkPcs, NEW q \in PortType, q.pc = "card-entry",
           q.began = p.began, q.links = p.links, q.status = p.status, q.scope = p.scope, q.stage4,
           q.heads = p.heads, q.latest = p.latest, q.events = p.events
    PROVE  PortSound(q)
<1>1. PortBegan(q) /\ PortLinks(q)
    BY DEF PortSound, PortBegan, PortLinks, SinceBegan
<1>2. p.heads = <<>> /\ p.latest = <<>> /\ p.events = <<>> /\ p.links # <<>> /\ p.links \in Links
    BY DEF PortSound, PortLocated, Early, PortType
<1>3. PortLocated(q)
    BY DEF PortLocated, Early, WalkPcs, LogPcs
<1>4. PortReadings(q)
    <2>1. Len(p.links) \in Nat /\ Len(p.links) # 0 /\ Len(p.heads) = 0 /\ Len(p.latest) = 0
          /\ Len(p.events) = 0
        BY <1>2 DEF Links
    <2>2. QED BY <2>1 DEF PortReadings
<1>5. PortSeen(q)
    BY DEF PortSound, PortSeen, ListedSince, SinceBegan
<1>6. PortVerdict(q)
    BY DEF PortSound, PortVerdict, Late, WalkPcs
<1>7. QED BY <1>1, <1>3, <1>4, <1>5, <1>6 DEF PortSound

Unread == [i \in DOMAIN Mapped.chain |-> 0]

LEMMA OpenedIs ==
    ASSUME Mapped \in Verification, NEW reaches, NEW codes
    PROVE  /\ OpenedO(Mapped, reaches, {}, now, Unread)
                = [Original!Revocation(Mapped.chain) EXCEPT !.reaches = reaches]
           /\ OpenedO(Mapped, reaches, codes, now, Unread)
                = [Original!Revocation(Mapped.chain) EXCEPT !.reaches = reaches,
                                                            !.codes = @ \cup codes]
<1>1. PICK a \in Verification : a = Mapped
    OBVIOUS
<1>2. PICK unread : unread = Unread
    OBVIOUS
<1>3. Original!Revocation(Mapped.chain)
        = [a EXCEPT !.step = "revocation", !.chain = a.chain, !.fetchedAt = now,
                    !.entryAt = unread, !.logAt = unread]
    BY <1>1, <1>2, Zenon DEF Original!Revocation, Unread
<1>4. OpenedO(a, reaches, {}, now, unread)
        = [[a EXCEPT !.step = "revocation", !.chain = a.chain, !.fetchedAt = now,
                    !.entryAt = unread, !.logAt = unread] EXCEPT !.reaches = reaches]
    BY ZenonT(60) DEF OpenedO, Verification
<1>5. OpenedO(a, reaches, codes, now, unread)
        = [[a EXCEPT !.step = "revocation", !.chain = a.chain, !.fetchedAt = now,
                     !.entryAt = unread, !.logAt = unread] EXCEPT !.reaches = reaches,
                                                                  !.codes = @ \cup codes]
    BY ZenonT(60) DEF OpenedO, Verification
<1>6. QED BY <1>1, <1>2, <1>3, <1>4, <1>5

LEMMA OpenedStep ==
    ASSUME PortInv, UNCHANGED vars, port.pc \in WalkPcs, NEW p, Source(p), NEW reaches \in Answer,
           NEW codes \in SUBSET Code, ToStage4(p, reaches, codes),
           Unmasked(p) /\ Mapped \in Verification /\ Mapped' = OpenedO(Mapped, reaches, codes, now, Unread)
                => Original!Stage
    PROVE  PortInv' /\ ConformStep
<1>1. PortSound(p) /\ p \in PortType /\ p.pc \in WalkPcs
    BY Sources DEF PortSound
<1>2. ~p.stage4 /\ p.heads = <<>> /\ p.latest = <<>> /\ now \in Nat
    BY <1>1, ChainAssumption DEF PortSound, PortLocated, Early, WalkPcs, LogPcs, PortInv,
        ChainTypeOK
<1>3. PICK q : q = port' /\ q = Opened(p, reaches, codes, now)
    BY <1>1 DEF ToStage4, Resume, Opened
<1>4. /\ q \in PortType /\ Tied(q, p) /\ q.pc = "card-entry" /\ q.links = p.links
      /\ q.status = p.status /\ q.scope = p.scope /\ q.stage4 /\ q.heads = p.heads
      /\ q.latest = p.latest /\ q.events = p.events
      /\ AsOriginal(q) = OpenedO(AsOriginal(p), reaches, codes, now,
                                     [i \in DOMAIN p.links |-> 0])
    BY <1>1, <1>2, <1>3, OpenedMaps
<1>5. PortSound(q)
    BY <1>1, <1>4, Opening DEF Tied
<1>6. StepOf(port.pc) \in Reads \ {"report"}
    BY Steps DEF WalkPcs, Reads
<1>7. ASSUME Unmasked(p) PROVE Original!Stage
    <2>1. Mapped = AsOriginal(p) /\ Mapped' = AsOriginal(q) /\ Mapped.chain = p.links
        BY <1>3, <1>7, Read DEF Unmasked
    <2>2. Mapped \in Verification
        BY <1>1, <2>1, OriginalType
    <2>3. Mapped' = OpenedO(Mapped, reaches, codes, now, Unread)
        BY <1>4, <2>1 DEF Unread
    <2>4. QED BY <1>7, <2>2, <2>3
<1>8. ConformStep
    BY <1>3, <1>4, <1>6, <1>7, Conforming
<1>9. QED BY <1>3, <1>5, <1>8, PortRests

LEMMA AskedIs ==
    ASSUME PortInv, port.pc # "none", NEW c
    PROVE  Source(Asked(c)) /\ (Unmasked(Asked(c)) => (Root(c) <=> IsRoot(c)))
BY MaskedIs DEF Asked, Source, Unmasked

LEMMA TakeAncestrySafe ==
    ASSUME PortInv, TakeAncestry
    PROVE  PortInv' /\ ConformStep
<1> DEFINE next == parent[port.current]
<1>1. port.pc = "walk" /\ UNCHANGED vars /\ StepOf(port.pc) = "root" /\ Source(port)
      /\ port.pc \in WalkPcs
    BY Steps DEF TakeAncestry, Await, Source, WalkPcs
<1>2. ASSUME NEW p, Unmasked(p) PROVE
      /\ parent[Mapped.current] = next /\ Mapped.current = port.current
      /\ Original!TooDeep(Mapped.depth) <=> port.depth = MaxChainDepth
      /\ Original!At("root")
    BY <1>1, <1>2, Read, SameReads, StandsAt
<1>3. CASE port.depth = MaxChainDepth /\ ToStage4(port, "no", {"CHAIN_DEPTH_EXCEEDED"})
    <2>1. Unmasked(port) /\ Mapped \in Verification
            /\ Mapped' = OpenedO(Mapped, "no", {"CHAIN_DEPTH_EXCEEDED"}, now, Unread)
            => Original!Stage
        BY <1>2, <1>3, OpenedIs, Zenon DEF Original!WalkChain, Original!Stage
    <2>2. QED BY <1>1, <1>3, <2>1, OpenedStep DEF Answer, Code
<1>4. CASE /\ port.depth # MaxChainDepth /\ next = Nil
           /\ ToStage4(Asked(port.current), YesNo(Root(port.current)), {})
    <2>1. Unmasked(Asked(port.current)) /\ Mapped \in Verification
            /\ Mapped' = OpenedO(Mapped, YesNo(Root(port.current)), {}, now, Unread)
            => Original!Stage
        <3> SUFFICES ASSUME Unmasked(Asked(port.current)), Mapped \in Verification,
                            Mapped' = OpenedO(Mapped, YesNo(Root(port.current)), {}, now, Unread)
                     PROVE  Original!Stage
            OBVIOUS
        <3>1. YesNo(Root(port.current)) = Original!YesNo(Original!IsRoot(Mapped.current))
            <4>1. Root(port.current) <=> IsRoot(port.current)
                BY <1>1, AskedIs
            <4>2. Original!IsRoot(Mapped.current) <=> IsRoot(port.current)
                BY <1>2, SameReads
            <4>3. QED BY <4>1, <4>2 DEF YesNo, Original!YesNo
        <3>2. Mapped' = [Original!Revocation(Mapped.chain) EXCEPT
                            !.reaches = Original!YesNo(Original!IsRoot(Mapped.current))]
            BY <3>1, OpenedIs
        <3>3. QED BY <1>2, <1>4, <3>2, Zenon DEF Original!WalkChain, Original!Stage
    <2>2. Source(Asked(port.current)) /\ YesNo(Root(port.current)) \in Answer
        BY <1>1, AskedIs DEF YesNo, Answer
    <2>3. QED BY <1>1, <1>4, <2>1, <2>2, OpenedStep
<1>5. CASE port.depth # MaxChainDepth /\ next # Nil /\ Resume(port, "authorizer")
    <2>1. Unmasked(port) /\ Original!Hop(StepOf("authorizer")) => Original!Stage
        BY <1>2, <1>5, Steps DEF Original!WalkChain, Original!Stage
    <2>2. ASSUME NEW q \in PortType, Tied(q, port), q.pc = "authorizer", q.current = port.current,
                 q.depth = port.depth,
                 q.links = port.links, q.status = port.status, q.scope = port.scope,
                 q.stage4 = port.stage4, q.heads = port.heads, q.latest = port.latest,
                 q.events = port.events
          PROVE  PortSound(q)
        <3>1. PortSound(port) /\ port.pc \in Early /\ q.pc \in Early
            BY <1>1, <2>2 DEF PortInv, Early, WalkPcs
        <3>2. PortLinks(q) /\ PortSeen(q)
            BY <1>1, <2>2, <3>1 DEF PortSound, PortBegan, PortLinks, PortSeen, Tied,
                SinceBegan, ListedSince
        <3>3. q.links # <<>>
            BY <1>1, <2>2, <3>1 DEF PortSound, PortLocated, WalkPcs
        <3>4. QED BY <1>5, <2>2, <3>1, <3>2, <3>3, GoesOn DEF Tied
    <2>3. QED BY <1>1, <1>5, <2>1, <2>2, HopStep DEF Pcs, Awaited
<1>6. QED BY <1>3, <1>4, <1>5 DEF TakeAncestry

LEMMA IsPolicyAuthorizerSafe ==
    ASSUME PortInv, IsPolicyAuthorizer
    PROVE  PortInv' /\ ConformStep
<1> DEFINE next == parent[port.current]
<1>1. port.pc = "authorizer" /\ UNCHANGED vars /\ StepOf(port.pc) = "next-root" /\ Source(port)
      /\ port.pc \in WalkPcs /\ StepOf(port.pc) \in Reads \ {"report"}
    BY Steps DEF IsPolicyAuthorizer, Await, Source, WalkPcs, Reads
<1>2. ASSUME NEW p, Unmasked(p) PROVE
      parent[Mapped.current] = next /\ Original!At("next-root")
    BY <1>1, <1>2, Read, StandsAt
<1>3. CASE Root(next) /\ ToStage4(port, "yes", {})
    <2>1. Original!IsRoot(next)
        BY <1>3, SameReads DEF Root, IsRoot
    <2>2. ASSUME Unmasked(port), Mapped \in Verification,
                 Mapped' = OpenedO(Mapped, "yes", {}, now, Unread)
          PROVE  Original!Stage
        <3>1. Mapped' = [Original!Revocation(Mapped.chain) EXCEPT !.reaches = "yes"]
            BY <2>2, OpenedIs
        <3>2. QED BY <1>2, <2>1, <2>2, <3>1 DEF Original!AskNextRoot, Original!Stage
    <2>3. QED BY <1>1, <1>3, <2>2, OpenedStep DEF Answer
<1>4. CASE ~Root(next) /\ Resume(Asked(next), "ancestor")
    <2>1. Source(Asked(next))
        BY <1>1, AskedIs
    <2>2. Unmasked(Asked(next)) /\ Original!Hop(StepOf("ancestor")) => Original!Stage
        <3>1. Unmasked(Asked(next)) => ~Original!IsRoot(next)
            BY <1>1, <1>4, AskedIs, SameReads
        <3>2. QED BY <1>2, <3>1, Steps DEF Original!AskNextRoot, Original!Stage
    <2>3. ASSUME NEW q \in PortType, Tied(q, Asked(next)), q.pc = "ancestor",
                 q.current = Asked(next).current, q.depth = Asked(next).depth,
                 q.links = Asked(next).links, q.status = Asked(next).status,
                 q.scope = Asked(next).scope,
                 q.stage4 = Asked(next).stage4, q.heads = Asked(next).heads,
                 q.latest = Asked(next).latest, q.events = Asked(next).events
          PROVE  PortSound(q)
        <3>1. PICK p : p = Asked(next)
            OBVIOUS
        <3>2. PortSound(p) /\ p.pc = "authorizer" /\ p.pc \in Early /\ q.pc \in Early
            BY <1>1, <2>1, <2>3, <3>1, Sources, SMTT(40) DEF Early, WalkPcs
        <3>3. PortLinks(q) /\ PortSeen(q)
            BY <2>3, <3>1, <3>2 DEF PortSound, PortBegan, PortLinks, PortSeen, Tied,
                SinceBegan, ListedSince
        <3>4. q.links # <<>> /\ parent[q.current] # Nil /\ q.depth # MaxChainDepth
            BY <2>3, <3>1, <3>2 DEF PortSound, PortLocated, WalkPcs
        <3>5. QED BY <2>3, <3>1, <3>2, <3>3, <3>4, GoesOn DEF Tied
    <2>4. QED BY <1>1, <1>4, <2>1, <2>2, <2>3, HopStep DEF Pcs, Awaited
<1>5. QED BY <1>3, <1>4 DEF IsPolicyAuthorizer

LEMMA FetchAncestorSafe ==
    ASSUME PortInv, FetchAncestor
    PROVE  PortInv' /\ ConformStep
<1> DEFINE next == parent[port.current]
<1>1. port.pc = "ancestor" /\ UNCHANGED vars /\ StepOf(port.pc) = "ancestor" /\ Source(port)
      /\ port.pc \in WalkPcs /\ StepOf(port.pc) \in Reads \ {"report"}
    BY Steps DEF FetchAncestor, Await, Source, WalkPcs, Reads
<1>2. ASSUME NEW p, Unmasked(p) PROVE
      parent[Mapped.current] = next /\ Original!At("ancestor") /\ Mapped.kind = "signature"
    BY <1>1, <1>2, Read, StandsAt
<1>3. Exists(next) \in BOOLEAN
    BY DEF Exists
<1>4. /\ port \in PortType /\ ~port.stage4 /\ port.links \in Links
      /\ port.depth \in 0..MaxChainDepth /\ port.depth # MaxChainDepth /\ port.scope \in Answer
      /\ port.links # <<>> /\ port.current \in Card /\ next # Nil
      /\ PortLinks(port) /\ PortSeen(port) /\ port.pc \in Early
    BY <1>1, ChainAssumption
    DEF PortInv, PortSound, PortLocated, Early, LogPcs, WalkPcs, PortType
<1>5. ASSUME NEW p \in NoneAnswers(Exists(next)), ToStage4(p, "no", {"CARD_NOT_FOUND"})
      PROVE  PortInv' /\ ConformStep
    <2>1. ASSUME Unmasked(p), Mapped \in Verification,
                 Mapped' = OpenedO(Mapped, "no", {"CARD_NOT_FOUND"}, now, Unread)
          PROVE  Original!Stage
        <3>1. ~Original!Exists(next)
            BY <1>1, <1>3, <2>1, Hidden, SameReads
        <3>2. Mapped' = [Original!Revocation(Mapped.chain) EXCEPT !.reaches = "no",
                                                       !.codes = @ \cup {"CARD_NOT_FOUND"}]
            BY <2>1, OpenedIs
        <3>3. QED BY <1>2, <2>1, <3>1, <3>2, Zenon DEF Original!ReadAncestor, Original!Stage
    <2>2. QED BY <1>1, <1>3, <1>5, <2>1, Hidden, OpenedStep DEF Answer, Code
<1>6. CASE /\ Exists(next)
           /\ Resume([port EXCEPT !.reaches = "no", !.errors = @ \cup {"DECRYPTION_FAILED"}], "done")
    <2>1. PICK q : q = port' /\ q = Closed(port, "DECRYPTION_FAILED")
        BY <1>4, <1>6 DEF Closed, Resume
    <2>2. /\ q \in PortType /\ Tied(q, port) /\ q.pc = "done" /\ q.links = port.links
          /\ q.status = port.status /\ q.scope = port.scope
          /\ AsOriginal(q) = ClosedO(AsOriginal(port), "DECRYPTION_FAILED")
        BY <1>4, <2>1, ClosedMaps DEF Code
    <2>3. PortSound(q)
        BY <2>2, Ended DEF PortInv, Tied
    <2>4. ASSUME Unmasked(port) PROVE Original!Stage
        <3>1. PICK a \in Verification : a = Mapped
            BY <1>4, <2>4, OriginalType DEF Unmasked
        <3>2. Mapped' = [[a EXCEPT !.step = "done"] EXCEPT !.reaches = "no",
                                                           !.codes = @ \cup {"DECRYPTION_FAILED"}]
            <4>1. ClosedO(a, "DECRYPTION_FAILED") =
                    [[a EXCEPT !.step = "done"] EXCEPT !.reaches = "no",
                                                       !.codes = @ \cup {"DECRYPTION_FAILED"}]
                BY DEF ClosedO, Verification
            <4>2. Mapped' = ClosedO(a, "DECRYPTION_FAILED")
                BY <2>1, <2>2, <2>4, <3>1 DEF Unmasked
            <4>3. QED BY <4>1, <4>2
        <3>3. Original!Exists(next)
            BY <1>6, SameReads
        <3>4. Original!ReadAncestor
            BY <1>2, <2>4, <3>1, <3>2, <3>3 DEF Original!ReadAncestor
        <3>5. QED BY <3>4 DEF Original!Stage
    <2>5. QED BY <1>1, <2>1, <2>2, <2>3, <2>4, Conforming, PortRests
<1>7. CASE /\ Exists(next) /\ HeadOf(next).readable
           /\ Resume([port EXCEPT !.current = next, !.depth = @ + 1,
                                 !.links = Append(@, [card |-> next, entry |-> Len(log[next])])],
                    "walk")
    <2>1. /\ next \in Card /\ port.depth + 1 \in 0..MaxChainDepth
        BY <1>4, ChainAssumption, VerifierAssumption, SMTT(30) DEF PortInv, ChainTypeOK
    <2>2. SinceBegan(port, next, Len(log[next])) /\ Len(log[next]) \in Nat
        <3>1. log[next] \in Seq(Entry) /\ log[next] # <<>>
            BY <1>7, <2>1 DEF PortInv, ChainTypeOK, Exists
        <3>2. Len(log[next]) \in 1..Len(log[next])
            BY <3>1
        <3>3. QED BY <2>1, <3>1, <3>2 DEF PortInv, PortSound, PortBegan, SinceBegan
    <2>3. PICK links \in Links :
            links = Append(port.links, [card |-> next, entry |-> Len(log[next])])
        <3>1. PICK e \in [card : Card, entry : Nat] : e = [card |-> next, entry |-> Len(log[next])]
            BY <2>1, <2>2
        <3>2. Append(port.links, e) \in Links
            BY <1>4 DEF Links
        <3>3. QED BY <3>1, <3>2
    <2>4. PICK q : q = port' /\ q = Standing(port, next, port.depth + 1, links, port.scope, "walk")
        BY <1>4, <1>7, <2>3 DEF Standing, Resume, PortType
    <2>5. "walk" \in Pcs
        BY DEF Pcs, Awaited
    <2>6. /\ q \in PortType /\ Tied(q, port) /\ q.pc = "walk" /\ q.links = links
          /\ q.status = port.status /\ q.scope = port.scope /\ q.stage4 = port.stage4
          /\ q.heads = port.heads /\ q.latest = port.latest /\ q.events = port.events
          /\ AsOriginal(q) = StandingO(AsOriginal(port), next, port.depth + 1, links, port.scope,
                                       "walk")
        BY <1>4, <2>1, <2>4, <2>5, StandMaps
    <2>7. links # <<>> /\ PortLinks(q)
        <3>1. links # <<>>
            BY <1>4, <2>3 DEF Links
        <3>2. ASSUME NEW i \in DOMAIN links PROVE SinceBegan(port, links[i].card, links[i].entry)
            <4>1. CASE i \in DOMAIN port.links
                <5>1. links[i] = port.links[i]
                    BY <1>4, <2>3, <4>1 DEF Links
                <5>2. QED BY <1>4, <4>1, <5>1 DEF PortLinks
            <4>2. CASE i \notin DOMAIN port.links
                <5>1. links[i] = [card |-> next, entry |-> Len(log[next])]
                    BY <1>4, <2>3, <3>2, <4>2 DEF Links
                <5>2. QED BY <2>2, <5>1
            <4>3. QED BY <4>1, <4>2
        <3>3. QED BY <2>6, <3>1, <3>2 DEF PortLinks, SinceBegan, Tied
    <2>8. PortSeen(q)
        BY <1>4, <2>6 DEF PortSeen, ListedSince, SinceBegan, Tied
    <2>9. ASSUME Unmasked(port) PROVE Original!Stage
        <3>1. PICK a \in Verification : a = AsOriginal(port) /\ Reflects(a, port)
            BY <1>4, AsOriginalIs
        <3>2. AsOriginal(q) = [a EXCEPT !.step = "root", !.current = next, !.depth = port.depth + 1,
                                        !.chain = links]
            <4>1. AsOriginal(q) = StandingO(a, next, port.depth + 1, links, a.scope, "walk")
                BY <2>6, <3>1 DEF Reflects
            <4>2. QED BY <4>1, Steps, ZenonT(120) DEF StandingO, Verification
        <3>3. Mapped = a /\ a.depth = port.depth /\ a.chain = port.links
            BY <2>9, <3>1 DEF Unmasked, Reflects
        <3>4. Original!Deeper(a.depth) = port.depth + 1
            BY <3>3, SameReads
        <3>5. Mapped' = [Mapped EXCEPT !.step = "root", !.current = next, !.depth = Original!Deeper(@),
                            !.chain = Append(@, [card |-> next, entry |-> Len(log[next])])]
            <4>1. Mapped' = [a EXCEPT !.step = "root", !.current = next, !.depth = port.depth + 1,
                                      !.chain = links]
                BY <2>4, <2>9, <3>2 DEF Unmasked
            <4>2. QED BY <2>3, <3>3, <3>4, <4>1 DEF Verification
        <3>6. Original!ReadAncestor
            BY <1>2, <1>7, <2>9, <3>5, SameReads DEF Original!ReadAncestor
        <3>7. QED BY <3>6 DEF Original!Stage
    <2>10. QED BY <1>1, <1>4, <2>4, <2>6, <2>7, <2>8, <2>9, EarlyStep DEF Early, WalkPcs
<1>8. QED BY <1>5, <1>6, <1>7 DEF FetchAncestor

-----------------------------------------------------------------------------
(* Stages 5 and 6                                                            *)

\* Where the original stays put
LEMMA Unmoved ==
    ASSUME PortInv, Unmasked(port), NEW step, Mapped.step = step, Original!Hop(step)
    PROVE  Mapped' = Mapped
<1>1. PICK a \in Verification : a = Mapped
    <2>1. PICK p \in PortType : p = port
        BY DEF PortInv, PortSound
    <2>2. QED BY <2>1, OriginalType DEF Unmasked
<1>2. [a EXCEPT !.step = step] = a
    BY <1>1 DEF Verification
<1>3. QED BY <1>1, <1>2 DEF Original!Hop

LEMMA SignerAgainSafe ==
    ASSUME PortInv, SignerAgain
    PROVE  PortInv' /\ ConformStep
<1>1. port.pc = "signer-again" /\ UNCHANGED vars /\ StepOf(port.pc) = "press"
      /\ port.pc \in Late /\ StepOf(port.pc) \in Reads \ {"report"}
    BY Steps DEF SignerAgain, Await, Late, Reads
<1>2. ASSUME NEW p, Source(p), NEW pc \in Pcs, pc \in Late, NEW q \in PortType,
             Tied(q, p), q.pc = pc, q.links = p.links, q.status = p.status, q.scope = p.scope
      PROVE  PortSound(q)
    BY <1>1, <1>2, Sources, WindsUp DEF Tied
<1>3. CASE Resume(port, "press")
    <2>1. Unmasked(port) /\ Original!Hop(StepOf("press")) => Mapped' = Mapped
        BY <1>1, Read, Steps, Unmoved
    <2>2. Source(port) /\ "press" \in Pcs /\ "press" \in Late
        BY <1>1 DEF Source, Pcs, Awaited, Late
    <2>3. QED BY <1>1, <1>2, <1>3, <2>1, <2>2, HopStep
<1>4. CASE Resume(Masked, "annotations")
    <2>1. ~Unmasked(Masked)
        BY MaskedIs DEF Unmasked
    <2>2. Source(Masked) /\ "annotations" \in Pcs /\ "annotations" \in Late
        BY <1>1 DEF Source, Pcs, Awaited, Late
    <2>3. QED BY <1>1, <1>2, <1>4, <2>1, <2>2, HopStep
<1>5. QED BY <1>3, <1>4 DEF SignerAgain

LEMMA PressedStep ==
    ASSUME PortInv, UNCHANGED vars, port.pc = "press", NEW p, Source(p),
           NEW compliant \in Answer \cup {Nil}, NEW revoked \in BOOLEAN, NEW codes \in SUBSET Code,
           NEW pc \in {"annotations", "report"}, port' = Pressed(p, compliant, revoked, codes, pc),
           Unmasked(p) /\ Mapped \in Verification
                /\ Mapped' = PressedO(Mapped, compliant, revoked, codes, pc) => Original!Stage
    PROVE  PortInv' /\ ConformStep
<1>1. PortSound(p) /\ p \in PortType /\ p.pc \in Late /\ pc \in Pcs /\ pc \in Late
    BY Sources DEF PortSound, Late, Pcs, Awaited
<1>2. PICK q : q = port'
    OBVIOUS
<1>3. /\ q \in PortType /\ Tied(q, p) /\ q.pc = pc /\ q.links = p.links
      /\ q.status = p.status /\ q.scope = p.scope
      /\ AsOriginal(q) = PressedO(AsOriginal(p), compliant, revoked, codes, pc)
    BY <1>1, <1>2, PressMaps
<1>4. PortSound(q)
    BY <1>1, <1>3, WindsUp DEF Tied
<1>5. StepOf(port.pc) \in Reads \ {"report"}
    BY Steps DEF Reads
<1>6. ASSUME Unmasked(p) PROVE Original!Stage
    <2>1. Mapped = AsOriginal(p) /\ Mapped' = AsOriginal(q)
        BY <1>2, <1>6 DEF Unmasked
    <2>2. Mapped \in Verification
        BY <1>1, <2>1, OriginalType
    <2>3. QED BY <1>3, <1>6, <2>1, <2>2
<1>7. QED BY <1>2, <1>3, <1>4, <1>5, <1>6, Conforming, PortRests

LEMMA CheckPressSafe ==
    ASSUME PortInv, CheckPress
    PROVE  PortInv' /\ ConformStep
<1> DEFINE status == Last(pressLog)
           seen == IF Authorization = status THEN port ELSE Masked
           inactive == (Authorization = "inactive")
<1>1. port.pc = "press" /\ UNCHANGED vars /\ Source(port) /\ Source(Masked) /\ Source(seen)
    BY DEF CheckPress, Await, Source
<1>2. ASSUME NEW p, Source(p) PROVE p \in PortType /\ p.pressRevoked \in BOOLEAN
    BY <1>2, Sources DEF PortSound, PortType
<1>3. ASSUME NEW p, Unmasked(p) PROVE Original!At("press") /\ Original!Last(pressLog) = status
    <2>1. Original!Last(pressLog) = status
        BY Zenon DEF Original!Last, Last
    <2>2. QED BY <1>1, <1>3, <2>1, StandsAt, Steps
<1>4. CASE Resume([port EXCEPT !.compliant = Nil, !.errors = @ \cup {"POLICY_FETCH_FAILED"}],
                  "annotations")
    <2>1. port' = Pressed(port, Nil, port.pressRevoked, {"POLICY_FETCH_FAILED"}, "annotations")
        <3>1. PICK p \in PortType : p = port
            BY <1>1, <1>2
        <3>2. QED BY <1>4, <3>1 DEF Resume, Pressed, PortType
    <2>2. ASSUME Unmasked(port), Mapped \in Verification,
                 Mapped' = PressedO(Mapped, Nil, port.pressRevoked, {"POLICY_FETCH_FAILED"},
                                    "annotations")
          PROVE  Original!Stage
        <3>1. Mapped.pressRevoked = port.pressRevoked
            BY <2>2 DEF Unmasked, AsOriginal
        <3>2. Mapped' = [Mapped EXCEPT !.step = "annotate", !.compliant = Nil,
                                       !.codes = @ \cup {"POLICY_FETCH_FAILED"}]
            BY <2>2, <3>1, Steps, ZenonT(60) DEF PressedO, Verification
        <3>3. QED BY <1>3, <2>2, <3>2 DEF Original!ReadPress, Original!Stage
    <2>3. QED BY <1>1, <1>2, <2>1, <2>2, PressedStep DEF Code
<1>5. CASE /\ Authorization = "none" \/ ~subCard.complete
           /\ Resume([seen EXCEPT !.compliant = "no", !.pressRevoked = inactive], "report")
    <2>1. port' = Pressed(seen, "no", inactive, {}, "report")
        <3>1. PICK p \in PortType : p = seen
            BY <1>1, <1>2
        <3>2. QED BY <1>5, <3>1, ZenonT(120) DEF Resume, Pressed, PortType
    <2>2. ASSUME Unmasked(seen), Mapped \in Verification,
                 Mapped' = PressedO(Mapped, "no", inactive, {}, "report")
          PROVE  Original!Stage
        <3>1. Authorization = status
            BY <2>2, MaskedIs DEF Unmasked
        <3>2. Mapped' = [Mapped EXCEPT !.step = "report", !.compliant = "no",
                                       !.pressRevoked = (status = "inactive")]
            BY <2>2, <3>1, Steps, ZenonT(60) DEF PressedO, Verification
        <3>3. Original!NeverAuthorized(status) \/ ~subCard.complete
            BY <1>5, <3>1 DEF Original!NeverAuthorized
        <3>4. QED BY <1>3, <2>2, <3>2, <3>3 DEF Original!ReadPress, Original!Stage
    <2>3. QED BY <1>1, <2>1, <2>2, PressedStep DEF Answer
<1>6. CASE /\ Authorization # "none" /\ subCard.complete
           /\ Resume([port EXCEPT !.compliant = "yes", !.pressRevoked = inactive], "annotations")
    <2>1. port' = Pressed(port, "yes", inactive, {}, "annotations")
        <3>1. PICK p \in PortType : p = port
            BY <1>1, <1>2
        <3>2. QED BY <1>6, <3>1, ZenonT(60) DEF Resume, Pressed, PortType
    <2>2. ASSUME Unmasked(port), Mapped \in Verification,
                 Mapped' = PressedO(Mapped, "yes", inactive, {}, "annotations")
          PROVE  Original!Stage
        <3>1. Authorization = status
            BY <1>6 DEF Authorization
        <3>2. Mapped' = [Mapped EXCEPT !.step = "annotate", !.compliant = "yes",
                                       !.pressRevoked = (status = "inactive")]
            BY <2>2, <3>1, Steps, ZenonT(60) DEF PressedO, Verification
        <3>3. ~Original!NeverAuthorized(status) /\ subCard.complete
            BY <1>6, <3>1 DEF Original!NeverAuthorized
        <3>4. QED BY <1>3, <2>2, <3>2, <3>3 DEF Original!ReadPress, Original!Stage
    <2>3. QED BY <1>1, <2>1, <2>2, PressedStep DEF Answer
<1>7. CASE Resume([Masked EXCEPT !.compliant = "no"], "report")
    <2>1. PICK p \in PortType : p = Masked /\ Source(p) /\ p.pressRevoked \in BOOLEAN
        BY <1>1, <1>2
    <2>2. port' = Pressed(p, "no", p.pressRevoked, {}, "report")
        BY <1>7, <2>1, ZenonT(60) DEF Resume, Pressed, PortType
    <2>3. ~Unmasked(p)
        BY <2>1, MaskedIs DEF Unmasked
    <2>4. QED BY <1>1, <2>1, <2>2, <2>3, PressedStep DEF Answer
<1>8. QED BY <1>4, <1>5, <1>6, <1>7 DEF CheckPress

LEMMA ClosingStep ==
    ASSUME PortInv, UNCHANGED vars, port.pc \in {"report", "annotations"},
           NEW reported \in BOOLEAN, NEW annotator \in BOOLEAN, NEW codes \in SUBSET Code,
           NEW pc \in {"annotations", "done"},
           port' = Closing(port, reported, annotator, codes, pc),
           Unmasked(port) /\ Mapped \in Verification
                /\ Mapped' = ClosingO(Mapped, reported, annotator, codes, pc) => Original!Stage
    PROVE  PortInv' /\ ConformStep
<1>1. PortSound(port) /\ port \in PortType /\ port.pc \in Late /\ pc \in Pcs /\ pc \in Late
      /\ Source(port)
    BY DEF PortInv, PortSound, Late, Pcs, Awaited, Source
<1>2. PICK q : q = port'
    OBVIOUS
<1>3. /\ q \in PortType /\ Tied(q, port) /\ q.pc = pc /\ q.links = port.links
      /\ q.status = port.status /\ q.scope = port.scope
      /\ AsOriginal(q) = ClosingO(AsOriginal(port), reported, annotator, codes, pc)
    BY <1>1, <1>2, ReportMaps
<1>4. PortSound(q)
    BY <1>1, <1>3, WindsUp DEF Tied
<1>5. ASSUME Unmasked(port) PROVE Original!Stage
    <2>1. Mapped = AsOriginal(port) /\ Mapped' = AsOriginal(q)
        BY <1>2, <1>5 DEF Unmasked
    <2>2. Mapped \in Verification
        BY <1>1, <2>1, OriginalType
    <2>3. QED BY <1>3, <1>5, <2>1, <2>2
<1>6. QED BY <1>1, <1>2, <1>3, <1>4, <1>5, Conforming, PortRests

LEMMA ReportSafe ==
    ASSUME PortInv, Report
    PROVE  PortInv' /\ ConformStep
<1>1. port.pc = "report" /\ UNCHANGED vars
    BY DEF Report, Await
<1>2. PICK p \in PortType : p = port /\ p.annotator \in BOOLEAN /\ p.reported \in BOOLEAN
    BY DEF PortInv, PortSound, PortType
<1>3. ASSUME Unmasked(port) PROVE Original!At("report") /\ Mapped.annotator = port.annotator
                                  /\ Mapped.reported = port.reported
    <2>1. Mapped.annotator = port.annotator /\ Mapped.reported = port.reported
        BY <1>3 DEF Unmasked, AsOriginal
    <2>2. QED BY <1>1, <1>3, <2>1, StandsAt, Steps
<1>4. CASE Resume([port EXCEPT !.reported = TRUE], "annotations")
    <2>1. port' = Closing(port, TRUE, port.annotator, {}, "annotations")
        BY <1>2, <1>4 DEF Resume, Closing, PortType
    <2>2. ASSUME Unmasked(port), Mapped \in Verification,
                 Mapped' = ClosingO(Mapped, TRUE, port.annotator, {}, "annotations")
          PROVE  Original!Stage
        <3>1. Mapped' = [Mapped EXCEPT !.step = "annotate", !.reported = TRUE]
            BY <1>3, <2>2, Steps, ZenonT(60) DEF ClosingO, Verification
        <3>2. QED BY <1>3, <2>2, <3>1 DEF Original!ReportNonCompliance, Original!Stage
    <2>3. QED BY <1>1, <1>2, <2>1, <2>2, ClosingStep
<1>5. CASE Resume([port EXCEPT !.errors = @ \cup {"NON_COMPLIANCE_REPORT_FAILED"}], "annotations")
    <2>1. port' = Closing(port, port.reported, port.annotator, {"NON_COMPLIANCE_REPORT_FAILED"},
                          "annotations")
        BY <1>2, <1>5 DEF Resume, Closing, PortType
    <2>2. ASSUME Unmasked(port), Mapped \in Verification,
                 Mapped' = ClosingO(Mapped, port.reported, port.annotator,
                                    {"NON_COMPLIANCE_REPORT_FAILED"}, "annotations")
          PROVE  Original!Stage
        <3>1. Mapped' = [Mapped EXCEPT !.step = "annotate",
                                       !.codes = @ \cup {"NON_COMPLIANCE_REPORT_FAILED"}]
            BY <1>3, <2>2, Steps, ZenonT(60) DEF ClosingO, Verification
        <3>2. QED BY <1>3, <2>2, <3>1 DEF Original!ReportNonCompliance, Original!Stage
    <2>3. QED BY <1>1, <1>2, <2>1, <2>2, ClosingStep DEF Code
<1>6. QED BY <1>4, <1>5 DEF Report

LEMMA AnnotationsSafe ==
    ASSUME PortInv, Annotations
    PROVE  PortInv' /\ ConformStep
<1>1. port.pc = "annotations" /\ UNCHANGED vars /\ Source(port)
    BY DEF Annotations, Await, Source
<1>2. PICK p \in PortType : p = port /\ p.reported \in BOOLEAN
    BY DEF PortInv, PortSound, PortType
<1>3. ASSUME Unmasked(port) PROVE Original!At("annotate") /\ Mapped.reported = port.reported
    <2>1. Mapped.reported = port.reported
        BY <1>3 DEF Unmasked, AsOriginal
    <2>2. QED BY <1>1, <1>3, <2>1, StandsAt, Steps
<1>4. CASE /\ port.provider = "strict"
           /\ Resume([port EXCEPT !.annotator = Root(AppCard)], "done")
    <2>1. PICK root \in BOOLEAN : root = Root(AppCard)
        BY DEF Root
    <2>2. port' = Closing(port, port.reported, root, {}, "done")
        BY <1>2, <1>4, <2>1, ZenonT(60) DEF Resume, Closing, PortType
    <2>3. Original!IsRoot(AppCard) = root
        <3>1. Original!IsRoot(AppCard) \in BOOLEAN
            BY DEF Original!IsRoot
        <3>2. Original!IsRoot(AppCard) <=> IsRoot(AppCard)
            BY SameReads
        <3>3. IsRoot(AppCard) <=> root
            BY <1>4, <2>1 DEF Root, IsRoot
        <3>4. QED BY <2>1, <3>1, <3>2, <3>3
    <2>4. ASSUME Unmasked(port), Mapped \in Verification,
                 Mapped' = ClosingO(Mapped, port.reported, root, {}, "done")
          PROVE  Original!Stage
        <3>1. Mapped' = [Mapped EXCEPT !.step = "done", !.annotator = Original!IsRoot(AppCard)]
            BY <1>3, <2>3, <2>4, Steps, ZenonT(60) DEF ClosingO, Verification
        <3>2. QED BY <1>3, <2>4, <3>1 DEF Original!Annotate, Original!Stage
    <2>5. QED BY <1>1, <1>2, <2>2, <2>4, ClosingStep
<1>5. CASE Resume(port, "done")
    <2>1. Unmasked(port) /\ Original!Hop(StepOf("done")) => Original!Stage
        BY <1>3, Steps DEF Original!Annotate, Original!Stage
    <2>2. ASSUME NEW q \in PortType, Tied(q, port), q.pc = "done", q.links = port.links,
                 q.status = port.status, q.scope = port.scope
          PROVE  PortSound(q)
        BY <2>2, Ended DEF Tied, PortInv
    <2>3. QED BY <1>1, <1>5, <2>1, <2>2, HopStep DEF Pcs
<1>6. QED BY <1>4, <1>5 DEF Annotations

LEMMA RaiseSafe ==
    ASSUME PortInv, Raise
    PROVE  PortInv' /\ ConformStep
<1>1. /\ UNCHANGED vars /\ Resume(port, "raised") /\ Source(port)
      /\ port.pc \in Awaited \ {"report"}
    BY DEF Raise, Source, Awaited
<1>2. StepOf(port.pc) \in Reads \ {"report"}
    BY <1>1, StepType
<1>3. ASSUME Unmasked(port), Original!Hop(StepOf("raised")) PROVE Original!Stage
    <2>1. Original!Throw
        BY <1>2, <1>3, StandsAt, Read, SameNames, Steps
        DEF Original!Throw, Original!Hop, Original!At
    <2>2. QED BY <2>1 DEF Original!Stage
<1>4. ASSUME NEW q \in PortType, Tied(q, port), q.pc = "raised", q.links = port.links,
             q.status = port.status, q.scope = port.scope
      PROVE  PortSound(q)
    BY <1>4, Ended DEF Tied, PortInv
<1>5. QED BY <1>1, <1>3, <1>4, HopStep DEF Pcs

-----------------------------------------------------------------------------
(* Stage 4: what is read                                                     *)

\* What a read of stage 4 leaves as it is
Reading4(q, p) ==
    /\ Tied(q, p) /\ q.links = p.links /\ q.status = p.status /\ q.scope = p.scope
    /\ q.stage4 = p.stage4

LEMMA ReadOn ==
    ASSUME NEW links \in Links, NEW reads \in Seq(Nat), NEW n \in Nat,
           NEW i \in DOMAIN links, i = Len(reads) + 1
    PROVE  [j \in DOMAIN links |-> ReadSoFar(Append(reads, n), j)]
                = [[j \in DOMAIN links |-> ReadSoFar(reads, j)] EXCEPT ![i] = n]
<1>1. DOMAIN links = 1..Len(links) /\ Len(links) \in Nat
    BY DEF Links
<1>2. ASSUME NEW j \in DOMAIN links
      PROVE  ReadSoFar(Append(reads, n), j) = IF j = i THEN n ELSE ReadSoFar(reads, j)
    <2>1. Len(Append(reads, n)) = i /\ Append(reads, n)[i] = n
          /\ (j <= Len(reads) => Append(reads, n)[j] = reads[j])
        BY <1>1
    <2>2. QED BY <1>1, <2>1 DEF ReadSoFar
<1>3. QED BY <1>2

WithHeads(p, heads) == [p EXCEPT !.heads = heads, !.pc = "block-number"]
WithLatest(p, latest) ==
    [p EXCEPT !.latest = latest, !.block = 1, !.window = Window, !.got = {}, !.pc = "logs"]

LEMMA StillTyped ==
    ASSUME NEW p \in PortType, NEW reads \in Seq(Nat)
    PROVE  WithHeads(p, reads) \in PortType /\ WithLatest(p, reads) \in PortType
<1>1. WithHeads(p, reads) \in PortType
    BY ZenonT(60) DEF WithHeads, PortType, Pcs, Awaited
<1>2. WithLatest(p, reads) \in PortType
    BY WindowAssumption, ZenonT(60) DEF WithLatest, PortType, Pcs, Awaited
<1>3. QED BY <1>1, <1>2

LEMMA HeadMaps ==
    ASSUME NEW p \in PortType, p.stage4, p.pc = "card-entry", NEW n \in Nat,
           NEW i \in DOMAIN p.links, i = Len(p.heads) + 1, NEW q, q = WithHeads(p, Append(p.heads, n))
    PROVE  /\ q \in PortType /\ Reading4(q, p) /\ q.pc = "block-number" /\ q.heads = Append(p.heads, n)
           /\ q.latest = p.latest /\ q.events = p.events
           /\ AsOriginal(q) = [AsOriginal(p) EXCEPT !.entryAt[i] = n]
<1>1. PICK a \in Verification : a = AsOriginal(p) /\ Reflects(a, p)
    BY AsOriginalIs
<1>2. p.heads \in Seq(Nat) /\ p.links \in Links
    BY DEF PortType
<1>3. PICK heads \in Seq(Nat) : heads = Append(p.heads, n)
    <2>1. PICK old \in Seq(Nat) : old = p.heads
        BY <1>2
    <2>2. Append(old, n) \in Seq(Nat)
        OBVIOUS
    <2>3. QED BY <2>1, <2>2
<1>4. /\ q \in PortType /\ Reading4(q, p) /\ q.pc = "block-number" /\ q.heads = heads
      /\ q.latest = p.latest /\ q.events = p.events
    <2>1. q = WithHeads(p, heads)
        BY <1>3
    <2>2. q \in PortType
        BY <2>1, StillTyped
    <2>3. QED BY <2>1, <2>2, ZenonT(60) DEF WithHeads, PortType, Reading4, Tied
<1>5. PICK reads \in Seq(Nat) : /\ reads = [j \in DOMAIN p.links |-> ReadSoFar(heads, j)]
                                /\ reads = [a.entryAt EXCEPT ![i] = n]
    <2>1. PICK old \in Seq(Nat), links \in Links : old = p.heads /\ links = p.links
        BY <1>2
    <2>2. a.entryAt = [j \in DOMAIN links |-> ReadSoFar(old, j)]
        BY <1>1, <2>1 DEF Reflects, ReadingsOf
    <2>3. [j \in DOMAIN links |-> ReadSoFar(heads, j)] = [a.entryAt EXCEPT ![i] = n]
        <3>1. i \in DOMAIN links /\ i = Len(old) + 1 /\ heads = Append(old, n)
            BY <1>3, <2>1
        <3>2. QED BY <2>2, <3>1, ReadOn
    <2>4. [j \in DOMAIN links |-> ReadSoFar(heads, j)] \in Seq(Nat)
        BY Reading
    <2>5. QED BY <2>1, <2>3, <2>4
<1> DEFINE b == [a EXCEPT !.entryAt = reads]
<1>6. b \in Verification
    BY DEF Verification
<1>7. Reflects(b, q)
    <2>1. b.entryAt = ReadingsOf(q, q.heads) /\ b.logAt = ReadingsOf(q, q.latest)
        BY <1>1, <1>4, <1>5 DEF Reflects, ReadingsOf, Verification, Reading4
    <2>2. StepOf(q.pc) = StepOf(p.pc)
        BY <1>4, Steps
    <2>3. QED BY <1>1, <1>3, <2>1, <2>2 DEF WithHeads, Reflects, Verification, PortType
<1>8. QED BY <1>1, <1>3, <1>4, <1>5, <1>6, <1>7, Reflected

LoggedO(a, i, n) == [a EXCEPT !.logAt[i] = n]

LatestRead(q, p, i, n) ==
    /\ q \in PortType /\ Reading4(q, p) /\ q.pc = "logs" /\ q.heads = p.heads
    /\ q.latest = Append(p.latest, n) /\ q.events = p.events
    /\ q.block = 1 /\ q.window = Window /\ q.got = {}
    /\ AsOriginal(q) = LoggedO(AsOriginal(p), i, n)

LEMMA LatestMaps ==
    ASSUME NEW p \in PortType, p.stage4, p.pc = "block-number", NEW n \in Nat,
           NEW i \in DOMAIN p.links, i = Len(p.latest) + 1, NEW q, q = WithLatest(p, Append(p.latest, n))
    PROVE  LatestRead(q, p, i, n)
<1>1. PICK a \in Verification : a = AsOriginal(p) /\ Reflects(a, p)
    BY AsOriginalIs
<1>2. p.latest \in Seq(Nat) /\ p.links \in Links
    BY DEF PortType
<1>3. PICK latest \in Seq(Nat) : latest = Append(p.latest, n)
    <2>1. PICK old \in Seq(Nat) : old = p.latest
        BY <1>2
    <2>2. Append(old, n) \in Seq(Nat)
        OBVIOUS
    <2>3. QED BY <2>1, <2>2
<1>4. /\ q \in PortType /\ Reading4(q, p) /\ q.pc = "logs" /\ q.heads = p.heads
      /\ q.latest = latest /\ q.events = p.events
      /\ q.block = 1 /\ q.window = Window /\ q.got = {}
    <2>1. q = WithLatest(p, latest)
        BY <1>3
    <2>2. q \in PortType
        BY <2>1, StillTyped
    <2>3. QED BY <2>1, <2>2, ZenonT(60) DEF WithLatest, PortType, Reading4, Tied
<1>5. PICK reads \in Seq(Nat) : /\ reads = [j \in DOMAIN p.links |-> ReadSoFar(latest, j)]
                                /\ reads = [a.logAt EXCEPT ![i] = n]
    <2>1. PICK old \in Seq(Nat), links \in Links : old = p.latest /\ links = p.links
        BY <1>2
    <2>2. a.logAt = [j \in DOMAIN links |-> ReadSoFar(old, j)]
        BY <1>1, <2>1 DEF Reflects, ReadingsOf
    <2>3. [j \in DOMAIN links |-> ReadSoFar(latest, j)] = [a.logAt EXCEPT ![i] = n]
        <3>1. i \in DOMAIN links /\ i = Len(old) + 1 /\ latest = Append(old, n)
            BY <1>3, <2>1
        <3>2. QED BY <2>2, <3>1, ReadOn
    <2>4. [j \in DOMAIN links |-> ReadSoFar(latest, j)] \in Seq(Nat)
        BY Reading
    <2>5. QED BY <2>1, <2>3, <2>4
<1> DEFINE b == [a EXCEPT !.logAt = reads]
<1>6. b \in Verification
    BY DEF Verification
<1>7. Reflects(b, q)
    <2>1. b.entryAt = ReadingsOf(q, q.heads) /\ b.logAt = ReadingsOf(q, q.latest)
        BY <1>1, <1>4, <1>5 DEF Reflects, ReadingsOf, Verification, Reading4
    <2>2. StepOf(q.pc) = StepOf(p.pc)
        BY <1>4, Steps
    <2>3. QED BY <1>1, <1>3, <2>1, <2>2 DEF WithLatest, Reflects, Verification, PortType
<1>8. QED BY <1>1, <1>3, <1>4, <1>5, <1>6, <1>7, Reflected DEF LatestRead, LoggedO

\* A verification that goes on reading.
LEMMA ReadsOn ==
    ASSUME NEW p, PortSound(p), p.pc \in LogPcs, NEW q \in PortType, q.pc \in LogPcs,
           Reading4(q, p), PortReadings(q)
    PROVE  PortSound(q)
<1>1. PortBegan(q) /\ PortLinks(q)
    BY DEF PortSound, PortBegan, PortLinks, SinceBegan, Reading4, Tied, LogPcs
<1>2. PortLocated(q)
    BY DEF PortSound, PortLocated, Early, WalkPcs, LogPcs, Reading4
<1>3. PortSeen(q)
    BY DEF PortSound, PortSeen, ListedSince, SinceBegan, Reading4, Tied, LogPcs
<1>4. PortVerdict(q)
    BY DEF PortSound, PortVerdict, Late, LogPcs, Reading4
<1>5. QED BY <1>1, <1>2, <1>3, <1>4 DEF PortSound

\* The card that stage 4 is at
LEMMA LinkIs ==
    ASSUME PortInv, port.pc \in LogPcs
    PROVE  /\ Len(port.events) + 1 \in DOMAIN port.links /\ Len(port.events) \in Nat
           /\ Link \in Card /\ Link = port.links[Len(port.events) + 1].card
           /\ Len(log[Link]) \in Nat /\ Len(log[Link]) # 0 /\ port.stage4
           /\ port.heads \in Seq(Nat) /\ port.latest \in Seq(Nat)
           /\ port.events \in Seq(SUBSET Nat) /\ port.links \in Links /\ port \in PortType
<1>1. /\ port.heads \in Seq(Nat) /\ port.latest \in Seq(Nat)
      /\ port.events \in Seq(SUBSET Nat) /\ port.links \in Links /\ port \in PortType
    BY DEF PortInv, PortSound, PortType
<1>2. /\ DOMAIN port.links = 1..Len(port.links) /\ Len(port.links) \in Nat
      /\ Len(port.events) \in Nat /\ Len(port.events) < Len(port.links)
    BY <1>1 DEF Links, PortInv, PortSound, PortReadings
<1>3. Len(port.events) + 1 \in DOMAIN port.links
    BY <1>2
<1>4. Link \in Card /\ SinceBegan(port, Link, port.links[Len(port.events) + 1].entry)
    BY <1>1, <1>3, LinkType DEF Link, PortInv, PortSound, PortLinks
<1>5. log[Link] \in Seq(Entry)
    BY <1>4 DEF PortInv, ChainTypeOK
<1>6. Len(log[Link]) \in Nat /\ Len(log[Link]) # 0
    BY <1>4, <1>5 DEF SinceBegan
<1>7. port.stage4
    BY DEF PortInv, PortSound, PortLocated
<1>8. QED BY <1>1, <1>2, <1>3, <1>4, <1>6, <1>7 DEF Link

LEMMA FetchCardEntrySafe ==
    ASSUME PortInv, FetchCardEntry
    PROVE  PortInv' /\ ConformStep
<1>1. port.pc = "card-entry" /\ UNCHANGED vars /\ StepOf(port.pc) = "revocation"
      /\ port.pc \in LogPcs /\ StepOf(port.pc) \in Reads \ {"report"}
    BY Steps DEF FetchCardEntry, Await, LogPcs, Reads
<1>2. PICK p : \E m \in Nat :
        /\ Source(p) /\ port' = WithHeads(p, Append(p.heads, m))
        /\ \/ p = port /\ m = Len(log[Link])
           \/ p = Masked /\ m = 0
    <2>1. CASE Resume([port EXCEPT !.heads = Append(@, Len(log[Link]))], "block-number")
        <3>1. port' = WithHeads(port, Append(port.heads, Len(log[Link])))
            BY <2>1 DEF Resume, WithHeads
        <3>2. Source(port) /\ Len(log[Link]) \in Nat
            BY <1>1, LinkIs DEF Source
        <3>3. QED BY <3>1, <3>2, Zenon
    <2>2. CASE Resume([Masked EXCEPT !.heads = Append(@, 0)], "block-number")
        <3>1. port' = WithHeads(Masked, Append(Masked.heads, 0))
            BY <2>2 DEF Resume, WithHeads
        <3>2. Source(Masked) /\ 0 \in Nat
            BY <1>1 DEF Source
        <3>3. QED BY <3>1, <3>2, Zenon
    <2>3. QED BY <2>1, <2>2 DEF FetchCardEntry
<1>3. PICK n \in Nat :
       /\ Source(p) /\ port' = WithHeads(p, Append(p.heads, n))
       /\ \/ p = port /\ n = Len(log[Link])
          \/ p = Masked /\ n = 0
    BY <1>2
<1> DEFINE i == Len(port.events) + 1
<1>4. /\ p \in PortType /\ p.stage4 /\ p.pc = "card-entry" /\ p.links = port.links
      /\ p.heads = port.heads /\ p.latest = port.latest /\ p.events = port.events
      /\ PortSound(p)
    BY <1>1, <1>3, LinkIs, Sources DEF PortSound
<1>5. Len(port.heads) = Len(port.events) /\ Len(port.latest) = Len(port.events)
    BY <1>1 DEF PortInv, PortSound, PortReadings, LogPcs
<1>6. i \in DOMAIN p.links /\ i = Len(p.heads) + 1
    BY <1>1, <1>4, <1>5, LinkIs
<1>7. PICK q : q = port'
    OBVIOUS
<1>8. /\ q \in PortType /\ Reading4(q, p) /\ q.pc = "block-number" /\ q.heads = Append(p.heads, n)
      /\ q.latest = p.latest /\ q.events = p.events
      /\ AsOriginal(q) = [AsOriginal(p) EXCEPT !.entryAt[i] = n]
    BY <1>3, <1>4, <1>6, <1>7, HeadMaps, SMTT(90)
<1>9. PortReadings(q)
    <2>1. PICK heads \in Seq(Nat), new \in Seq(Nat) :
            /\ heads = p.heads /\ new = q.heads /\ new = Append(heads, n) /\ Len(heads) + 1 = i
            /\ \A j \in 1..Len(heads) :
                  heads[j] \in 0..Len(log[p.links[j].card]) /\ (heads[j] # 0 \/ p.masked)
        <3>1. p.heads \in Seq(Nat) /\ q.heads \in Seq(Nat)
            BY <1>4, <1>8 DEF PortType
        <3>2. \A j \in 1..Len(p.heads) :
                  p.heads[j] \in 0..Len(log[p.links[j].card]) /\ (p.heads[j] # 0 \/ p.masked)
            BY <1>4 DEF PortSound, PortReadings, LogPcs
        <3>3. QED BY <1>6, <1>8, <3>1, <3>2
    <2>2. n \in 0..Len(log[p.links[i].card]) /\ (n # 0 \/ p.masked)
        BY <1>1, <1>3, <1>4, LinkIs, MaskedIs, SMTT(30)
    <2>3. \A j \in 1..Len(new) :
            new[j] \in 0..Len(log[p.links[j].card]) /\ (new[j] # 0 \/ p.masked)
        BY <2>1, <2>2, SMTT(30)
    <2>4. Len(new) = Len(port.events) + 1
        BY <1>1, <2>1, LinkIs
    <2>5. q.links = p.links /\ q.masked = p.masked
        BY <1>8 DEF Reading4, Tied
    <2>6. QED
        BY <1>4, <1>8, <2>1, <2>3, <2>4, <2>5, SMTT(30) DEF PortSound, PortReadings, LogPcs
<1>10. PortSound(q)
    BY <1>4, <1>8, <1>9, ReadsOn DEF LogPcs
<1>11. ASSUME Unmasked(p) PROVE Original!Stage
    <2>1. p = port /\ n = Len(log[Link]) /\ Original!At("revocation") /\ Mapped.chain = port.links
          /\ Mapped.port = "ts" /\ Mapped.entryAt = ReadingsOf(port, port.heads)
        BY <1>1, <1>3, <1>11, MaskedIs, Read DEF Unmasked
    <2>2. Mapped' = [Mapped EXCEPT !.entryAt[i] = Len(log[Mapped.chain[i].card])]
        BY <1>1, <1>7, <1>8, <1>11, <2>1, LinkIs, SMTT(30) DEF Unmasked
    <2>3. Mapped.entryAt[i] = 0
        BY <1>1, <1>4, <1>6, <2>1, LinkIs DEF ReadingsOf, ReadSoFar
    <2>4. Original!InTurn(i, FALSE)
        BY <2>1 DEF Original!InTurn
    <2>5. Original!ReadEntry(i)
        BY <2>2, <2>3 DEF Original!ReadEntry
    <2>6. i \in DOMAIN Mapped.chain
        BY <1>4, <1>6, <2>1
    <2>7. QED BY <2>1, <2>4, <2>5, <2>6 DEF Original!ReadRevocations, Original!Stage
<1>12. Tied(q, p)
    BY <1>8 DEF Reading4
<1>13. QED BY <1>1, <1>3, <1>7, <1>10, <1>11, <1>12, Conforming, PortRests

LEMMA BlockNumberSafe ==
    ASSUME PortInv, BlockNumber
    PROVE  PortInv' /\ ConformStep
<1>1. port.pc = "block-number" /\ UNCHANGED vars /\ StepOf(port.pc) = "revocation"
      /\ port.pc \in LogPcs /\ Source(port)
    BY Steps DEF BlockNumber, Await, LogPcs, Source
<1> DEFINE i == Len(port.events) + 1
           n == Len(log[Link])
<1>2. /\ port \in PortType /\ port.stage4 /\ PortSound(port) /\ n \in Nat /\ n # 0
      /\ i \in DOMAIN port.links /\ n = Len(log[port.links[i].card])
    BY <1>1, LinkIs DEF PortInv
<1>3. Len(port.heads) = Len(port.events) + 1 /\ Len(port.latest) = Len(port.events)
    BY <1>1 DEF PortInv, PortSound, PortReadings, LogPcs
<1>4. PICK q : q = port' /\ q = WithLatest(port, Append(port.latest, n))
    BY <1>1 DEF BlockNumber, Resume, WithLatest
<1>5. i = Len(port.latest) + 1
    BY <1>3
<1>6. /\ q \in PortType /\ Reading4(q, port) /\ q.pc = "logs" /\ q.heads = port.heads
      /\ q.latest = Append(port.latest, n) /\ q.events = port.events
      /\ q.block = 1 /\ q.window = Window /\ q.got = {}
      /\ AsOriginal(q) = LoggedO(AsOriginal(port), i, n)
    <2>1. PICK p \in PortType, k \in Nat, j \in Nat : p = port /\ k = n /\ j = i
        BY <1>1, <1>2, LinkIs, SMTT(30)
    <2>2. /\ p.stage4 /\ p.pc = "block-number" /\ j \in DOMAIN p.links /\ j = Len(p.latest) + 1
          /\ q = WithLatest(p, Append(p.latest, k))
        BY <1>1, <1>2, <1>4, <1>5, <2>1
    <2>3. LatestRead(q, p, j, k)
        BY <2>2, LatestMaps, SMTT(30)
    <2>4. QED BY <2>1, <2>3 DEF LatestRead
<1>7. PortReadings(q)
    <2>1. PICK latest \in Seq(Nat), new \in Seq(Nat) :
            /\ latest = port.latest /\ new = q.latest /\ new = Append(latest, n)
            /\ Len(latest) + 1 = i
            /\ \A j \in 1..Len(latest) : latest[j] \in 1..Len(log[port.links[j].card])
        <3>1. port.latest \in Seq(Nat) /\ q.latest \in Seq(Nat)
            BY <1>2, <1>6 DEF PortType
        <3>2. \A j \in 1..Len(port.latest) : port.latest[j] \in 1..Len(log[port.links[j].card])
            BY <1>1 DEF PortInv, PortSound, PortReadings
        <3>3. QED BY <1>5, <1>6, <3>1, <3>2
    <2>2. n \in 1..Len(log[port.links[i].card])
        BY <1>2
    <2>3. \A j \in 1..Len(new) : new[j] \in 1..Len(log[port.links[j].card])
        BY <2>1, <2>2
    <2>4. Len(new) = Len(port.events) + 1 /\ new[Len(new)] = n
        BY <2>1
    <2>5. \A j \in 1..Len(port.events) : q.events[j] = 1..q.latest[j]
        <3>1. \A j \in 1..Len(latest) : new[j] = latest[j]
            BY <2>1
        <3>2. \A j \in 1..Len(port.events) : port.events[j] = 1..port.latest[j]
            BY <1>1 DEF PortInv, PortSound, PortReadings
        <3>3. QED BY <1>3, <1>6, <2>1, <3>1, <3>2
    <2>6. q.links = port.links /\ q.masked = port.masked
        BY <1>6 DEF Reading4, Tied
    <2>7. q.got = 1..(q.block - 1) /\ q.block <= n /\ q.block # 0 /\ q.window # 0
        BY <1>2, <1>6, WindowAssumption, SMTT(30)
    <2>8. /\ Len(port.events) < Len(port.links)
          /\ \A j \in 1..Len(port.heads) :
                port.heads[j] \in 0..Len(log[port.links[j].card])
                /\ (port.heads[j] # 0 \/ port.masked)
        BY <1>1 DEF PortInv, PortSound, PortReadings
    <2>9. QED
        BY <1>3, <1>6, <2>1, <2>3, <2>4, <2>5, <2>6, <2>7, <2>8, SMTT(30) DEF PortReadings
<1>8. PortSound(q)
    BY <1>1, <1>2, <1>6, <1>7, ReadsOn DEF LogPcs
<1>9. ASSUME Unmasked(port) PROVE Original!Stage
    <2>1. Original!At("revocation") /\ Mapped.chain = port.links
          /\ Mapped.port = "ts" /\ Mapped.logAt = ReadingsOf(port, port.latest)
        BY <1>1, <1>9, Read DEF Unmasked
    <2>2. Mapped' = [Mapped EXCEPT !.logAt[i] = Len(log[Mapped.chain[i].card])]
        <3>1. Mapped' = [Mapped EXCEPT !.logAt[i] = n]
            BY <1>4, <1>6, <1>9 DEF Unmasked, LoggedO
        <3>2. n = Len(log[Mapped.chain[i].card])
            BY <1>2, <2>1
        <3>3. QED BY <3>1, <3>2
    <2>3. Mapped.logAt[i] = 0
        BY <1>1, <1>2, <1>5, <2>1, LinkIs DEF ReadingsOf, ReadSoFar
    <2>4. Original!InTurn(i, TRUE)
        BY <2>1 DEF Original!InTurn
    <2>5. Original!ReadEventLog(i)
        BY <2>2, <2>3 DEF Original!ReadEventLog
    <2>6. i \in DOMAIN Mapped.chain
        BY <1>2, <2>1
    <2>7. QED BY <2>1, <2>4, <2>5, <2>6 DEF Original!ReadRevocations, Original!Stage
<1>10. Tied(q, port)
    BY <1>6 DEF Reading4
<1>11. QED BY <1>1, <1>4, <1>8, <1>9, <1>10, Conforming, PortRests

Scanned(p, got, block, window) == [p EXCEPT !.got = got, !.block = block, !.window = window]
WithEvents(p, got, events) == [p EXCEPT !.got = got, !.events = events]

\* What only the port keeps
LEMMA ScanMaps ==
    ASSUME NEW p \in PortType, NEW got \in SUBSET Nat, NEW block \in Nat, NEW window \in Nat, NEW q,
           q = Scanned(p, got, block, window)
    PROVE  /\ q \in PortType /\ Reading4(q, p) /\ q.pc = p.pc /\ q.heads = p.heads
           /\ q.latest = p.latest /\ q.events = p.events /\ q.got = got /\ q.block = block
           /\ q.window = window /\ AsOriginal(q) = AsOriginal(p)
<1>1. q \in PortType
    BY ZenonT(60) DEF Scanned, PortType
<1>2. Reading4(q, p) /\ q.pc = p.pc /\ q.heads = p.heads
      /\ q.latest = p.latest /\ q.events = p.events /\ q.got = got /\ q.block = block
      /\ q.window = window
    BY DEF Scanned, PortType, Reading4, Tied
<1>3. PICK a \in Verification : a = AsOriginal(p) /\ Reflects(a, p)
    BY AsOriginalIs
<1>4. ReadingsOf(q, q.heads) = ReadingsOf(p, p.heads)
      /\ ReadingsOf(q, q.latest) = ReadingsOf(p, p.latest)
    BY <1>2 DEF ReadingsOf, Reading4
<1>5. Reflects(a, q)
    BY <1>3, <1>4 DEF Reflects, Scanned, PortType
<1>6. QED BY <1>1, <1>2, <1>3, <1>5, Reflected

LEMMA EventsMaps ==
    ASSUME NEW p \in PortType, NEW got \in SUBSET Nat, NEW events \in Seq(SUBSET Nat), NEW q,
           q = WithEvents(p, got, events)
    PROVE  /\ q \in PortType /\ Reading4(q, p) /\ q.pc = p.pc /\ q.heads = p.heads
           /\ q.latest = p.latest /\ q.events = events /\ AsOriginal(q) = AsOriginal(p)
<1>1. q \in PortType
    BY ZenonT(60) DEF WithEvents, PortType
<1>2. Reading4(q, p) /\ q.pc = p.pc /\ q.heads = p.heads
      /\ q.latest = p.latest /\ q.events = events
    BY DEF WithEvents, PortType, Reading4, Tied
<1>3. PICK a \in Verification : a = AsOriginal(p) /\ Reflects(a, p)
    BY AsOriginalIs
<1>4. ReadingsOf(q, q.heads) = ReadingsOf(p, p.heads)
      /\ ReadingsOf(q, q.latest) = ReadingsOf(p, p.latest)
    BY <1>2 DEF ReadingsOf, Reading4
<1>5. Reflects(a, q)
    BY <1>3, <1>4 DEF Reflects, WithEvents, PortType
<1>6. QED BY <1>1, <1>2, <1>3, <1>5, Reflected

\* The original does not see the windows of the port.
LEMMA WindowStep ==
    ASSUME PortInv, port.pc = "logs", UNCHANGED vars, NEW got \in SUBSET Nat, NEW block \in Nat,
           NEW window \in Nat, port' = Scanned(port, got, block, window),
           window # 0, block # 0, got = 1..(block - 1), block <= port.latest[Len(port.latest)]
    PROVE  PortInv' /\ ConformStep
<1>1. port \in PortType /\ PortSound(port) /\ Source(port)
    BY DEF PortInv, PortSound, Source
<1>2. PICK q : q = port'
    OBVIOUS
<1>3. /\ q \in PortType /\ Reading4(q, port) /\ q.pc = port.pc /\ q.heads = port.heads
      /\ q.latest = port.latest /\ q.events = port.events /\ q.got = got /\ q.block = block
      /\ q.window = window /\ AsOriginal(q) = AsOriginal(port)
    BY <1>1, <1>2, ScanMaps
<1>4. q.links = port.links /\ q.masked = port.masked /\ Tied(q, port)
    BY <1>3 DEF Reading4, Tied
<1>5. PortReadings(q)
    BY <1>1, <1>3, <1>4 DEF PortSound, PortReadings, LogPcs
<1>6. PortSound(q)
    BY <1>1, <1>3, <1>5, ReadsOn DEF LogPcs
<1>7. Unmasked(port) => Mapped' = Mapped
    BY <1>2, <1>3 DEF Unmasked
<1>8. QED BY <1>1, <1>2, <1>4, <1>6, <1>7, Conforming, PortRests

\* Where a window ends
LEMMA WindowEnd ==
    ASSUME NEW last \in Nat, NEW block \in Nat, NEW window \in Nat, block # 0, window # 0,
           block <= last, NEW to,
           to = IF block + window - 1 < last THEN block + window - 1 ELSE last
    PROVE  /\ to \in Nat /\ to <= last /\ block <= to /\ to # 0
           /\ 1..(block - 1) \cup block..to = 1..to
<1>1. to \in Nat /\ to <= last /\ block <= to /\ to # 0
    OBVIOUS
<1>2. QED BY <1>1

\* The window read, and what it adds
LEMMA WindowIs ==
    ASSUME PortInv, port.pc = "logs"
    PROVE  LET last == port.latest[Len(port.latest)]
               end == port.block + port.window - 1
               to == IF end < last THEN end ELSE last IN
           /\ last \in Nat /\ to \in Nat /\ to <= last /\ port.block <= to /\ to # 0
           /\ port.got \cup port.block..to = 1..to /\ 1..to \in SUBSET Nat
           /\ port.got \in SUBSET Nat /\ port.block \in Nat /\ port.window \in Nat
           /\ port.block # 0 /\ port.window # 0 /\ port.got = 1..(port.block - 1)
           /\ port.block <= last
<1>1. /\ port.got \in SUBSET Nat /\ port.block \in Nat /\ port.window \in Nat
      /\ port.latest \in Seq(Nat) /\ Len(port.events) \in Nat
    BY LinkIs DEF PortInv, PortSound, PortType, LogPcs
<1>2. /\ port.block # 0 /\ port.window # 0 /\ port.got = 1..(port.block - 1)
      /\ port.block <= port.latest[Len(port.latest)] /\ Len(port.latest) = Len(port.events) + 1
    BY DEF PortInv, PortSound, PortReadings, LogPcs
<1>3. port.latest[Len(port.latest)] \in Nat
    <2>1. Len(port.latest) \in 1..Len(port.latest)
        BY <1>1, <1>2
    <2>2. QED BY <1>1, <2>1
<1> DEFINE last == port.latest[Len(port.latest)]
           end == port.block + port.window - 1
           to == IF end < last THEN end ELSE last
<1>4. /\ last \in Nat /\ to \in Nat /\ to <= last /\ port.block <= to /\ to # 0
      /\ 1..(port.block - 1) \cup port.block..to = 1..to
    <2>1. PICK l \in Nat, b \in Nat, w \in Nat : l = last /\ b = port.block /\ w = port.window
        BY <1>1, <1>3
    <2>2. PICK t : t = IF b + w - 1 < l THEN b + w - 1 ELSE l
        OBVIOUS
    <2>3. b # 0 /\ w # 0 /\ b <= l
        BY <1>2, <2>1
    <2>4. t \in Nat /\ t <= l /\ b <= t /\ t # 0 /\ 1..(b - 1) \cup b..t = 1..t
        BY <2>2, <2>3, WindowEnd
    <2>5. t = to
        BY <2>1, <2>2
    <2>6. QED BY <2>1, <2>4, <2>5
<1>5. port.got \cup port.block..to = 1..to /\ 1..to \in SUBSET Nat
    BY <1>2, <1>4
<1>6. QED BY <1>1, <1>2, <1>4, <1>5

\* Everything stage 4 judges by has been read.
ReadInFull(p, i) ==
    /\ p.links[i].card \in Card /\ SinceBegan(p, p.links[i].card, p.links[i].entry)
    /\ p.heads[i] \in 0..Len(log[p.links[i].card]) /\ (p.heads[i] # 0 \/ p.masked)
    /\ p.latest[i] \in 1..Len(log[p.links[i].card])
    /\ p.events[i] = 1..p.latest[i]
AllRead(p) ==
    /\ p \in PortType /\ p.stage4 /\ p.links # <<>>
    /\ Len(p.heads) = Len(p.links) /\ Len(p.latest) = Len(p.links)
    /\ \A i \in DOMAIN p.links : ReadInFull(p, i)

\* The events of one card more are known.
LEMMA LogRead ==
    ASSUME PortInv, port.pc = "logs", NEW last, last = port.latest[Len(port.latest)], NEW next,
           next = WithEvents(port, 1..last, Append(port.events, 1..last))
    PROVE  /\ next \in PortType /\ Reading4(next, port) /\ next.pc = "logs"
           /\ next.heads = port.heads /\ next.latest = port.latest
           /\ Len(next.events) = Len(port.events) + 1
           /\ \A i \in 1..Len(next.events) : next.events[i] = 1..next.latest[i]
           /\ AsOriginal(next) = AsOriginal(port)
           /\ Len(next.events) >= Len(next.links) => AllRead(next)
<1>1. /\ port \in PortType /\ port.links \in Links /\ port.stage4
      /\ port.heads \in Seq(Nat) /\ port.latest \in Seq(Nat)
      /\ port.events \in Seq(SUBSET Nat) /\ Len(port.events) \in Nat
    BY LinkIs DEF LogPcs
<1>2. 1..last \in SUBSET Nat
    BY WindowIs
<1>3. PICK events \in Seq(SUBSET Nat) :
        /\ events = Append(port.events, 1..last) /\ Len(events) = Len(port.events) + 1
        /\ \A i \in 1..Len(port.events) : events[i] = port.events[i]
        /\ events[Len(events)] = 1..last
    <2>1. PICK old \in Seq(SUBSET Nat), new \in SUBSET Nat : old = port.events /\ new = 1..last
        BY <1>1, <1>2
    <2>2. /\ Append(old, new) \in Seq(SUBSET Nat) /\ Len(Append(old, new)) = Len(old) + 1
          /\ \A i \in 1..Len(old) : Append(old, new)[i] = old[i]
          /\ Append(old, new)[Len(old) + 1] = new
        OBVIOUS
    <2>3. QED BY <2>1, <2>2
<1>4. /\ next \in PortType /\ Reading4(next, port) /\ next.pc = port.pc
      /\ next.heads = port.heads /\ next.latest = port.latest /\ next.events = events
      /\ AsOriginal(next) = AsOriginal(port)
    <2>1. PICK p \in PortType : p = port
        BY <1>1
    <2>2. PICK got \in SUBSET Nat : next = WithEvents(p, got, events)
        BY <1>2, <1>3, <2>1
    <2>3. /\ next \in PortType /\ Reading4(next, p) /\ next.pc = p.pc
          /\ next.heads = p.heads /\ next.latest = p.latest /\ next.events = events
          /\ AsOriginal(next) = AsOriginal(p)
        BY <2>2, EventsMaps
    <2>4. QED BY <2>1, <2>3
<1>5. /\ Len(port.events) < Len(port.links)
      /\ Len(port.heads) = Len(port.events) + 1 /\ Len(port.latest) = Len(port.events) + 1
      /\ \A i \in 1..Len(port.heads) :
            port.heads[i] \in 0..Len(log[port.links[i].card]) /\ (port.heads[i] # 0 \/ port.masked)
      /\ \A i \in 1..Len(port.latest) : port.latest[i] \in 1..Len(log[port.links[i].card])
      /\ \A i \in 1..Len(port.events) : port.events[i] = 1..port.latest[i]
    BY DEF PortInv, PortSound, PortReadings, LogPcs
<1>6. ASSUME NEW i \in 1..Len(events) PROVE events[i] = 1..port.latest[i]
    <2>1. CASE i \in 1..Len(port.events)
        BY <1>3, <1>5, <2>1
    <2>2. CASE i \notin 1..Len(port.events)
        <3>1. i = Len(events) /\ i = Len(port.latest)
            BY <1>1, <1>3, <1>5, <2>2, SMTT(40)
        <3>2. QED BY <1>3, <3>1
    <2>3. QED BY <2>1, <2>2
<1>7. ASSUME Len(events) >= Len(port.links) PROVE AllRead(next)
    <2>1. /\ DOMAIN port.links = 1..Len(port.links) /\ Len(port.links) \in Nat
          /\ Len(port.links) = Len(events) /\ port.links # <<>>
        BY <1>1, <1>3, <1>5, <1>7, SMTT(30) DEF Links
    <2>2. /\ next.links = port.links /\ next.masked = port.masked /\ next.began = port.began
          /\ next.stage4
        BY <1>1, <1>4 DEF Reading4, Tied
    <2>3. ASSUME NEW i \in DOMAIN port.links PROVE ReadInFull(next, i)
        <3>1. port.links[i].card \in Card /\ SinceBegan(port, port.links[i].card, port.links[i].entry)
            BY <1>1, LinkType, SMTT(30) DEF PortInv, PortSound, PortLinks
        <3>2. SinceBegan(next, next.links[i].card, next.links[i].entry)
            BY <2>2, <3>1 DEF SinceBegan
        <3>3. i \in 1..Len(port.heads) /\ i \in 1..Len(port.latest) /\ i \in 1..Len(events)
            BY <1>3, <1>5, <2>1, SMTT(40)
        <3>4. /\ next.heads[i] \in 0..Len(log[next.links[i].card])
              /\ next.heads[i] # 0 \/ next.masked
              /\ next.latest[i] \in 1..Len(log[next.links[i].card])
            BY <1>4, <1>5, <2>2, <3>3, ZenonT(60)
        <3>5. next.events[i] = 1..next.latest[i]
            BY <1>4, <1>6, <3>3
        <3>6. QED BY <2>2, <3>1, <3>2, <3>4, <3>5 DEF ReadInFull
    <2>4. QED BY <1>3, <1>4, <1>5, <2>1, <2>2, <2>3, ZenonT(60) DEF AllRead
<1>8. Len(next.events) = Len(port.events) + 1
    BY <1>3, <1>4
<1>9. \A i \in 1..Len(next.events) : next.events[i] = 1..next.latest[i]
    BY <1>4, <1>6
<1>10. Len(next.events) >= Len(next.links) => AllRead(next)
    <2>1. next.links = port.links /\ next.events = events
        BY <1>4 DEF Reading4
    <2>2. QED BY <1>7, <2>1, ZenonT(60)
<1>11. QED BY <1>4, <1>8, <1>9, <1>10, ZenonT(60)

LEMMA Reading4Trans ==
    ASSUME NEW a, NEW b, NEW c, Reading4(a, b), Reading4(b, c)
    PROVE  Reading4(a, c)
BY DEF Reading4, Tied

\* On to the next card, ...
LEMMA ToNextCard ==
    ASSUME NEW p \in PortType, NEW q, q = [p EXCEPT !.pc = "card-entry"]
    PROVE  /\ q \in PortType /\ Tied(q, p) /\ q.pc = "card-entry"
           /\ q.links = p.links /\ q.status = p.status /\ q.scope = p.scope
           /\ q.stage4 = p.stage4 /\ q.heads = p.heads /\ q.latest = p.latest
           /\ q.events = p.events
           /\ AsOriginal(q) = [AsOriginal(p) EXCEPT !.step = StepOf("card-entry")]
<1>1. "card-entry" \in Pcs
    BY DEF Pcs, Awaited
<1>2. QED BY <1>1, HopMaps

\* ... of whose log nothing has been read.
LEMMA NextCardReadings ==
    ASSUME PortInv, port.pc = "logs", NEW q, q.pc = "card-entry", q.links = port.links,
           q.masked = port.masked, q.heads = port.heads, q.latest = port.latest,
           Len(q.events) = Len(port.events) + 1, Len(q.events) < Len(q.links),
           \A i \in 1..Len(q.events) : q.events[i] = 1..q.latest[i]
    PROVE  PortReadings(q)
<1>1. /\ Len(port.heads) = Len(port.events) + 1 /\ Len(port.latest) = Len(port.events) + 1
      /\ \A i \in 1..Len(port.heads) :
            port.heads[i] \in 0..Len(log[port.links[i].card])
            /\ (port.heads[i] # 0 \/ port.masked)
      /\ \A i \in 1..Len(port.latest) : port.latest[i] \in 1..Len(log[port.links[i].card])
    BY DEF PortInv, PortSound, PortReadings, LogPcs
<1>2. Len(q.heads) = Len(q.events) /\ Len(q.latest) = Len(q.events)
    BY <1>1
<1>3. /\ \A i \in 1..Len(q.heads) :
            q.heads[i] \in 0..Len(log[q.links[i].card]) /\ (q.heads[i] # 0 \/ q.masked)
      /\ \A i \in 1..Len(q.latest) : q.latest[i] \in 1..Len(log[q.links[i].card])
    BY <1>1
<1>4. QED BY <1>2, <1>3 DEF PortReadings

LEMMA NextCard ==
    ASSUME PortInv, port.pc = "logs", UNCHANGED vars, NEW last,
           last = port.latest[Len(port.latest)], NEW next,
           next = WithEvents(port, 1..last, Append(port.events, 1..last)),
           Len(next.events) < Len(next.links), Resume(next, "card-entry")
    PROVE  PortInv' /\ ConformStep
<1>1. /\ next \in PortType /\ Reading4(next, port) /\ next.pc = "logs"
      /\ next.heads = port.heads /\ next.latest = port.latest
      /\ Len(next.events) = Len(port.events) + 1
      /\ \A i \in 1..Len(next.events) : next.events[i] = 1..next.latest[i]
      /\ AsOriginal(next) = AsOriginal(port)
    BY LogRead
<1>2. PICK q : q = port' /\ q = [next EXCEPT !.pc = "card-entry"]
    BY SMTT(30) DEF Resume
<1>3. /\ q \in PortType /\ Tied(q, next) /\ q.pc = "card-entry"
      /\ q.links = next.links /\ q.status = next.status /\ q.scope = next.scope
      /\ q.stage4 = next.stage4 /\ q.heads = next.heads /\ q.latest = next.latest
      /\ q.events = next.events
      /\ AsOriginal(q) = [AsOriginal(next) EXCEPT !.step = StepOf("card-entry")]
    BY <1>1, <1>2, ToNextCard, SMTT(30)
<1>4. Reading4(q, port) /\ Tied(q, port)
    <2>1. Reading4(q, next)
        BY <1>3 DEF Reading4
    <2>2. Reading4(q, port)
        BY <1>1, <2>1, Reading4Trans, SMTT(30)
    <2>3. QED BY <2>2 DEF Reading4
<1>5. PortReadings(q)
    <2>1. q.links = port.links /\ q.masked = port.masked
        BY <1>4, SMTT(30) DEF Reading4, Tied
    <2>2. q.heads = port.heads /\ q.latest = port.latest /\ q.events = next.events
        BY <1>1, <1>3, SMTT(30)
    <2>3. /\ Len(q.events) = Len(port.events) + 1 /\ Len(q.events) < Len(q.links)
          /\ \A i \in 1..Len(q.events) : q.events[i] = 1..q.latest[i]
        <3>1. q.links = next.links /\ q.latest = next.latest
            BY <1>1, <1>3, ZenonT(60)
        <3>2. Len(next.events) < Len(next.links)
            OBVIOUS
        <3>3. QED BY <1>1, <2>2, <3>1, <3>2, ZenonT(60)
    <2>4. q.pc = "card-entry"
        BY <1>3
    <2>5. QED BY <2>1, <2>2, <2>3, <2>4, NextCardReadings, ZenonT(60)
<1>6. PortSound(q)
    BY <1>3, <1>4, <1>5, ReadsOn DEF PortInv, LogPcs
<1>7. ASSUME Unmasked(port) PROVE Mapped' = Mapped
    <2>1. Mapped' = [Mapped EXCEPT !.step = StepOf("card-entry")]
        BY <1>1, <1>2, <1>3, <1>7 DEF Unmasked
    <2>2. Mapped.step = StepOf("card-entry")
        BY <1>7, Read, Steps
    <2>3. QED BY <1>7, <2>1, <2>2, Unmoved, SMTT(30) DEF Original!Hop
<1>8. Source(port)
    BY DEF Source
<1>9. QED BY <1>2, <1>4, <1>6, <1>7, <1>8, Conforming, PortRests, SMTT(30)

-----------------------------------------------------------------------------
(* Stage 4: the verdict                                                      *)

\* What a card is judged by
LEMMA CardJudged ==
    ASSUME ChainTypeOK, NEW p, AllRead(p), NEW i \in DOMAIN p.links
    PROVE  /\ Content(p, i) \in Entry
           /\ HeadEvent(p, i) <=> p.heads[i] # 0 /\ p.heads[i] <= p.latest[i]
           /\ HeadEvent(p, i) => RevokedFrom(p, i) \in Nat
           /\ ~HeadEvent(p, i) => RevokedFrom(p, i) = Content(p, i).reported
           /\ RevokedFrom(p, i) \in Nat \cup {Nil}
           /\ p.links[i].entry \in Nat \ {0} /\ p.heads[i] \in Nat /\ p.latest[i] \in Nat \ {0}
<1>1. ReadInFull(p, i) /\ p \in PortType /\ p.links \in Links
    BY SMTT(30) DEF AllRead, PortType
<1>2. PICK c \in Card : c = p.links[i].card
    BY <1>1 DEF ReadInFull
<1>3. log[c] \in Seq(Entry)
    BY <1>2 DEF ChainTypeOK
<1>4. p.links[i].entry \in 1..Len(log[c]) /\ p.heads[i] \in 0..Len(log[c])
      /\ p.latest[i] \in 1..Len(log[c]) /\ p.events[i] = 1..p.latest[i]
    BY <1>1, <1>2 DEF ReadInFull, SinceBegan
<1>5. Content(p, i) \in Entry
    BY <1>2, <1>3, <1>4 DEF Content
<1>6. HeadEvent(p, i) <=> p.heads[i] # 0 /\ p.heads[i] <= p.latest[i]
    BY <1>3, <1>4, SMTT(30) DEF HeadEvent
<1>7. ASSUME HeadEvent(p, i) PROVE RevokedFrom(p, i) \in Nat
    <2>1. log[c][p.heads[i]] \in Entry
        BY <1>3, <1>4, <1>6, <1>7
    <2>2. QED BY <1>2, <1>7, <2>1 DEF RevokedFrom, Entry
<1>8. ~HeadEvent(p, i) => RevokedFrom(p, i) = Content(p, i).reported
    BY DEF RevokedFrom
<1>9. Content(p, i).reported \in Nat \cup {Nil}
    BY <1>5 DEF Entry
<1>10. QED BY <1>3, <1>4, <1>5, <1>6, <1>7, <1>8, <1>9

PortCodes(p) ==
    (IF \E i \in DOMAIN p.links : HistoryDiffers(p, i) THEN {"HISTORY_MISMATCH"} ELSE {})
    \cup (IF \E i \in RevocationEntries(p) : ~HeadEvent(p, i)
          THEN {"NO_ONCHAIN_EVENT_FOR_HEAD"} ELSE {})
    \cup (IF now - p.fetchedAt > FreshnessWindow THEN {"STALE_REVOCATION_DATA"} ELSE {})

Judged4(p, codes, status, effective, then, present) ==
    [p EXCEPT !.errors = @ \cup codes, !.status = status, !.effective = effective,
              !.validThen = then, !.validNow = present, !.pc = "signer-again"]
Judged4O(a, codes, status, effective, then, present) ==
    [a EXCEPT !.step = "press", !.codes = @ \cup codes, !.status = status,
              !.effective = effective, !.validThen = then, !.validNow = present]

JudgedAs(q, p, codes, status, effective, then, present) ==
    /\ q \in PortType /\ Tied(q, p) /\ q.pc = "signer-again" /\ q.links = p.links
    /\ q.scope = p.scope /\ q.status = status
    /\ AsOriginal(q) = Judged4O(AsOriginal(p), codes, status, effective, then, present)

LEMMA JudgedMaps ==
    ASSUME NEW p \in PortType, NEW codes \in SUBSET Code,
           NEW status \in {"not_revoked", "revoked"}, NEW effective \in Nat \cup {Nil},
           NEW then \in Answer, NEW present \in Answer, NEW q,
           q = Judged4(p, codes, status, effective, then, present)
    PROVE  JudgedAs(q, p, codes, status, effective, then, present)
<1>1. PICK a \in Verification : a = AsOriginal(p) /\ Reflects(a, p)
    BY AsOriginalIs
<1> DEFINE b == Judged4O(a, codes, status, effective, then, present)
<1>2. PICK pc \in Pcs : pc = "signer-again" /\ StepOf(pc) = "press"
    BY Steps DEF Pcs, Awaited
<1>3. q \in PortType
    BY <1>2, ZenonT(60) DEF Judged4, PortType
<1>4. /\ Tied(q, p) /\ q.pc = pc /\ q.links = p.links /\ q.scope = p.scope /\ q.status = status
      /\ q.stage4 = p.stage4 /\ q.heads = p.heads /\ q.latest = p.latest
    BY <1>2 DEF Judged4, PortType, Tied
<1>5. b \in Verification
    <2>1. PICK step \in Reads : step = "press"
        BY DEF Reads
    <2>2. QED BY <2>1, ZenonT(60) DEF Judged4O, Verification
<1>6. ReadingsOf(q, q.heads) = ReadingsOf(p, p.heads)
      /\ ReadingsOf(q, q.latest) = ReadingsOf(p, p.latest)
    BY <1>4 DEF ReadingsOf
<1>7. Reflects(b, q)
    <2>1. b.step = StepOf(q.pc) /\ b.codes = q.errors /\ b.status = q.status
        BY <1>1, <1>2, <1>4 DEF Judged4, Judged4O, Reflects, Verification, PortType
    <2>2. b.effective = q.effective /\ b.validThen = q.validThen /\ b.validNow = q.validNow
        BY DEF Judged4, Judged4O, Verification, PortType
    <2>3. b.kind = a.kind /\ b.port = a.port /\ b.pubkey = a.pubkey /\ b.signing = a.signing
          /\ b.appRoot = a.appRoot /\ b.current = a.current /\ b.depth = a.depth
          /\ b.chain = a.chain /\ b.entryAt = a.entryAt /\ b.logAt = a.logAt
          /\ b.fetchedAt = a.fetchedAt /\ b.scope = a.scope /\ b.reaches = a.reaches
          /\ b.compliant = a.compliant /\ b.pressRevoked = a.pressRevoked
          /\ b.reported = a.reported /\ b.annotator = a.annotator
        BY DEF Judged4O, Verification
    <2>4. q.signing = p.signing
          /\ q.appRoot = p.appRoot /\ q.current = p.current /\ q.depth = p.depth
          /\ q.links = p.links /\ q.fetchedAt = p.fetchedAt /\ q.scope = p.scope
          /\ q.reaches = p.reaches
          /\ q.compliant = p.compliant /\ q.pressRevoked = p.pressRevoked
          /\ q.reported = p.reported /\ q.annotator = p.annotator
        BY DEF Judged4, PortType
    <2>5. QED BY <1>1, <1>6, <2>1, <2>2, <2>3, <2>4 DEF Reflects
<1>8. AsOriginal(q) = b
    BY <1>3, <1>5, <1>7, Reflected
<1>9. QED BY <1>1, <1>2, <1>3, <1>4, <1>8 DEF JudgedAs

LEMMA Stage4Is ==
    ASSUME NEW p \in PortType, Resume(Stage4Result(p), "signer-again")
    PROVE  LET fresh == ~(now - p.fetchedAt > FreshnessWindow)
               date == Earliest(Dates(p)) IN
           IF Dates(p) = {}
           THEN port' = Judged4(p, PortCodes(p), "not_revoked", p.effective, "yes", YesNo(fresh))
           ELSE port' = Judged4(p, PortCodes(p), "revoked", date, YesNo(p.signing < date),
                                YesNo(now < date /\ fresh))
<1> DEFINE stale == now - p.fetchedAt > FreshnessWindow
           date == Earliest(Dates(p))
           judged == [p EXCEPT !.errors = p.errors \cup PortCodes(p)]
<1>1. Stage4Result(p) =
        IF Dates(p) = {}
        THEN [judged EXCEPT !.status = "not_revoked", !.validThen = "yes", !.validNow = YesNo(~stale)]
        ELSE [judged EXCEPT !.status = "revoked", !.effective = date,
                            !.validThen = YesNo(p.signing < date),
                            !.validNow = YesNo(now < date /\ ~stale)]
    <2>1. [p EXCEPT !.errors = @
            \cup (IF \E i \in DOMAIN p.links : HistoryDiffers(p, i) THEN {"HISTORY_MISMATCH"} ELSE {})
            \cup (IF \E i \in RevocationEntries(p) : ~HeadEvent(p, i)
                  THEN {"NO_ONCHAIN_EVENT_FOR_HEAD"} ELSE {})
            \cup (IF stale THEN {"STALE_REVOCATION_DATA"} ELSE {})] = judged
        BY DEF PortCodes
    <2>2. QED BY <2>1, Zenon DEF Stage4Result
<1>2. PICK codes, fresh, then, present, d :
        /\ codes = PortCodes(p) /\ fresh = YesNo(~stale) /\ then = YesNo(p.signing < date)
        /\ present = YesNo(now < date /\ ~stale) /\ d = date
    OBVIOUS
<1>3. CASE Dates(p) = {}
    <2>1. port' = [[[p EXCEPT !.errors = p.errors \cup codes] EXCEPT !.status = "not_revoked",
                        !.validThen = "yes", !.validNow = fresh] EXCEPT !.pc = "signer-again"]
        BY <1>1, <1>2, <1>3 DEF Resume
    <2>2. port' = Judged4(p, codes, "not_revoked", p.effective, "yes", fresh)
        BY <2>1 DEF Judged4, PortType
    <2>3. QED BY <1>2, <1>3, <2>2
<1>4. CASE Dates(p) # {}
    <2>1. port' = [[[p EXCEPT !.errors = p.errors \cup codes] EXCEPT !.status = "revoked",
                        !.effective = d, !.validThen = then, !.validNow = present]
                    EXCEPT !.pc = "signer-again"]
        BY <1>1, <1>2, <1>4 DEF Resume
    <2>2. port' = Judged4(p, codes, "revoked", d, then, present)
        BY <2>1 DEF Judged4, PortType
    <2>3. QED BY <1>2, <1>4, <2>2
<1>5. QED BY <1>3, <1>4

LEMMA Verdicts ==
    ASSUME ChainTypeOK, NEW p, AllRead(p)
    PROVE  /\ Dates(p) \in SUBSET Nat /\ PortCodes(p) \in SUBSET Code
           /\ Dates(p) # {} => Earliest(Dates(p)) \in Nat
<1>1. ASSUME NEW d \in Dates(p) PROVE d \in Nat
    <2>1. PICK i \in DOMAIN p.links : d = RevokedFrom(p, i)
        BY DEF Dates, RevocationEntries
    <2>2. RevokedFrom(p, i) \in Nat \cup {Nil}
        BY CardJudged
    <2>3. QED BY <2>1, <2>2 DEF Dates
<1>2. PortCodes(p) \in SUBSET Code
    BY DEF PortCodes, Code
<1>3. Dates(p) \in SUBSET Nat
    BY <1>1
<1>4. ASSUME Dates(p) # {} PROVE Earliest(Dates(p)) \in Nat
    BY <1>3, <1>4, EarliestIs
<1>5. QED BY <1>2, <1>3, <1>4

\* A verdict of not revoked is one that every card supports.
LEMMA VerdictStands ==
    ASSUME PortInv, port.pc = "logs", NEW p, AllRead(p), Reading4(p, port),
           NEW q \in PortType, Tied(q, p), q.pc = "signer-again", q.links = p.links,
           q.scope = p.scope, q.status = "not_revoked" => Dates(p) = {}
    PROVE  PortSound(q)
<1>1. q.links = port.links /\ q.scope = port.scope /\ q.began = port.began
    BY DEF Reading4, Tied
<1>2. PortBegan(q) /\ PortLinks(q)
    BY <1>1 DEF PortInv, PortSound, PortBegan, PortLinks, SinceBegan
<1>3. PortLocated(q) /\ PortReadings(q)
    BY DEF PortLocated, PortReadings, Early, WalkPcs, LogPcs
<1>4. PortSeen(q)
    BY <1>1 DEF PortInv, PortSound, PortSeen, ListedSince, SinceBegan
<1>5. ASSUME q.status = "not_revoked", NEW i \in DOMAIN q.links
      PROVE  UndatedSince(q, q.links[i])
    <2>1. ReadInFull(p, i) /\ ChainTypeOK /\ p.began = q.began
        BY DEF AllRead, PortInv, Tied
    <2>2. PICK c \in Card : c = q.links[i].card
        BY <2>1 DEF ReadInFull
    <2>3. PICK n \in 1..Len(log[c]) : n = q.links[i].entry
        BY <2>1, <2>2 DEF ReadInFull, SinceBegan
    <2>4. SinceBegan(q, c, n) /\ Content(p, i) = log[c][n]
        BY <2>3, <2>1, <2>2 DEF ReadInFull, SinceBegan, Content
    <2>5. ASSUME Content(p, i).kind = "revocation" PROVE Content(p, i).reported = Nil
        <3>1. RevokedFrom(p, i) = Nil
            BY <1>5, <2>5 DEF Dates, RevocationEntries
        <3>2. ~HeadEvent(p, i)
            BY <2>1, <3>1, CardJudged, ChainAssumption
        <3>3. QED BY <2>1, <3>1, <3>2, CardJudged
    <2>6. QED BY <2>2, <2>4, <2>5 DEF UndatedSince
<1>6. PortVerdict(q)
    BY <1>5 DEF PortVerdict, Late
<1>7. q \in PortType /\ PortBegan(q) /\ PortLinks(q) /\ PortLocated(q) /\ PortReadings(q)
    BY <1>2, <1>3
<1>8. QED BY <1>4, <1>6, <1>7 DEF PortSound

\* Of a card that was read the original thinks what the port thinks.
LEMMA SameJudgement ==
    ASSUME ChainTypeOK, NEW p, AllRead(p), ~p.masked, Mapped = AsOriginal(p),
           NEW i \in DOMAIN p.links
    PROVE  /\ Mapped.entryAt[i] # 0 /\ Mapped.logAt[i] # 0
           /\ Original!HasContent(i)
           /\ Original!HeadHasEvent(i) <=> HeadEvent(p, i)
           /\ Original!EffectiveDate(i) = RevokedFrom(p, i)
           /\ Original!Revoked(i) <=> i \in RevocationEntries(p)
           /\ Original!Mismatch(i) <=> HistoryDiffers(p, i)
<1>1. /\ Mapped.chain = p.links /\ Mapped.entryAt = ReadingsOf(p, p.heads)
      /\ Mapped.logAt = ReadingsOf(p, p.latest)
    BY DEF AsOriginal, ReadingsOf
<1>2. /\ p \in PortType /\ p.stage4 /\ p.links \in Links /\ DOMAIN p.links = 1..Len(p.links)
      /\ Len(p.links) \in Nat /\ Len(p.heads) = Len(p.links) /\ Len(p.latest) = Len(p.links)
      /\ ReadInFull(p, i)
    BY SMTT(30) DEF AllRead, PortType, Links
<1>3. Mapped.entryAt[i] = p.heads[i] /\ Mapped.logAt[i] = p.latest[i]
    BY <1>1, <1>2 DEF ReadingsOf, ReadSoFar
<1>4. PICK h \in Nat, l \in Nat, n \in Nat :
         /\ h = p.heads[i] /\ l = p.latest[i] /\ n = p.links[i].entry
         /\ h # 0 /\ l # 0 /\ n # 0
    BY <1>2, CardJudged DEF ReadInFull
<1>5. Original!ContentOf(i) = Content(p, i)
    BY <1>1 DEF Original!ContentOf, Content
<1>6. Original!HasContent(i)
    BY <1>1, <1>4 DEF Original!HasContent
<1>7. Original!HeadHasEvent(i) <=> HeadEvent(p, i)
    BY <1>3, <1>4, CardJudged DEF Original!HeadHasEvent
<1>8. Original!EffectiveDate(i) = RevokedFrom(p, i)
    BY <1>1, <1>3, <1>5, <1>7 DEF Original!EffectiveDate, RevokedFrom
<1>9. Original!Revoked(i) <=> i \in RevocationEntries(p)
    BY <1>5, <1>6 DEF Original!Revoked, RevocationEntries
<1>10. p.events[i] = 1..p.heads[i] <=> h = l
    <2>1. p.events[i] = 1..l
        BY <1>2, <1>4 DEF ReadInFull
    <2>2. 1..l = 1..h => h = l
        <3>1. h \in 1..h /\ l \in 1..l
            BY <1>4
        <3>2. QED BY <3>1
    <2>3. QED BY <1>4, <2>1, <2>2
<1>11. Original!Mismatch(i) <=> HistoryDiffers(p, i)
    BY <1>1, <1>3, <1>4, <1>5, <1>6, <1>10
    DEF Original!Mismatch, Original!Updated, Original!HistoryMatches, HistoryDiffers,
        LogEntry
<1>12. QED BY <1>3, <1>4, <1>6, <1>7, <1>8, <1>9, <1>11

\* The verdict that the port comes to
Concluded(a, p) ==
    LET fresh == ~(now - p.fetchedAt > FreshnessWindow)
        date == Earliest(Dates(p)) IN
    IF Dates(p) = {}
    THEN Judged4O(a, PortCodes(p), "not_revoked", a.effective, "yes", YesNo(fresh))
    ELSE Judged4O(a, PortCodes(p), "revoked", date, YesNo(p.signing < date),
                  YesNo(now < date /\ fresh))

LEMMA SameVerdict ==
    ASSUME ChainTypeOK, NEW p, AllRead(p), ~p.masked, Mapped = AsOriginal(p)
    PROVE  /\ \A i \in DOMAIN p.links : Mapped.entryAt[i] # 0 /\ Mapped.logAt[i] # 0
           /\ \E i \in DOMAIN p.links : Original!HasContent(i)
           /\ (Original!Revocations = {}) <=> (Dates(p) = {})
           /\ {Original!EffectiveDate(i) : i \in Original!Revocations} = Dates(p)
           /\ {code \in Code :
                 \/ code = "HISTORY_MISMATCH" /\ \E i \in DOMAIN p.links : Original!Mismatch(i)
                 \/ /\ code = "NO_ONCHAIN_EVENT_FOR_HEAD"
                    /\ \E i \in DOMAIN p.links : Original!Revoked(i) /\ ~Original!HeadHasEvent(i)
                 \/ code = "STALE_REVOCATION_DATA" /\ now - p.fetchedAt > FreshnessWindow}
              = PortCodes(p)
<1>1. Mapped.chain = p.links
    BY DEF AsOriginal
<1>2. \A i \in DOMAIN p.links :
           /\ Mapped.entryAt[i] # 0 /\ Mapped.logAt[i] # 0
           /\ Original!HasContent(i)
           /\ Original!HeadHasEvent(i) <=> HeadEvent(p, i)
           /\ Original!EffectiveDate(i) = RevokedFrom(p, i)
           /\ Original!Revoked(i) <=> i \in RevocationEntries(p)
           /\ Original!Mismatch(i) <=> HistoryDiffers(p, i)
    BY SameJudgement
<1>3. \E i \in DOMAIN p.links : Original!HasContent(i)
    <2>1. 1 \in DOMAIN p.links
        <3>1. p.links \in Seq([card : Card, entry : Nat]) /\ p.links # <<>>
            BY DEF AllRead, PortType, Links
        <3>2. QED BY <3>1
    <2>2. QED BY <1>2, <2>1
<1>4. Original!Revocations = {i \in RevocationEntries(p) : RevokedFrom(p, i) # Nil}
    BY <1>1, <1>2 DEF Original!Revocations, RevocationEntries
<1>5. {Original!EffectiveDate(i) : i \in Original!Revocations} = Dates(p)
    <2>1. \A i \in Original!Revocations : Original!EffectiveDate(i) = RevokedFrom(p, i)
        BY <1>2, <1>4 DEF RevocationEntries
    <2>2. {Original!EffectiveDate(i) : i \in Original!Revocations}
            = {RevokedFrom(p, i) : i \in Original!Revocations}
        BY <2>1
    <2>3. QED BY <1>4, <2>2 DEF Dates
<1>6. (Original!Revocations = {}) <=> (Dates(p) = {})
    BY <1>4 DEF Dates
<1>7. \A i \in RevocationEntries(p) : i \in DOMAIN p.links
    BY DEF RevocationEntries
<1>8. (\E i \in DOMAIN p.links : Original!Mismatch(i))
      <=> \E i \in DOMAIN p.links : HistoryDiffers(p, i)
    BY <1>2
<1>9. (\E i \in DOMAIN p.links : Original!Revoked(i) /\ ~Original!HeadHasEvent(i))
      <=> \E i \in RevocationEntries(p) : ~HeadEvent(p, i)
    BY <1>2, <1>7
<1>10. {code \in Code :
          \/ code = "HISTORY_MISMATCH" /\ \E i \in DOMAIN p.links : Original!Mismatch(i)
          \/ /\ code = "NO_ONCHAIN_EVENT_FOR_HEAD"
             /\ \E i \in DOMAIN p.links : Original!Revoked(i) /\ ~Original!HeadHasEvent(i)
          \/ code = "STALE_REVOCATION_DATA" /\ now - p.fetchedAt > FreshnessWindow}
       = PortCodes(p)
    <2>1. PICK lie, silent, stale \in BOOLEAN :
            /\ lie <=> \E i \in DOMAIN p.links : HistoryDiffers(p, i)
            /\ silent <=> \E i \in RevocationEntries(p) : ~HeadEvent(p, i)
            /\ stale <=> now - p.fetchedAt > FreshnessWindow
        OBVIOUS
    <2>2. {code \in Code : \/ code = "HISTORY_MISMATCH" /\ lie
                           \/ code = "NO_ONCHAIN_EVENT_FOR_HEAD" /\ silent
                           \/ code = "STALE_REVOCATION_DATA" /\ stale}
          = (IF lie THEN {"HISTORY_MISMATCH"} ELSE {})
            \cup (IF silent THEN {"NO_ONCHAIN_EVENT_FOR_HEAD"} ELSE {})
            \cup (IF stale THEN {"STALE_REVOCATION_DATA"} ELSE {})
        BY DEF Code
    <2>3. QED BY <1>8, <1>9, <2>1, <2>2 DEF PortCodes
<1>11. QED BY <1>2, <1>3, <1>5, <1>6, <1>10

\* The original, with the same reads, concludes the same.
LEMMA OriginalConcludes ==
    ASSUME ChainTypeOK, NEW p, AllRead(p), ~p.masked, Mapped = AsOriginal(p),
           Original!At("revocation"), Mapped' = Concluded(Mapped, p)
    PROVE  Original!JudgeRevocation
<1>1. /\ Mapped.chain = p.links /\ Mapped.kind = "signature" /\ Mapped.fetchedAt = p.fetchedAt
      /\ Mapped.signing = p.signing
    BY DEF AsOriginal
<1>2. PICK a \in Verification : a = Mapped
    BY OriginalType DEF AllRead
<1> DEFINE stale == now - p.fetchedAt > FreshnessWindow
           codes == {code \in Code :
                       \/ code = "HISTORY_MISMATCH" /\ \E i \in DOMAIN p.links : Original!Mismatch(i)
                       \/ /\ code = "NO_ONCHAIN_EVENT_FOR_HEAD"
                          /\ \E i \in DOMAIN p.links :
                                Original!Revoked(i) /\ ~Original!HeadHasEvent(i)
                       \/ code = "STALE_REVOCATION_DATA" /\ stale}
           next == [Mapped EXCEPT !.step = "press", !.codes = @ \cup codes]
<1> DEFINE seen == {code \in Original!Code :
                       \/ /\ code = "HISTORY_MISMATCH"
                          /\ \E i \in DOMAIN Mapped.chain : Original!Mismatch(i)
                       \/ /\ code = "NO_ONCHAIN_EVENT_FOR_HEAD"
                          /\ \E i \in DOMAIN Mapped.chain :
                                Original!Revoked(i) /\ ~Original!HeadHasEvent(i)
                       \/ code = "STALE_REVOCATION_DATA" /\ now - Mapped.fetchedAt > FreshnessWindow}
           then(date) == Original!YesNo(Mapped.signing < date)
           present(date) ==
               Original!YesNo(now < date /\ ~(now - Mapped.fetchedAt > FreshnessWindow))
           shown == [Mapped EXCEPT !.step = IF Mapped.kind = "card" THEN "annotate" ELSE "press",
                                   !.codes = @ \cup seen]
<1>3. Original!JudgeRevocation <=>
        /\ Original!At("revocation")
        /\ \A i \in DOMAIN Mapped.chain : Mapped.entryAt[i] # 0 /\ Mapped.logAt[i] # 0
        /\ \/ (\A i \in DOMAIN Mapped.chain : ~Original!HasContent(i)) /\ Mapped' = shown
           \/ /\ \E i \in DOMAIN Mapped.chain : Original!HasContent(i)
              /\ Original!Revocations = {}
              /\ Mapped' = [shown EXCEPT !.status = "not_revoked", !.validThen = "yes",
                    !.validNow = Original!YesNo(~(now - Mapped.fetchedAt > FreshnessWindow))]
           \/ /\ Original!Revocations # {}
              /\ LET date == Original!Earliest({Original!EffectiveDate(i) : i \in Original!Revocations})
                 IN Mapped' = [shown EXCEPT !.status = "revoked", !.effective = date,
                                 !.validThen = then(date), !.validNow = present(date)]
    BY Zenon DEF Original!JudgeRevocation
<1>4. seen = codes /\ shown = next
    BY <1>1, SameNames
<1>5. \A date : then(date) = YesNo(p.signing < date) /\ present(date) = YesNo(now < date /\ ~stale)
    BY <1>1, SameReads
<1>6. /\ \A i \in DOMAIN Mapped.chain : Mapped.entryAt[i] # 0 /\ Mapped.logAt[i] # 0
      /\ \E i \in DOMAIN Mapped.chain : Original!HasContent(i)
      /\ (Original!Revocations = {}) <=> (Dates(p) = {})
      /\ {Original!EffectiveDate(i) : i \in Original!Revocations} = Dates(p)
    BY <1>1, SameVerdict
<1>7. Original!Earliest(Dates(p)) = Earliest(Dates(p))
    BY Zenon DEF Original!Earliest, Earliest
<1>8. codes = PortCodes(p)
    BY SameVerdict
<1>9. PICK new : new = PortCodes(p)
    OBVIOUS
<1>10. next = [a EXCEPT !.step = "press", !.codes = @ \cup new]
    BY <1>2, <1>8, <1>9
<1>11. CASE Dates(p) = {}
    <2>1. PICK valid : valid = YesNo(~stale)
        OBVIOUS
    <2>2. Mapped' = Judged4O(a, new, "not_revoked", a.effective, "yes", valid)
        BY <1>2, <1>9, <1>11, <2>1 DEF Concluded
    <2>3. Judged4O(a, new, "not_revoked", a.effective, "yes", valid)
            = [[a EXCEPT !.step = "press", !.codes = @ \cup new]
                EXCEPT !.status = "not_revoked", !.validThen = "yes", !.validNow = valid]
        BY DEF Judged4O, Verification
    <2>4. Mapped' = [next EXCEPT !.status = "not_revoked", !.validThen = "yes",
                                 !.validNow = valid]
        BY <1>10, <2>1, <2>2, <2>3
    <2>5. valid = Original!YesNo(~(now - Mapped.fetchedAt > FreshnessWindow))
        BY <1>1, <2>1, SameReads
    <2> HIDE DEF next, codes, stale, seen, shown, then, present
    <2>6. Mapped' = [shown EXCEPT !.status = "not_revoked", !.validThen = "yes",
                       !.validNow = Original!YesNo(~(now - Mapped.fetchedAt > FreshnessWindow))]
        BY <1>4, <2>4, <2>5, Zenon
    <2>7. QED BY <1>3, <1>11, <1>6, <2>6, Zenon
<1>12. CASE Dates(p) # {}
    <2>1. PICK date, was, is :
            /\ date = Earliest(Dates(p)) /\ was = YesNo(p.signing < date)
            /\ is = YesNo(now < date /\ ~stale)
        OBVIOUS
    <2>2. Mapped' = Judged4O(a, new, "revoked", date, was, is)
        BY <1>2, <1>9, <1>12, <2>1 DEF Concluded
    <2>3. Judged4O(a, new, "revoked", date, was, is)
            = [[a EXCEPT !.step = "press", !.codes = @ \cup new]
                EXCEPT !.status = "revoked", !.effective = date, !.validThen = was, !.validNow = is]
        BY DEF Judged4O, Verification
    <2>4. Mapped' = [next EXCEPT !.status = "revoked", !.effective = date, !.validThen = was,
                                 !.validNow = is]
        BY <1>10, <2>2, <2>3
    <2>5. /\ date = Original!Earliest({Original!EffectiveDate(i) : i \in Original!Revocations})
          /\ was = then(date) /\ is = present(date)
        <3> HIDE DEF stale, then, present
        <3>1. QED BY <1>5, <1>6, <1>7, <2>1
    <2> HIDE DEF next, codes, stale, seen, shown, then, present
    <2>6. Mapped' = [shown EXCEPT !.status = "revoked", !.effective = date,
                                  !.validThen = then(date), !.validNow = present(date)]
        BY <1>4, <2>4, <2>5, Zenon
    <2>7. Original!Revocations # {}
        BY <1>12, <1>6
    <2>8. QED BY <1>3, <1>6, <2>5, <2>6, <2>7, Zenon
<1>13. QED BY <1>11, <1>12

\* The last card read, stage 4 concludes.
LEMMA VerdictStep ==
    ASSUME PortInv, port.pc = "logs", UNCHANGED vars, NEW last,
           last = port.latest[Len(port.latest)], NEW next,
           next = WithEvents(port, 1..last, Append(port.events, 1..last)),
           Len(next.events) >= Len(next.links), Resume(Stage4Result(next), "signer-again")
    PROVE  PortInv' /\ ConformStep
<1>1. /\ next \in PortType /\ Reading4(next, port) /\ AsOriginal(next) = AsOriginal(port)
      /\ AllRead(next) /\ ChainTypeOK /\ Source(port)
    BY LogRead DEF PortInv, Source
<1>2. PICK codes \in SUBSET Code : codes = PortCodes(next)
    BY <1>1, Verdicts
<1>3. \A b : YesNo(b) \in Answer
    BY DEF YesNo, Answer
<1>4. PICK q : q = port'
    OBVIOUS
<1>5. \E status \in {"not_revoked", "revoked"}, effective \in Nat \cup {Nil},
         then \in Answer, present \in Answer :
        /\ q = Judged4(next, codes, status, effective, then, present)
        /\ status = "not_revoked" => Dates(next) = {}
        /\ \A a : a.effective = next.effective =>
              Concluded(a, next) = Judged4O(a, codes, status, effective, then, present)
    <2>1. CASE Dates(next) = {}
        <3>1. PICK present \in Answer :
                present = YesNo(~(now - next.fetchedAt > FreshnessWindow))
            BY <1>3
        <3>2. q = Judged4(next, codes, "not_revoked", next.effective, "yes", present)
            BY <1>1, <1>2, <1>4, <2>1, <3>1, Stage4Is
        <3>3. \A a : a.effective = next.effective =>
                Concluded(a, next) = Judged4O(a, codes, "not_revoked", next.effective, "yes", present)
            BY <1>2, <2>1, <3>1, SMTT(30) DEF Concluded
        <3>4. next.effective \in Nat \cup {Nil} /\ "yes" \in Answer
            BY <1>1 DEF PortType, Answer
        <3>5. QED BY <2>1, <3>2, <3>3, <3>4
    <2>2. CASE Dates(next) # {}
        <3>1. PICK date \in Nat : date = Earliest(Dates(next))
            BY <1>1, <2>2, Verdicts
        <3>2. PICK then \in Answer : then = YesNo(next.signing < date)
            BY <1>3
        <3>3. PICK present \in Answer :
                present = YesNo(now < date /\ ~(now - next.fetchedAt > FreshnessWindow))
            BY <1>3, SMTT(30)
        <3>4. q = Judged4(next, codes, "revoked", date, then, present)
            BY <1>1, <1>2, <1>4, <2>2, <3>1, <3>2, <3>3, Stage4Is, SMTT(30)
        <3>5. \A a : Concluded(a, next) = Judged4O(a, codes, "revoked", date, then, present)
            BY <1>2, <2>2, <3>1, <3>2, <3>3 DEF Concluded
        <3>6. QED BY <3>4, <3>5
    <2>3. QED BY <2>1, <2>2, SMTT(30)
<1>6. PICK status \in {"not_revoked", "revoked"}, effective \in Nat \cup {Nil},
           then \in Answer, present \in Answer :
        /\ q = Judged4(next, codes, status, effective, then, present)
        /\ status = "not_revoked" => Dates(next) = {}
        /\ \A a : a.effective = next.effective =>
              Concluded(a, next) = Judged4O(a, codes, status, effective, then, present)
    BY <1>5
<1>7. JudgedAs(q, next, codes, status, effective, then, present)
    BY <1>1, <1>6, JudgedMaps
<1>8. PortSound(q)
    BY <1>1, <1>6, <1>7, VerdictStands DEF JudgedAs
<1>9. Tied(q, port)
    BY <1>1, <1>7 DEF JudgedAs, Reading4, Tied
<1>10. ASSUME Unmasked(port) PROVE Original!Stage
    <2>1. /\ Mapped = AsOriginal(next) /\ Mapped' = AsOriginal(q) /\ ~next.masked
          /\ Original!At("revocation")
        BY <1>1, <1>4, <1>10, Steps, SMTT(30) DEF Unmasked, Reading4, Tied
    <2>2. Mapped.effective = next.effective
        BY <2>1 DEF AsOriginal
    <2>3. Mapped' = Concluded(Mapped, next)
        BY <1>6, <1>7, <2>1, <2>2 DEF JudgedAs
    <2>4. Original!JudgeRevocation
        BY <1>1, <2>1, <2>3, OriginalConcludes
    <2>5. QED BY <2>4 DEF Original!Stage
<1>11. QED BY <1>1, <1>4, <1>8, <1>9, <1>10, Conforming, PortRests

LEMMA GetLogsSafe ==
    ASSUME PortInv, GetLogs
    PROVE  PortInv' /\ ConformStep
<1> DEFINE last == port.latest[Len(port.latest)]
           end == port.block + port.window - 1
           to == IF end < last THEN end ELSE last
<1>1. port.pc = "logs" /\ UNCHANGED vars /\ port \in PortType
    BY DEF GetLogs, Await, PortInv, PortSound
<1>2. /\ last \in Nat /\ to \in Nat /\ to <= last /\ port.block <= to /\ to # 0
      /\ port.got \cup port.block..to = 1..to /\ 1..to \in SUBSET Nat
      /\ port.got \in SUBSET Nat /\ port.block \in Nat /\ port.window \in Nat
      /\ port.block # 0 /\ port.window # 0 /\ port.got = 1..(port.block - 1)
      /\ port.block <= last
    BY <1>1, WindowIs
<1>3. CASE to < last /\ port' = [port EXCEPT !.got = @ \cup port.block..to, !.block = to + 1]
    <2>1. PICK p \in PortType : p = port
        BY <1>1
    <2>2. 1..to \in SUBSET Nat /\ to + 1 \in Nat /\ port.window \in Nat
        BY <1>2, SMTT(30)
    <2>3. PICK got \in SUBSET Nat, block \in Nat, window \in Nat :
            /\ got = 1..to /\ block = to + 1 /\ window = port.window
        BY <2>2, Zenon
    <2>4. port' = Scanned(port, got, block, window)
        <3>1. port' = [p EXCEPT !.got = got, !.block = block]
            BY <1>2, <1>3, <2>1, <2>3
        <3>2. [p EXCEPT !.got = got, !.block = block] = Scanned(p, got, block, window)
            BY <2>1, <2>3 DEF Scanned, PortType
        <3>3. QED BY <2>1, <3>1, <3>2
    <2>5. window # 0 /\ block # 0 /\ got = 1..(block - 1) /\ block <= port.latest[Len(port.latest)]
        BY <1>2, <1>3, <2>3, SMTT(30)
    <2>6. QED BY <1>1, <2>4, <2>5, WindowStep
<1>4. CASE port.window > 1 /\ port' = Refused(to)
    <2>1. PICK p \in PortType : p = port
        BY <1>1
    <2>2. port.got \in SUBSET Nat /\ port.block \in Nat /\ port.window \div 2 \in Nat
        BY <1>2, SMTT(30)
    <2>3. PICK got \in SUBSET Nat, block \in Nat, window \in Nat :
            /\ got = port.got /\ block = port.block /\ window = port.window \div 2
        BY <2>2, Zenon
    <2>4. port' = Scanned(port, got, block, window)
        <3>1. port' = [p EXCEPT !.window = window]
            <4>1. Refused(to) = [port EXCEPT !.window = port.window \div 2]
                BY DEF Refused
            <4>2. QED BY <1>4, <2>1, <2>3, <4>1
        <3>2. [p EXCEPT !.window = window] = Scanned(p, got, block, window)
            BY <2>1, <2>3 DEF Scanned, PortType
        <3>3. QED BY <2>1, <3>1, <3>2
    <2>5. window # 0 /\ block # 0 /\ got = 1..(block - 1) /\ block <= port.latest[Len(port.latest)]
        BY <1>2, <1>4, <2>3
    <2>6. QED BY <1>1, <2>4, <2>5, WindowStep
<1>5. CASE to = last /\ LogsRead([port EXCEPT !.got = @ \cup port.block..to])
    <2>1. PICK p \in PortType : p = port
        BY <1>1
    <2>2. PICK got \in SUBSET Nat : got = 1..last /\ got = port.got \cup port.block..to
        BY <1>2, <1>5
    <2>3. PICK next : next = WithEvents(port, 1..last, Append(port.events, 1..last))
        OBVIOUS
    <2>4. [[p EXCEPT !.got = got] EXCEPT !.events = Append(@, [p EXCEPT !.got = got].got)] = next
        <3>1. [p EXCEPT !.got = got].got = got /\ [p EXCEPT !.got = got].events = p.events
            BY DEF PortType
        <3>2. [[p EXCEPT !.got = got] EXCEPT !.events = Append(p.events, got)]
                = [p EXCEPT !.got = got, !.events = Append(p.events, got)]
            BY DEF PortType
        <3>3. QED BY <2>1, <2>2, <2>3, <3>1, <3>2 DEF WithEvents
    <2>5. LogsRead([p EXCEPT !.got = got])
        BY <1>5, <2>1, <2>2
    <2>6. IF Len(next.events) < Len(next.links) THEN Resume(next, "card-entry")
          ELSE Resume(Stage4Result(next), "signer-again")
        BY <2>4, <2>5, Zenon DEF LogsRead
    <2>7. CASE Len(next.events) < Len(next.links)
        BY <1>1, <2>3, <2>6, <2>7, NextCard
    <2>8. CASE ~(Len(next.events) < Len(next.links))
        <3>1. Len(next.events) \in Nat /\ Len(next.links) \in Nat
            <4>1. next \in PortType
                BY <1>1, <2>3, LogRead
            <4>2. next.events \in Seq(SUBSET Nat) /\ next.links \in Seq([card : Card, entry : Nat])
                BY <4>1 DEF PortType, Links
            <4>3. QED BY <4>2
        <3>2. Len(next.events) >= Len(next.links)
            BY <2>8, <3>1
        <3>3. QED BY <1>1, <2>3, <2>6, <2>8, <3>2, VerdictStep
    <2>9. QED BY <2>7, <2>8
<1>6. QED BY <1>3, <1>4, <1>5, Zenon DEF GetLogs

-----------------------------------------------------------------------------
(* The start, and the whole of the port                                      *)

LEMMA NotStartedType == ChainTypeOK => NotStarted \in PortType /\ Snapshot \in Beginnings
<1> SUFFICES ASSUME ChainTypeOK PROVE NotStarted \in PortType /\ Snapshot \in Beginnings
    OBVIOUS
<1>1. Snapshot \in Beginnings
    <2>1. \A c \in Card : Len(log[c]) \in Nat
        <3>1. \A c \in Card : log[c] \in Seq(Entry)
            BY DEF ChainTypeOK
        <3>2. QED BY <3>1
    <2>2. Len(pressLog) \in Nat /\ subCard.active \in BOOLEAN
        <3>1. pressLog \in Seq(PressStatus) /\ subCard \in SubCardEntry
            BY DEF ChainTypeOK
        <3>2. QED BY <3>1 DEF SubCardEntry
    <2>3. QED BY <2>1, <2>2 DEF Snapshot, Beginnings
<1>2. PICK began \in Beginnings : began = Snapshot
    BY <1>1
<1>3. PICK idle \in Verification : idle = Idle
    BY IdleType
<1>4. 0 \in 0..MaxChainDepth /\ Master \in Card
    BY Beginning
<1>5. <<>> \in Links /\ <<>> \in Seq(Nat) /\ <<>> \in Seq(SUBSET Nat)
    BY DEF Links
<1>6. "none" \in Pcs
    BY DEF Pcs
<1>7. NotStarted \in PortType
    BY <1>2, <1>3, <1>4, <1>5, <1>6 DEF NotStarted, PortType, Answer
<1>8. QED BY <1>1, <1>7

\* A verification that has read nothing
LEMMA NothingRead ==
    ASSUME ChainTypeOK, NEW q \in PortType, q.pc \in {"none", "entry"}, q.links = <<>>,
           q.heads = <<>>, q.latest = <<>>, q.events = <<>>, ~q.stage4, ~q.masked,
           q.scope = "skipped", q.status = "unknown", q.began = Snapshot
    PROVE  PortSound(q)
<1>1. \A c \in Card : Len(log[c]) \in Nat
    <2>1. \A c \in Card : log[c] \in Seq(Entry)
        BY DEF ChainTypeOK
    <2>2. QED BY <2>1
<1>2. PortBegan(q)
    BY <1>1 DEF PortBegan, Snapshot
<1>3. PortLinks(q)
    BY DEF PortLinks
<1>4. PortLocated(q) /\ PortReadings(q)
    BY DEF PortLocated, PortReadings, Early, WalkPcs, LogPcs
<1>5. PortSeen(q) /\ PortVerdict(q)
    BY DEF PortSeen, PortVerdict
<1>6. QED BY <1>2, <1>3, <1>4, <1>5 DEF PortSound

Started(provider, signing, appRoot) ==
    [NotStarted EXCEPT !.pc = "entry", !.provider = provider, !.signing = signing,
                       !.appRoot = appRoot]
StartedO(signing, appRoot) ==
    [Idle EXCEPT !.step = "signer", !.signing = signing, !.appRoot = appRoot]

LEMMA StartMaps ==
    ASSUME ChainTypeOK, NEW provider \in {"strict", "web3"}, NEW signing \in 0..now,
           NEW appRoot \in AppRoots, NEW q, q = Started(provider, signing, appRoot)
    PROVE  /\ q \in PortType /\ q.pc = "entry" /\ q.links = <<>>
           /\ q.heads = <<>> /\ q.latest = <<>> /\ q.events = <<>> /\ ~q.stage4 /\ ~q.masked
           /\ q.scope = "skipped" /\ q.status = "unknown" /\ q.began = Snapshot
           /\ AsOriginal(q) = StartedO(signing, appRoot)
<1>1. PICK p \in PortType : p = NotStarted
    BY NotStartedType
<1>2. signing \in Nat /\ "entry" \in Pcs
    BY ChainAssumption DEF ChainTypeOK, Pcs, Awaited
<1>3. q \in PortType
    <2>1. PICK pc \in Pcs, from \in AppRoots \cup {Nil} : pc = "entry" /\ from = appRoot
        BY <1>2
    <2>2. PICK r : r = [p EXCEPT !.pc = pc, !.provider = provider]
        OBVIOUS
    <2>3. r \in PortType
        BY <2>2, ZenonT(60) DEF PortType
    <2>4. q = [r EXCEPT !.signing = signing, !.appRoot = from]
        BY <1>1, <2>1, <2>2 DEF Started, PortType
    <2>5. QED BY <1>2, <2>3, <2>4, ZenonT(60) DEF PortType
<1>4. /\ q.pc = "entry" /\ q.links = <<>>
      /\ q.heads = <<>> /\ q.latest = <<>> /\ q.events = <<>> /\ ~q.stage4 /\ ~q.masked
      /\ q.scope = "skipped" /\ q.status = "unknown" /\ q.began = Snapshot
      /\ q.signing = signing /\ q.appRoot = appRoot
    BY DEF Started, NotStarted
<1>5. StartedO(signing, appRoot) \in Verification
    BY <1>2, IdleType DEF StartedO, Verification, Reads
<1>6. Reflects(StartedO(signing, appRoot), q)
    <2>1. StepOf(q.pc) = "signer"
        BY <1>4, Steps
    <2>2. ReadingsOf(q, q.heads) = <<>> /\ ReadingsOf(q, q.latest) = <<>>
        BY <1>4 DEF ReadingsOf
    <2>3. QED BY <1>4, <2>1, <2>2 DEF Reflects, Started, NotStarted, StartedO, Idle
<1>7. QED BY <1>3, <1>4, <1>5, <1>6, Reflected

LEMMA SameBeginning == Original!Snapshot = Snapshot /\ Original!Idle = Idle
BY Zenon DEF Original!Snapshot, Snapshot, Original!Idle, Idle

LEMMA StartSafe ==
    ASSUME PortInv, Start
    PROVE  PortInv' /\ ConformStep
<1>1. port.pc = "none" /\ UNCHANGED vars /\ UNCHANGED chainVars
    BY DEF Start, vars
<1>2. PICK provider \in {"strict", "web3"}, signing \in 0..now, appRoot \in AppRoots :
        port' = Started(provider, signing, appRoot)
    BY DEF Start, Started
<1>3. PICK q : q = port'
    OBVIOUS
<1>4. /\ q \in PortType /\ q.pc = "entry" /\ q.links = <<>>
      /\ q.heads = <<>> /\ q.latest = <<>> /\ q.events = <<>> /\ ~q.stage4 /\ ~q.masked
      /\ q.scope = "skipped" /\ q.status = "unknown" /\ q.began = Snapshot
      /\ AsOriginal(q) = StartedO(signing, appRoot)
    BY <1>2, <1>3, StartMaps DEF PortInv
<1>5. PortSound(q)
    BY <1>4, NothingRead DEF PortInv
<1>6. ~port.masked
    BY <1>1 DEF PortInv, PortSound, PortBegan
<1>7. Mapped = AsOriginal(port) /\ Mapped' = StartedO(signing, appRoot)
    BY <1>3, <1>4, <1>6, Shown
<1>8. Mapped.step = "idle"
    BY <1>1, <1>7, Steps DEF AsOriginal
<1>9. Original!Begin([Original!Idle EXCEPT !.step = "signer", !.signing = signing,
                                           !.appRoot = appRoot])
    <2>1. PICK next : next = StartedO(signing, appRoot)
        OBVIOUS
    <2>2. [Original!Idle EXCEPT !.step = "signer", !.signing = signing, !.appRoot = appRoot] = next
        BY <2>1, SameBeginning, Zenon DEF StartedO
    <2>3. Original!Begin(next)
        BY <1>1, <1>3, <1>4, <1>7, <1>8, <2>1, SameBeginning
        DEF Original!Begin, Original!chainVars, chainVars
    <2>4. QED BY <2>2, <2>3
<1>10. Original!VerifyEnvelope
    BY <1>2, <1>9 DEF Original!VerifyEnvelope
<1>11. ConformStep
    BY <1>10 DEF ConformStep, Original!Next
<1>12. QED BY <1>1, <1>3, <1>5, <1>11, PortRests

LEMMA PortInvInit == PortInit => PortInv /\ Original!Init
<1> SUFFICES ASSUME PortInit PROVE PortInv /\ Original!Init
    OBVIOUS
<1>1. ChainTypeOK /\ Init /\ port = NotStarted
    BY VerifierInvInit DEF PortInit, VerifierInv
<1>2. /\ NotStarted.pc = "none" /\ NotStarted.links = <<>>
      /\ NotStarted.heads = <<>> /\ NotStarted.latest = <<>> /\ NotStarted.events = <<>>
      /\ ~NotStarted.stage4 /\ ~NotStarted.masked
      /\ NotStarted.scope = "skipped" /\ NotStarted.status = "unknown"
      /\ NotStarted.began = Snapshot
    BY DEF NotStarted
<1>3. PICK p \in PortType : p = NotStarted
    BY <1>1, NotStartedType
<1>4. PortSound(p)
    BY <1>1, <1>2, <1>3, NothingRead
<1>5. AsOriginal(p) = Idle
    <2>1. StepOf("none") = "idle"
        BY Steps
    <2>2. Reflects(Idle, p)
        BY <1>3, <2>1 DEF Reflects, ReadingsOf, NotStarted, Idle
    <2>3. QED BY <2>2, IdleType, Reflected
<1>6. Mapped = Original!Idle /\ port.began = Original!Snapshot
    BY <1>1, <1>2, <1>3, <1>5, SameBeginning DEF Mapped
<1>7. Original!ChainInit
    BY <1>1, Zenon DEF Init, ChainInit, Original!ChainInit, Genesis, Original!Genesis
<1>8. QED BY <1>1, <1>3, <1>4, <1>6, <1>7 DEF PortInv, Original!Init

\* A step of the original leaves the chain alone, or is one of the chain's own.
LEMMA NextIs == Next => ChainStep \/ UNCHANGED chainVars
<1>1. VerifyEnvelope \/ VerifyCard \/ VerifyCardPy => UNCHANGED chainVars
    BY Zenon DEF VerifyEnvelope, VerifyCard, VerifyCardPy, Begin
<1>2. ReadSigner \/ ReadMaster \/ ReadSubCard \/ ReadAppCard \/ WalkAppChain => UNCHANGED chainVars
    BY DEF ReadSigner, ReadMaster, ReadSubCard, ReadAppCard, WalkAppChain, At, chainVars
<1>3. ReadCard \/ ReadCardContent \/ WalkChain \/ AskNextRoot \/ ReadAncestor => UNCHANGED chainVars
    BY DEF ReadCard, ReadCardContent, WalkChain, AskNextRoot, ReadAncestor, At, chainVars
<1>4. ReadRevocations \/ JudgeRevocation \/ ReadPress \/ ReportNonCompliance \/ Annotate
        => UNCHANGED chainVars
    BY Zenon
    DEF ReadRevocations, JudgeRevocation, ReadPress, ReportNonCompliance, Annotate, At
<1>5. Throw \/ WalkThrows => UNCHANGED chainVars
    BY DEF Throw, WalkThrows, chainVars
<1>6. QED BY <1>1, <1>2, <1>3, <1>4, <1>5, Zenon DEF Next, Stage

\* What the original does meanwhile does not touch the port.
LEMMA PortWaits ==
    ASSUME PortInv, Next \/ UNCHANGED vars, UNCHANGED port
    PROVE  PortInv' /\ ConformStep
<1>1. CASE ChainStep
    BY <1>1, PortChainMoved DEF ConformStep
<1>2. CASE UNCHANGED chainVars
    <2>1. ChainTypeOK'
        BY <1>2 DEF PortInv, ChainTypeOK, chainVars
    <2>2. PortSound(port)'
        BY <1>2, ZenonT(60)
        DEF PortInv, chainVars, PortSound, PortBegan, PortLinks, PortLocated,
            PortReadings,
            PortSeen, PortVerdict, SinceBegan, ListedSince, UndatedSince
    <2>3. UNCHANGED Original!vars
        <3>1. Mapped' = Mapped
            BY DEF Mapped, AsOriginal, ReadSoFar, StepOf
        <3>2. QED BY <1>2, <3>1 DEF Original!vars, Original!chainVars, chainVars
    <2>4. QED BY <2>1, <2>2, <2>3 DEF PortInv, ConformStep
<1>3. UNCHANGED vars => UNCHANGED chainVars
    BY DEF vars, chainVars
<1>4. QED BY <1>1, <1>2, <1>3, NextIs

LEMMA PortStageSafe ==
    ASSUME PortInv, PortStage
    PROVE  PortInv' /\ ConformStep
BY FetchSubCardSafe, FetchMasterSafe, CheckSubCardSafe, FetchAppCardSafe,
   FetchAppAncestorSafe,
    TakeAncestrySafe, IsPolicyAuthorizerSafe, FetchAncestorSafe, FetchCardEntrySafe,
    BlockNumberSafe, GetLogsSafe, SignerAgainSafe, CheckPressSafe, ReportSafe, AnnotationsSafe,
    RaiseSafe DEF PortStage

LEMMA PortInvNext == PortInv /\ [PortNext]_portVars => PortInv' /\ ConformStep
<1> SUFFICES ASSUME PortInv, [PortNext]_portVars PROVE PortInv' /\ ConformStep
    OBVIOUS
<1>1. CASE port.pc = "none" /\ Next /\ UNCHANGED port
    BY <1>1, PortWaits
<1>2. CASE Start
    BY <1>2, StartSafe
<1>3. CASE PortStage
    BY <1>3, PortStageSafe
<1>4. CASE port.pc \in Awaited /\ ChainStep /\ UNCHANGED <<v, start, port>>
    <2>1. UNCHANGED port
        BY <1>4
    <2>2. QED BY <1>4, <2>1, PortChainMoved DEF ConformStep
<1>5. CASE UNCHANGED portVars
    BY <1>5, PortWaits DEF portVars
<1>6. QED BY <1>1, <1>2, <1>3, <1>4, <1>5, Zenon DEF PortNext

LEMMA MaskingIs == PortInv => MaskingClearsNobody
<1> SUFFICES ASSUME PortInv PROVE MaskingClearsNobody
    OBVIOUS
<1>1. ASSUME NEW c \in Card, NEW n \in 1..Len(log[c]), SinceBegan(port, c, n)
      PROVE  log[c][n] \in SincePort(c)
    <2>1. n \in port.began.entries[c]..Len(log[c])
        <3>1. port.began.entries[c] \in Nat
            BY DEF PortInv, PortSound, PortType, Beginnings
        <3>2. log[c] \in Seq(Entry)
            BY DEF PortInv, ChainTypeOK
        <3>3. QED BY <1>1, <3>1, <3>2 DEF SinceBegan
    <2>2. QED BY <2>1 DEF SincePort
<1>2. ASSUME port.scope = "yes"
      PROVE  subCard.exists /\ port.began.active /\ subCard.flaw = "none"
             /\ \E e \in SincePort(Master) : e.listed
    <2>1. subCard.exists /\ port.began.active /\ subCard.flaw = "none" /\ ListedSince(port)
        BY <1>2 DEF PortInv, PortSound, PortSeen
    <2>2. QED BY <1>1, <2>1, Beginning DEF ListedSince
<1>3. ASSUME port.status = "not_revoked", NEW i \in DOMAIN port.links
      PROVE  \E e \in SincePort(port.links[i].card) : e.kind # "revocation" \/ e.reported = Nil
    <2>1. UndatedSince(port, port.links[i])
        BY <1>3 DEF PortInv, PortSound, PortVerdict
    <2>2. PICK c \in Card : c = port.links[i].card
        BY LinkType DEF PortInv, PortSound, PortType
    <2>3. QED BY <1>1, <2>1, <2>2 DEF UndatedSince
<1>4. QED BY <1>2, <1>3 DEF MaskingClearsNobody

\* The port, read for read, answers as the original could until a provider hides
\* something from it (verify_envelope, verify_stage2 to verify_stage6).
THEOREM PortImplements == PortSpec => PortConforms
<1>1. PortInit => PortInv /\ Original!Init
    BY PortInvInit
<1>2. PortInv /\ [PortNext]_portVars => PortInv'
    BY PortInvNext
<1>3. PortInv /\ [PortNext]_portVars
        => [Original!Next \/ (ChainStep /\ UNCHANGED port)]_(Original!vars)
    BY PortInvNext DEF ConformStep
<1>4. QED BY <1>1, <1>2, <1>3, PTL DEF PortSpec, PortConforms

\* Whatever a provider that answers None hides, no sub-card is honoured that was struck
\* off or deregistered before, and no dated revocation is missed (rpc_provider.py).
THEOREM MaskingIsStricter == PortSpec => []MaskingClearsNobody
<1>1. PortInit => PortInv
    BY PortInvInit
<1>2. PortInv /\ [PortNext]_portVars => PortInv'
    BY PortInvNext
<1>3. PortInv => MaskingClearsNobody
    BY MaskingIs
<1>4. QED BY <1>1, <1>2, <1>3, PTL DEF PortSpec
=============================================================================
