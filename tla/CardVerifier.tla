----------------------------- MODULE CardVerifier -----------------------------
(***************************************************************************)
(* The card verifier (membership_card_verifier/packages/verifier, with the    *)
(* Python port in packages/verifier-py): one signature of an envelope or one   *)
(* card, through stages 2 to 6.                                                *)
(*                                                                         *)
(* A verification keeps nothing: every stage reads the chain for itself, and   *)
(* every read is a step of its own, between two of which the chain moves on.   *)
(* The signature itself (stage 1) is checked before anything is read.          *)
(***************************************************************************)
EXTENDS VerifierChain

CONSTANTS
    TrustedRoots,       \* trustedRoots
    AppRoots,           \* what appCertificationRoot may be, Nil where none is configured
    MaxChainDepth,      \* maxChainDepth
    FreshnessWindow     \* revocationFreshnessWindowSeconds, rejectStaleRevocation on

ASSUME VerifierAssumption ==
    /\ TrustedRoots \subseteq Card
    /\ AppRoots \subseteq Card \cup {Nil}
    /\ MaxChainDepth \in Nat \ {0} /\ FreshnessWindow \in Nat

VARIABLES
    v,          \* the verification: where it is, what it has read, what it answers
    start       \* what the chain held when it began

vars == <<chainVars, v, start>>

Reads == {"signer", "master", "sub-card", "app-card", "app-hop", "card", "card-content",
          "root", "next-root", "ancestor", "revocation", "press", "report", "annotate"}
Over == {"done", "threw"}
Code == {"CARD_NOT_FOUND", "DECRYPTION_FAILED", "ADDRESS_BINDING_MISMATCH",
         "SUB_CARD_NOT_IN_ACTIVE_DIRECTORY", "INVALID_HOLDER_SIGNATURE", "SUB_CARD_INACTIVE",
         "INVALID_APP_SIGNATURE", "APP_CERTIFICATION_ROOT_NOT_CONFIGURED",
         "APP_CARD_CHAIN_NOT_TRUSTED", "CHAIN_DEPTH_EXCEEDED", "HISTORY_MISMATCH",
         "NO_ONCHAIN_EVENT_FOR_HEAD", "STALE_REVOCATION_DATA", "POLICY_FETCH_FAILED",
         "NON_COMPLIANCE_REPORT_FAILED"}
Answer == {"yes", "no", "skipped"}
YesNo(b) == IF b THEN "yes" ELSE "no"

\* chain: the cards walked, each with the entry its content is from, 0 for none.
\* entryAt, logAt: per card of the chain, the reads of stage 4, 0 for not yet.
Verification ==
    [step : {"idle"} \cup Reads \cup Over, kind : {"signature", "card"},
     port : {"ts", "py"}, pubkey : {"none", "wrong", "right"}, signing : Nat,
     appRoot : AppRoots \cup {Nil}, current : Card, depth : 0..MaxChainDepth,
     chain : Seq([card : Card, entry : Nat]), entryAt : Seq(Nat), logAt : Seq(Nat),
     fetchedAt : Nat, codes : SUBSET Code,
     scope : Answer, reaches : Answer, status : {"not_revoked", "revoked", "unknown"},
     effective : Nat \cup {Nil}, validThen : Answer, validNow : Answer,
     compliant : Answer \cup {Nil}, pressRevoked : BOOLEAN, reported : BOOLEAN,
     annotator : BOOLEAN]

TypeOK ==
    /\ ChainTypeOK
    /\ v \in Verification
    /\ start \in [entries : [Card -> Nat], active : BOOLEAN, press : Nat]

Idle ==
    [step |-> "idle", kind |-> "signature", port |-> "ts", pubkey |-> "none", signing |-> 0,
     appRoot |-> Nil, current |-> Master, depth |-> 0,
     chain |-> <<>>, entryAt |-> <<>>, logAt |-> <<>>,
     fetchedAt |-> 0, codes |-> {}, scope |-> "skipped", reaches |-> "skipped",
     status |-> "unknown", effective |-> Nil, validThen |-> "skipped",
     validNow |-> "skipped", compliant |-> "skipped", pressRevoked |-> FALSE,
     reported |-> FALSE, annotator |-> FALSE]

Snapshot == [entries |-> [c \in Card |-> Len(log[c])], active |-> subCard.active,
             press |-> Len(pressLog)]

Init == ChainInit /\ v = Idle /\ start = Snapshot

-----------------------------------------------------------------------------
(* Start and failure                                                        *)

Begin(next) ==
    /\ v.step = "idle"
    /\ v' = next
    /\ start' = Snapshot
    /\ UNCHANGED chainVars

VerifyEnvelope ==
    \E signing \in 0..now, appRoot \in AppRoots :
        Begin([Idle EXCEPT !.step = "signer", !.signing = signing, !.appRoot = appRoot])

VerifyCard ==
    \E pubkey \in {"none", "wrong", "right"}, signing \in 0..now :
        Begin([Idle EXCEPT !.kind = "card", !.step = "card", !.pubkey = pubkey,
                           !.signing = signing])

\* The port looks for revocations before it opens the card, and so in no content at
\* all; the chain that it walks afterwards, given the key, changes no verdict.
VerifyCardPy ==
    \E signing \in 0..now :
        Begin([Idle EXCEPT !.kind = "card", !.port = "py", !.step = "card", !.signing = signing])

At(step) == v.step = step /\ UNCHANGED <<chainVars, start>>

Hop(step) == v' = [v EXCEPT !.step = step]

\* Stage 2 ends the verification: there is no chain to go on with.
Reject(code) == v' = [v EXCEPT !.step = "done", !.scope = "no", !.codes = @ \cup {code}]

Walk == {"root", "next-root", "ancestor"}

\* The provider fails where nothing catches it: the promise rejects, and with it
\* the verification of the whole envelope.
Throw ==
    /\ v.step \in Reads \ {"report"}
    /\ v.kind = "card" => v.step \notin Walk
    /\ v' = [v EXCEPT !.step = "threw"]
    /\ UNCHANGED <<chainVars, start>>

-----------------------------------------------------------------------------
(* Stage 2: the sub-card, its master and its app                            *)

\* getCardEntry of the signer, and the sub-card document: its content and the two
\* address bindings in it.
ReadSigner ==
    /\ At("signer")
    /\ \/ /\ ~subCard.exists
          /\ Reject("CARD_NOT_FOUND")
       \/ /\ subCard.exists
          /\ Reject("DECRYPTION_FAILED")
       \/ /\ subCard.exists /\ subCard.flaw = "binding"
          /\ Reject("ADDRESS_BINDING_MISMATCH")
       \/ /\ subCard.exists /\ subCard.flaw # "binding"
          /\ Hop("master")

\* Mutant: the directory of the master is not consulted.
ListedAnyway(entry) == TRUE

Listed(entry) == entry.listed

ReadMaster ==
    /\ At("master")
    /\ \/ /\ ~Exists(Master)
          /\ Reject("CARD_NOT_FOUND")
       \/ /\ Exists(Master)
          /\ Reject("DECRYPTION_FAILED")
       \/ /\ Exists(Master) /\ HeadOf(Master).readable
          /\ IF Listed(HeadOf(Master))
             THEN v' = [v EXCEPT !.step = "sub-card",
                           !.chain = <<[card |-> Master, entry |-> Len(log[Master])]>>]
             ELSE Reject("SUB_CARD_NOT_IN_ACTIVE_DIRECTORY")

Active(entry) == entry.active

\* The entry of the sub-card and the two signatures on its document.
ReadSubCard ==
    /\ At("sub-card")
    /\ IF subCard.flaw = "registration" THEN Reject("ADDRESS_BINDING_MISMATCH")
       ELSE IF subCard.flaw = "holder-signature" THEN Reject("INVALID_HOLDER_SIGNATURE")
       ELSE IF ~Active(subCard) THEN Reject("SUB_CARD_INACTIVE")
       ELSE IF subCard.flaw = "app-signature" THEN Reject("INVALID_APP_SIGNATURE")
       ELSE IF v.appRoot = Nil THEN Reject("APP_CERTIFICATION_ROOT_NOT_CONFIGURED")
       ELSE Hop("app-card")

\* Stage 2 is clean: stage 3 begins at the master.
Clean ==
    v' = [v EXCEPT !.step = "root", !.scope = "yes", !.current = Master, !.depth = 0]

ReadAppCard ==
    /\ At("app-card")
    /\ \/ /\ ~Exists(AppCard)
          /\ Reject("APP_CARD_CHAIN_NOT_TRUSTED")
       \/ /\ Exists(AppCard)
          /\ Reject("DECRYPTION_FAILED")
       \/ /\ Exists(AppCard) /\ HeadOf(AppCard).readable
          /\ IF AppCard = v.appRoot THEN Clean
             ELSE v' = [v EXCEPT !.step = "app-hop", !.current = AppCard]

Deeper(depth) == depth + 1

TooDeep(depth) == depth = MaxChainDepth

\* One hop of the app card's walk, to the root or to a card that is read.
WalkAppChain ==
    LET next == parent[v.current] IN
    /\ At("app-hop")
    /\ \/ /\ TooDeep(v.depth) \/ next = Nil
          /\ Reject("APP_CARD_CHAIN_NOT_TRUSTED")
       \/ /\ ~TooDeep(v.depth) /\ next = v.appRoot
          /\ Clean
       \/ /\ ~TooDeep(v.depth) /\ next \notin {Nil, v.appRoot}
          /\ \/ /\ ~Exists(next)
                /\ Reject("APP_CARD_CHAIN_NOT_TRUSTED")
             \/ /\ Exists(next)
                /\ Reject("DECRYPTION_FAILED")
             \/ /\ Exists(next) /\ HeadOf(next).readable
                /\ v' = [v EXCEPT !.current = next, !.depth = Deeper(@)]

-----------------------------------------------------------------------------
(* verifyCard: the card itself instead of stage 2                           *)

IsRoot(c) == c \in TrustedRoots \cup authorizers

ReadCard ==
    /\ At("card")
    /\ IF Exists(Master)
       THEN v' = [v EXCEPT !.step = "card-content",
                           !.chain = <<[card |-> Master, entry |-> Len(log[Master])]>>]
       ELSE v' = [v EXCEPT !.step = "done", !.codes = {"CARD_NOT_FOUND"}]

Stub == <<[card |-> Master, entry |-> 0]>>

\* Stage 4 takes over, with what there is of a chain.
Revocation(chain) ==
    [v EXCEPT !.step = "revocation", !.chain = chain, !.fetchedAt = now,
              !.entryAt = [i \in DOMAIN chain |-> 0], !.logAt = [i \in DOMAIN chain |-> 0]]

\* isPolicyAuthorizer says what the answer is without a walk.  With the key of the
\* card its content opens, and stage 3 walks; a wrong key or a content that does
\* not open leave the content-less stub.
ReadCardContent ==
    LET asked == [Revocation(Stub) EXCEPT !.reaches = YesNo(IsRoot(Master))] IN
    /\ At("card-content")
    /\ \/ /\ v.pubkey = "none"
          /\ v' = asked
       \/ /\ v.pubkey = "wrong"
          /\ v' = [asked EXCEPT !.codes = {"ADDRESS_BINDING_MISMATCH"}]
       \/ /\ v.pubkey = "right"
          /\ v' = [asked EXCEPT !.codes = {"DECRYPTION_FAILED"}]
       \/ /\ v.pubkey = "right" /\ log[Master][v.chain[1].entry].readable
          /\ v' = [v EXCEPT !.step = "root", !.reaches = asked.reaches]

\* Whatever the walk of a card throws is caught, and reported as a content that
\* does not open: what was walked is dropped.
WalkThrows ==
    /\ v.kind = "card" /\ v.step \in Walk
    /\ v' = [Revocation(Stub) EXCEPT !.codes = {"DECRYPTION_FAILED"}]
    /\ UNCHANGED <<chainVars, start>>

-----------------------------------------------------------------------------
(* Stage 3: the walk to a trusted root                                      *)

\* The head of the loop: the depth, and a card with no ancestry.
WalkChain ==
    LET next == parent[v.current] IN
    /\ At("root")
    /\ \/ /\ TooDeep(v.depth)
          /\ v' = [Revocation(v.chain) EXCEPT !.reaches = "no",
                                              !.codes = @ \cup {"CHAIN_DEPTH_EXCEEDED"}]
       \/ /\ ~TooDeep(v.depth) /\ next = Nil
          /\ v' = [Revocation(v.chain) EXCEPT !.reaches = YesNo(IsRoot(v.current))]
       \/ /\ ~TooDeep(v.depth) /\ next # Nil
          /\ Hop("next-root")

\* A root ends the walk, its own document unread.
AskNextRoot ==
    /\ At("next-root")
    /\ IF IsRoot(parent[v.current])
       THEN v' = [Revocation(v.chain) EXCEPT !.reaches = "yes"]
       ELSE Hop("ancestor")

\* An ancestor that does not open is a hard rejection of a signature: stages 4 and 5
\* are skipped.  For a card stage 4 looks at what there is of the chain.
ReadAncestor ==
    LET next == parent[v.current] IN
    /\ At("ancestor")
    /\ \/ /\ ~Exists(next)
          /\ v' = [Revocation(v.chain) EXCEPT !.reaches = "no",
                                              !.codes = @ \cup {"CARD_NOT_FOUND"}]
       \/ /\ Exists(next)
          /\ LET ended == IF v.kind = "card" THEN Revocation(v.chain)
                          ELSE [v EXCEPT !.step = "done"] IN
             v' = [ended EXCEPT !.reaches = "no", !.codes = @ \cup {"DECRYPTION_FAILED"}]
       \/ /\ Exists(next) /\ HeadOf(next).readable
          /\ v' = [v EXCEPT !.step = "root", !.current = next, !.depth = Deeper(@),
                            !.chain = Append(@, [card |-> next, entry |-> Len(log[next])])]

-----------------------------------------------------------------------------
(* Stage 4: revocation                                                      *)

ReadEntry(i) ==
    /\ v.entryAt[i] = 0
    /\ v' = [v EXCEPT !.entryAt[i] = Len(log[v.chain[i].card])]

\* getCardEventLog: the events up to the block that was the latest at its start.
ReadEventLog(i) ==
    /\ v.logAt[i] = 0
    /\ v' = [v EXCEPT !.logAt[i] = Len(log[v.chain[i].card])]

\* TypeScript reads everything at once, in whatever order the answers come; the
\* port reads card by card, the entry first.
InTurn(i, isLog) ==
    v.port = "py" =>
        /\ \A j \in 1..(i - 1) : v.logAt[j] # 0
        /\ isLog => v.entryAt[i] # 0

ReadRevocations ==
    /\ At("revocation")
    /\ \E i \in DOMAIN v.chain : \/ ReadEntry(i) /\ InTurn(i, FALSE)
                                 \/ ReadEventLog(i) /\ InTurn(i, TRUE)

HasContent(i) == v.chain[i].entry # 0
ContentOf(i) == log[v.chain[i].card][v.chain[i].entry]

\* Mutant: the history is compared without the head itself.
HistoryAlone(i) ==
    /\ ContentOf(i).honest
    /\ v.chain[i].entry - 1 = v.logAt[i]

\* [...history, headCid] is what the events say, in number and order.
HistoryMatches(i) ==
    /\ ContentOf(i).honest
    /\ v.chain[i].entry = v.logAt[i] /\ v.entryAt[i] = v.logAt[i]

HeadHasEvent(i) == v.entryAt[i] <= v.logAt[i]

\* The date of the event of the head, or else what the revocation says of itself.
EffectiveDate(i) ==
    IF HeadHasEvent(i) THEN log[v.chain[i].card][v.entryAt[i]].at ELSE ContentOf(i).reported

Revoked(i) == HasContent(i) /\ ContentOf(i).kind = "revocation"

\* Mutant: only the card that signed is looked at.
OwnRevocation == {i \in {1} : Revoked(i) /\ EffectiveDate(i) # Nil}

\* The cards of the chain that are revoked from a date on.
Revocations == {i \in DOMAIN v.chain : Revoked(i) /\ EffectiveDate(i) # Nil}

Updated(i) == HasContent(i) /\ ContentOf(i).kind # "genesis"

Mismatch(i) == Updated(i) /\ ~HistoryMatches(i)

Earliest(dates) == CHOOSE d \in dates : \A e \in dates : d <= e

JudgeRevocation ==
    LET stale == now - v.fetchedAt > FreshnessWindow
        codes == {code \in Code :
                    \/ code = "HISTORY_MISMATCH" /\ \E i \in DOMAIN v.chain : Mismatch(i)
                    \/ /\ code = "NO_ONCHAIN_EVENT_FOR_HEAD"
                       /\ \E i \in DOMAIN v.chain : Revoked(i) /\ ~HeadHasEvent(i)
                    \/ code = "STALE_REVOCATION_DATA" /\ stale}
        next == [v EXCEPT !.step = IF v.kind = "card" THEN "annotate" ELSE "press",
                          !.codes = @ \cup codes] IN
    /\ At("revocation")
    /\ \A i \in DOMAIN v.chain : v.entryAt[i] # 0 /\ v.logAt[i] # 0
    /\ \/ /\ \A i \in DOMAIN v.chain : ~HasContent(i)
          /\ v' = next
       \/ /\ \E i \in DOMAIN v.chain : HasContent(i)
          /\ Revocations = {}
          /\ v' = [next EXCEPT !.status = "not_revoked", !.validThen = "yes",
                               !.validNow = YesNo(~stale)]
       \/ /\ Revocations # {}
          /\ LET date == Earliest({EffectiveDate(i) : i \in Revocations}) IN
             v' = [next EXCEPT !.status = "revoked", !.effective = date,
                               !.validThen = YesNo(v.signing < date),
                               !.validNow = YesNo(now < date /\ ~stale)]

-----------------------------------------------------------------------------
(* Stages 5 and 6: the press and the annotations                            *)

NeverAuthorized(status) == status = "none"

\* The policy that the fields are compared with may not be found; missing fields
\* and a press that was never authorized are reported.
ReadPress ==
    LET status == Last(pressLog) IN
    /\ At("press")
    /\ \/ v' = [v EXCEPT !.step = "annotate", !.compliant = Nil,
                         !.codes = @ \cup {"POLICY_FETCH_FAILED"}]
       \/ /\ NeverAuthorized(status) \/ ~subCard.complete
          /\ v' = [v EXCEPT !.step = "report", !.compliant = "no",
                            !.pressRevoked = (status = "inactive")]
       \/ /\ ~NeverAuthorized(status) /\ subCard.complete
          /\ v' = [v EXCEPT !.step = "annotate", !.compliant = "yes",
                            !.pressRevoked = (status = "inactive")]

ReportNonCompliance ==
    /\ At("report")
    /\ \/ v' = [v EXCEPT !.step = "annotate", !.reported = TRUE]
       \/ v' = [v EXCEPT !.step = "annotate", !.codes = @ \cup {"NON_COMPLIANCE_REPORT_FAILED"}]

\* fetchAnnotations: an annotator is trusted where its card is a root right now.
Annotate ==
    /\ At("annotate")
    /\ \/ v' = [v EXCEPT !.step = "done", !.annotator = IsRoot(AppCard)]
       \/ Hop("done")

-----------------------------------------------------------------------------

Stage == \/ ReadSigner \/ ReadMaster \/ ReadSubCard \/ ReadAppCard \/ WalkAppChain
         \/ ReadCard \/ ReadCardContent
         \/ WalkChain \/ AskNextRoot \/ ReadAncestor
         \/ ReadRevocations \/ JudgeRevocation
         \/ ReadPress \/ ReportNonCompliance \/ Annotate
         \/ Throw \/ WalkThrows

Next ==
    \/ VerifyEnvelope \/ VerifyCard \/ VerifyCardPy
    \/ Stage
    \/ v.step \notin Over /\ ChainStep /\ UNCHANGED <<v, start>>

Spec == Init /\ [][Next]_vars

-----------------------------------------------------------------------------
(* Properties                                                               *)

Answered == v.step = "done"
Judged == Answered /\ v.status # "unknown"

\* The entries a card has had as its head since the verification began.
HeadsSince(c) == {log[c][n] : n \in start.entries[c]..Len(log[c])}
Moved(c) == Len(log[c]) # start.entries[c]

\* A sub-card passes only if it was active when the verification began, on a
\* document nothing is wrong with, and listed by its master at some moment since:
\* although the directory and the registration are read apart, a sub-card that was
\* deregistered or struck off before is never honoured.
SubCardHonoured ==
    v.scope = "yes" =>
        /\ subCard.exists /\ start.active /\ subCard.flaw = "none"
        /\ \E e \in HeadsSince(Master) : e.listed

\* No card of an answered chain was revoked, by an entry with a date of its own,
\* throughout the verification without the answer saying so: the content, the entry
\* and the events of a card, each read at its own moment, are together as good as a
\* look at each card.  (Where the head has moved past the events that were read, a
\* revocation without a date of its own counts for nothing.)
RevocationReported ==
    Judged /\ v.status = "not_revoked" =>
        \A i \in DOMAIN v.chain :
            \E e \in HeadsSince(v.chain[i].card) : e.kind # "revocation" \/ e.reported = Nil

\* Where no card of the chain moved meanwhile, the answer for the time of signing
\* is exact: it was valid unless some card of the chain was revoked by then, by
\* the time of the revocation's event and not by what it says of itself.
SigningTimeJudged ==
    Judged /\ (\A i \in DOMAIN v.chain : ~Moved(v.chain[i].card)) =>
        (v.validThen = "yes" <=> \A i \in DOMAIN v.chain :
            LET head == HeadOf(v.chain[i].card) IN
            head.kind = "revocation" => v.signing < head.at)

\* Revocations are neither overlooked nor applied to what was signed before them.
RevocationsJudged == RevocationReported /\ SigningTimeJudged

\* A mismatch between a history and the events accuses the press of a lie; a card
\* whose press told the truth, and which nobody touched meanwhile, is not accused.
NoFalseAccusation ==
    "HISTORY_MISMATCH" \in v.codes =>
        \E i \in DOMAIN v.chain :
            \/ Moved(v.chain[i].card)
            \/ ~HeadOf(v.chain[i].card).honest

\* card_protocol_spec.md:236: "check whether any 8xx or 9xx entry exists", "1xx-7xx
\* entries do not affect the card's revocation status".  A card that was revoked
\* when the verification began is never answered to be not revoked.
RevocationsStand ==
    Judged /\ v.status = "not_revoked" =>
        \A i \in DOMAIN v.chain : \A n \in 1..start.entries[v.chain[i].card] :
            log[v.chain[i].card][n].kind # "revocation"
=============================================================================
