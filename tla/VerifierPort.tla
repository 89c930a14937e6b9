----------------------------- MODULE VerifierPort -----------------------------
(***************************************************************************)
(* The Python port of the verifier, verify_envelope for one signature         *)
(* (membership_card_verifier/packages/verifier-py), on the provider that the   *)
(* policy module gives it (matrix_policy_module/rpc_provider.py), and how it    *)
(* implements CardVerifier.                                                    *)
(*                                                                         *)
(* It awaits one call after the other, card by card, and reads the events of a *)
(* card in windows of blocks that shrink when the node refuses them.  A block   *)
(* stands for one entry of the card.  The "web3" provider answers None where a   *)
(* point read fails; with any other ("strict") the exception ends everything.    *)
(***************************************************************************)
EXTENDS CardVerifier

CONSTANT Window     \* window_size of get_card_event_log

ASSUME WindowAssumption == Window \in Nat \ {0}

VARIABLE port       \* the verification of the port

Awaited == {"entry", "master-entry", "sub-card-entry", "app-card", "app-ancestor", "walk",
            "authorizer", "ancestor", "card-entry", "block-number", "logs", "signer-again",
            "press", "report", "annotations"}

\* links: the chain of stage 3.  heads, latest, events: what stage 4 has read of each
\* link, head 0 for None.  got, block, window: the event log being read.  masked: the
\* provider has answered None for something that is there (a history of the model,
\* with the record as it was then, in before).
NotStarted ==
    [pc |-> "none", provider |-> "strict", signing |-> 0, appRoot |-> Nil, current |-> Master,
     depth |-> 0, links |-> <<>>, fetchedAt |-> 0, stage4 |-> FALSE,
     heads |-> <<>>, latest |-> <<>>, events |-> <<>>, got |-> {}, block |-> 0, window |-> 0,
     errors |-> {}, scope |-> "skipped", reaches |-> "skipped", status |-> "unknown",
     effective |-> Nil, validThen |-> "skipped", validNow |-> "skipped",
     compliant |-> "skipped", pressRevoked |-> FALSE, reported |-> FALSE,
     annotator |-> FALSE, masked |-> FALSE, before |-> Idle, began |-> Snapshot]

portVars == <<vars, port>>

-----------------------------------------------------------------------------
(* The refinement mapping                                                   *)

\* The step of the original at which the port awaits what it awaits.
StepOf(pc) ==
    CASE pc = "none" -> "idle"              [] pc = "entry" -> "signer"
      [] pc = "master-entry" -> "master"    [] pc = "sub-card-entry" -> "sub-card"
      [] pc = "app-ancestor" -> "app-hop"   [] pc = "walk" -> "root"
      [] pc = "authorizer" -> "next-root"   [] pc = "signer-again" -> "press"
      [] pc \in {"card-entry", "block-number", "logs"} -> "revocation"
      [] pc = "annotations" -> "annotate"   [] pc = "raised" -> "threw"
      [] OTHER -> pc

\* What stage 4 has read of link i, 0 for not yet.
ReadSoFar(reads, i) == IF i <= Len(reads) THEN reads[i] ELSE 0

AsOriginal(p) ==
    [step |-> StepOf(p.pc), kind |-> "signature", port |-> "ts", pubkey |-> "none",
     signing |-> p.signing, appRoot |-> p.appRoot, current |-> p.current, depth |-> p.depth,
     chain |-> p.links,
     entryAt |-> IF p.stage4 THEN [i \in DOMAIN p.links |-> ReadSoFar(p.heads, i)] ELSE <<>>,
     logAt |-> IF p.stage4 THEN [i \in DOMAIN p.links |-> ReadSoFar(p.latest, i)] ELSE <<>>,
     fetchedAt |-> p.fetchedAt, codes |-> p.errors, scope |-> p.scope, reaches |-> p.reaches,
     status |-> p.status, effective |-> p.effective, validThen |-> p.validThen,
     validNow |-> p.validNow, compliant |-> p.compliant, pressRevoked |-> p.pressRevoked,
     reported |-> p.reported, annotator |-> p.annotator]

\* Once something was masked, the original would have ended with the error.
Mapped == IF port.masked THEN [port.before EXCEPT !.step = "threw"] ELSE AsOriginal(port)

-----------------------------------------------------------------------------
(* Awaiting                                                                 *)

Await(pc) == port.pc = pc /\ UNCHANGED vars
Resume(p, pc) == port' = [p EXCEPT !.pc = pc]

\* A hard rejection in stage 2.
Refuse(p, code) == port' = [p EXCEPT !.pc = "done", !.scope = "no", !.errors = @ \cup {code}]

\* get_card_entry and its kin on "web3": a call that fails answers None.
Masked == [port EXCEPT !.masked = TRUE, !.before = IF port.masked THEN @ ELSE AsOriginal(port)]

\* How the record looks after a read that gives None.
NoneAnswers(exists) == (IF exists THEN {} ELSE {port})
                       \cup (IF port.provider = "web3" THEN {Masked} ELSE {})

\* An exception nobody catches.  Only the event log and the raw card document can
\* raise one on "web3".
Raise ==
    /\ UNCHANGED vars
    /\ port.pc \in IF port.provider = "strict" THEN Awaited \ {"report"}
                   ELSE {"block-number", "logs", "signer-again"}
    /\ Resume(port, "raised")

Start ==
    /\ port.pc = "none" /\ v.step = "idle"
    /\ \E provider \in {"strict", "web3"}, signing \in 0..now, appRoot \in AppRoots :
          port' = [NotStarted EXCEPT !.pc = "entry", !.provider = provider, !.signing = signing,
                                     !.appRoot = appRoot]
    /\ UNCHANGED vars

-----------------------------------------------------------------------------
(* verify_stage2                                                            *)

FetchSubCard ==
    /\ Await("entry")
    /\ \/ \E p \in NoneAnswers(subCard.exists) : Refuse(p, "CARD_NOT_FOUND")
       \/ subCard.exists /\ Refuse(port, "DECRYPTION_FAILED")
       \/ subCard.exists /\ subCard.flaw = "binding" /\ Refuse(port, "ADDRESS_BINDING_MISMATCH")
       \/ subCard.exists /\ subCard.flaw # "binding" /\ Resume(port, "master-entry")

FetchMaster ==
    /\ Await("master-entry")
    /\ \/ \E p \in NoneAnswers(Exists(Master)) : Refuse(p, "CARD_NOT_FOUND")
       \/ Exists(Master) /\ Refuse(port, "DECRYPTION_FAILED")
       \/ /\ Exists(Master) /\ HeadOf(Master).readable
          /\ IF HeadOf(Master).listed
             THEN Resume([port EXCEPT !.links = <<[card |-> Master, entry |-> Len(log[Master])]>>],
                         "sub-card-entry")
             ELSE Refuse(port, "SUB_CARD_NOT_IN_ACTIVE_DIRECTORY")

\* Steps 10 to 15: the registration, both signatures and the configured root.
CheckSubCard ==
    /\ Await("sub-card-entry")
    /\ \/ \E p \in NoneAnswers(subCard.flaw # "registration") : Refuse(p, "ADDRESS_BINDING_MISMATCH")
       \/ /\ subCard.flaw = "holder-signature"
          /\ Refuse(port, "INVALID_HOLDER_SIGNATURE")
       \/ /\ subCard.flaw \in {"none", "app-signature"} /\ ~subCard.active
          /\ Refuse(port, "SUB_CARD_INACTIVE")
       \/ /\ subCard.flaw = "app-signature" /\ subCard.active
          /\ Refuse(port, "INVALID_APP_SIGNATURE")
       \/ /\ subCard.flaw = "none" /\ subCard.active
          /\ IF port.appRoot = Nil THEN Refuse(port, "APP_CERTIFICATION_ROOT_NOT_CONFIGURED")
             ELSE Resume(port, "app-card")

\* scope_clean: stage 3 sets out from the master's document.
ScopeClean(p) == Resume([p EXCEPT !.scope = "yes", !.current = Master, !.depth = 0], "walk")

FetchAppCard ==
    /\ Await("app-card")
    /\ \/ \E p \in NoneAnswers(Exists(AppCard)) : Refuse(p, "APP_CARD_CHAIN_NOT_TRUSTED")
       \/ Exists(AppCard) /\ Refuse(port, "DECRYPTION_FAILED")
       \/ /\ Exists(AppCard) /\ HeadOf(AppCard).readable
          /\ IF AppCard = port.appRoot THEN ScopeClean(port)
             ELSE Resume([port EXCEPT !.current = AppCard], "app-ancestor")

\* The loop over range(max_depth) around the app card's ancestors.
FetchAppAncestor ==
    LET next == parent[port.current]
        exhausted == port.depth = MaxChainDepth IN
    /\ Await("app-ancestor")
    /\ \/ (exhausted \/ next = Nil) /\ Refuse(port, "APP_CARD_CHAIN_NOT_TRUSTED")
       \/ ~exhausted /\ next = port.appRoot /\ next # Nil /\ ScopeClean(port)
       \/ /\ ~exhausted /\ next \notin {Nil, port.appRoot}
          /\ \/ \E p \in NoneAnswers(Exists(next)) : Refuse(p, "APP_CARD_CHAIN_NOT_TRUSTED")
             \/ Exists(next) /\ Refuse(port, "DECRYPTION_FAILED")
             \/ /\ Exists(next) /\ HeadOf(next).readable
                /\ port' = [port EXCEPT !.current = next, !.depth = @ + 1]

-----------------------------------------------------------------------------
(* verify_stage3                                                            *)

\* "web3" has no answer to is_policy_authorizer but no, and masks the authorizers.
Root(c) == c \in TrustedRoots \/ (port.provider = "strict" /\ c \in authorizers)
Asked(c) == IF Root(c) <=> IsRoot(c) THEN port ELSE Masked

ToStage4(p, reaches, codes) ==
    Resume([p EXCEPT !.reaches = reaches, !.errors = @ \cup codes,
                     !.stage4 = TRUE, !.fetchedAt = now], "card-entry")

TakeAncestry ==
    LET next == parent[port.current]
        exhausted == port.depth = MaxChainDepth IN
    /\ Await("walk")
    /\ \/ exhausted /\ ToStage4(port, "no", {"CHAIN_DEPTH_EXCEEDED"})
       \/ ~exhausted /\ next = Nil
          /\ ToStage4(Asked(port.current), YesNo(Root(port.current)), {})
       \/ ~exhausted /\ next # Nil /\ Resume(port, "authorizer")

IsPolicyAuthorizer ==
    /\ Await("authorizer")
    /\ IF Root(parent[port.current]) THEN ToStage4(port, "yes", {})
       ELSE Resume(Asked(parent[port.current]), "ancestor")

FetchAncestor ==
    LET next == parent[port.current] IN
    /\ Await("ancestor")
    /\ \/ \E p \in NoneAnswers(Exists(next)) : ToStage4(p, "no", {"CARD_NOT_FOUND"})
       \/ /\ Exists(next)
          /\ Resume([port EXCEPT !.reaches = "no", !.errors = @ \cup {"DECRYPTION_FAILED"}], "done")
       \/ /\ Exists(next) /\ HeadOf(next).readable
          /\ Resume([port EXCEPT !.current = next, !.depth = @ + 1,
                                 !.links = Append(@, [card |-> next, entry |-> Len(log[next])])],
                    "walk")

-----------------------------------------------------------------------------
(* verify_stage4 and get_card_event_log                                     *)

Link == port.links[Len(port.events) + 1].card

FetchCardEntry ==
    /\ Await("card-entry")
    /\ \/ Resume([port EXCEPT !.heads = Append(@, Len(log[Link]))], "block-number")
       \/ /\ port.provider = "web3"
          /\ Resume([Masked EXCEPT !.heads = Append(@, 0)], "block-number")

BlockNumber ==
    /\ Await("block-number")
    /\ Resume([port EXCEPT !.latest = Append(@, Len(log[Link])), !.block = 1,
                           !.window = Window, !.got = {}], "logs")

Content(p, i) == log[p.links[i].card][p.links[i].entry]
LogEntry(p, i) == Content(p, i).kind # "genesis"

\* claimed == [*history, head_cid] against the events; not without a head.
HistoryDiffers(p, i) ==
    /\ LogEntry(p, i) /\ p.heads[i] # 0
    /\ ~(Content(p, i).honest /\ p.heads[i] = p.links[i].entry /\ p.events[i] = 1..p.heads[i])

HeadEvent(p, i) == p.heads[i] \in p.events[i]

\* Mutant: a revocation whose head was not read has no date.
OnlyFromEvents(p, i) ==
    IF HeadEvent(p, i) THEN log[p.links[i].card][p.heads[i]].at ELSE Nil

RevokedFrom(p, i) ==
    IF HeadEvent(p, i) THEN log[p.links[i].card][p.heads[i]].at ELSE Content(p, i).reported
RevocationEntries(p) == {i \in DOMAIN p.links : Content(p, i).kind = "revocation"}
Dates(p) == {RevokedFrom(p, i) : i \in RevocationEntries(p)} \ {Nil}

\* What follows the last read of the loop, without another await.
Stage4Result(p) ==
    LET stale == now - p.fetchedAt > FreshnessWindow
        judged == [p EXCEPT !.errors = @
            \cup (IF \E i \in DOMAIN p.links : HistoryDiffers(p, i) THEN {"HISTORY_MISMATCH"} ELSE {})
            \cup (IF \E i \in RevocationEntries(p) : ~HeadEvent(p, i)
                  THEN {"NO_ONCHAIN_EVENT_FOR_HEAD"} ELSE {})
            \cup (IF stale THEN {"STALE_REVOCATION_DATA"} ELSE {})] IN
    IF Dates(p) = {}
    THEN [judged EXCEPT !.status = "not_revoked", !.validThen = "yes", !.validNow = YesNo(~stale)]
    ELSE LET date == Earliest(Dates(p)) IN
         [judged EXCEPT !.status = "revoked", !.effective = date,
                        !.validThen = YesNo(p.signing < date),
                        !.validNow = YesNo(now < date /\ ~stale)]

LogsRead(p) ==
    LET next == [p EXCEPT !.events = Append(@, p.got)] IN
    IF Len(next.events) < Len(next.links) THEN Resume(next, "card-entry")
    ELSE Resume(Stage4Result(next), "signer-again")

\* Mutant: a refused window counts as read.
RefusedSkips(to) == [port EXCEPT !.window = @ \div 2, !.block = to + 1]

Refused(to) == [port EXCEPT !.window = @ \div 2]

\* One window of blocks; a window of one block that is refused raises (see Raise).
GetLogs ==
    LET last == port.latest[Len(port.latest)]
        end == port.block + port.window - 1
        to == IF end < last THEN end ELSE last IN
    /\ Await("logs")
    /\ \/ /\ to < last
          /\ port' = [port EXCEPT !.got = @ \cup port.block..to, !.block = to + 1]
       \/ to = last /\ LogsRead([port EXCEPT !.got = @ \cup port.block..to])
       \/ port.window > 1 /\ port' = Refused(to)

-----------------------------------------------------------------------------
(* verify_stage5 and verify_stage6                                          *)

SignerAgain ==
    /\ Await("signer-again")
    /\ \/ Resume(port, "press")
       \/ port.provider = "web3" /\ Resume(Masked, "annotations")

\* On "web3" a press that is not active has no authorization either.
Authorization == IF port.provider = "web3" /\ Last(pressLog) = "inactive" THEN "none" ELSE Last(pressLog)

CheckPress ==
    LET seen == IF Authorization = Last(pressLog) THEN port ELSE Masked IN
    /\ Await("press")
    /\ \/ Resume([port EXCEPT !.compliant = Nil, !.errors = @ \cup {"POLICY_FETCH_FAILED"}],
                 "annotations")
       \/ /\ Authorization = "none" \/ ~subCard.complete
          /\ Resume([seen EXCEPT !.compliant = "no",
                                 !.pressRevoked = (Authorization = "inactive")], "report")
       \/ /\ Authorization # "none" /\ subCard.complete
          /\ Resume([port EXCEPT !.compliant = "yes",
                                 !.pressRevoked = (Authorization = "inactive")], "annotations")
       \/ /\ port.provider = "web3"
          /\ Resume([Masked EXCEPT !.compliant = "no"], "report")

Report ==
    /\ Await("report")
    /\ \/ Resume([port EXCEPT !.reported = TRUE], "annotations")
       \/ Resume([port EXCEPT !.errors = @ \cup {"NON_COMPLIANCE_REPORT_FAILED"}], "annotations")

Annotations ==
    /\ Await("annotations")
    /\ \/ port.provider = "strict" /\ Resume([port EXCEPT !.annotator = Root(AppCard)], "done")
       \/ Resume(port, "done")

-----------------------------------------------------------------------------

PortStage ==
    \/ FetchSubCard \/ FetchMaster \/ CheckSubCard \/ FetchAppCard \/ FetchAppAncestor
    \/ TakeAncestry \/ IsPolicyAuthorizer \/ FetchAncestor
    \/ FetchCardEntry \/ BlockNumber \/ GetLogs
    \/ SignerAgain \/ CheckPress \/ Report \/ Annotations \/ Raise

PortInit == Init /\ port = NotStarted

\* One verification at a time, by either implementation.
PortNext ==
    \/ port.pc = "none" /\ Next /\ UNCHANGED port
    \/ Start \/ PortStage
    \/ port.pc \in Awaited /\ ChainStep /\ UNCHANGED <<v, start, port>>

PortSpec == PortInit /\ [][PortNext]_portVars

Original == INSTANCE CardVerifier WITH v <- Mapped, start <- port.began

\* Whatever the port answers for a signature, the original could have answered, read
\* for read, until a provider hides something from it.
PortConforms ==
    Original!Init /\ [][Original!Next \/ (ChainStep /\ UNCHANGED port)]_(Original!vars)

SincePort(c) == {log[c][n] : n \in port.began.entries[c]..Len(log[c])}

\* A provider that answers None for what it cannot read makes the port stricter and
\* never laxer: still no sub-card that was struck off or deregistered before is
\* honoured, and no revocation with a date of its own is missed.
MaskingClearsNobody ==
    port.masked =>
        /\ port.scope = "yes" =>
              /\ subCard.exists /\ port.began.active /\ subCard.flaw = "none"
              /\ \E e \in SincePort(Master) : e.listed
        /\ port.status = "not_revoked" => \A i \in DOMAIN port.links :
              \E e \in SincePort(port.links[i].card) : e.kind # "revocation" \/ e.reported = Nil

=============================================================================
