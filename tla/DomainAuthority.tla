--------------------------- MODULE DomainAuthority ---------------------------
(***************************************************************************)
(* The scripts of the DNS governance authority (governance/scripts) at work *)
(* on one domain: txt-verification.ts makes an applicant its admin,         *)
(* admin-deactivation.ts takes the admin away and revokes the cards before   *)
(* it, policy-address-verifier.ts looks at every entry a press sets under it *)
(* and removes what imitates a brand.  They share the registry and nothing    *)
(* else, each of their transactions is on its way for a while, and none looks  *)
(* at what became of it: a receipt is a receipt.                             *)
(* Of the registry only what the scripts read and write is kept              *)
(* (DnsRegistry has the contract), and one block holds one event.             *)
(***************************************************************************)
EXTENDS Naturals, Sequences

CONSTANTS AdminCard, DomainPath,
          Value, Branded,   \* policy cards, and those among them that imitate a brand
          MaxHops,          \* maxHops of verifyPredecessorChain
          MaxEvents,        \* bound on what happens beside the scripts
          Decodes,          \* whether the registry client decodes the events a node sends
          Absent

ASSUME AuthorityAssumption ==
    /\ Branded \subseteq Value /\ MaxHops \in Nat \ {0} /\ Decodes \in BOOLEAN
    /\ Absent \notin AdminCard \cup Value

VARIABLES
    admin,      \* the admin card of the domain
    at,         \* the policy card at each path
    status,     \* what the registry has of each card
    forward,    \* forward_to of each card, or the successor its log names
    log,        \* PolicyAddressSet events, one to a block
    inOffice,   \* whether the script key alone is a quorum of the DNS body
    pending,    \* transactions that were sent and not mined
    records,    \* cards with a TXT record at the domain
    apply,      \* POST /dns/verify for each card
    handoff,    \* POST /dns/deactivate of each card
    walk,       \* how far verifyPredecessorChain has come for each request
    poll, cursor,           \* the task that verifies entries, and what it keeps
    \* history: cards whose record was found, links that each request found or that were
    \* set while it walked, events with a verdict
    seenRecord, named, judged,
    events

registryVars == <<admin, at, status, forward, log, inOffice>>
scriptVars == <<apply, handoff, walk, poll, cursor>>
authorityVars == <<registryVars, pending, records, scriptVars, seenRecord, named, judged, events>>

-----------------------------------------------------------------------------
(* The registry, as the scripts use it (registry.ts)                        *)

Registration(c) == [op |-> "register", card |-> c]
Clearing(c, paths) == [op |-> "clear", card |-> c, paths |-> paths]
Deregistration(c) == [op |-> "deregister", card |-> c]
Removal(p) == [op |-> "remove", path |-> p]

\* The contract's answer; the nonce is new every time and the version just read.
Accepts(tx) ==
    /\ inOffice
    /\ tx.op = "register" => status[tx.card] # "none" /\ admin = Absent
    /\ tx.op = "clear" => tx.paths # {}
    /\ tx.op = "remove" => at[tx.path] # Absent

\* submitGovTx: what the contract would refuse now is not sent.
Send(tx) ==
    /\ Accepts(tx)
    /\ pending' = pending \cup {tx}

Effect(tx) ==
    /\ admin' = CASE tx.op = "register" -> tx.card
                  [] tx.op = "deregister" -> Absent
                  [] OTHER -> admin
    /\ at' = [p \in DomainPath |->
                 IF \/ tx.op = "clear" /\ p \in tx.paths
                    \/ tx.op = "remove" /\ p = tx.path
                 THEN Absent ELSE at[p]]
    /\ UNCHANGED <<status, forward, log, inOffice>>

\* A transaction the contract refuses by then is mined all the same, as reverted.
Mine(tx) ==
    /\ tx \in pending
    /\ pending' = pending \ {tx}
    /\ IF Accepts(tx) THEN Effect(tx) ELSE UNCHANGED registryVars
    /\ UNCHANGED <<records, scriptVars, seenRecord, named, judged, events>>

-----------------------------------------------------------------------------
(* txt-verification.ts                                                      *)

Applied(c, step) ==
    /\ apply' = [apply EXCEPT ![c] = step]
    /\ UNCHANGED <<handoff, walk, poll, cursor, named, judged, records, events>>

\* The address is the hash of the key.  A request that failed may be made again.
RequestVerification(c) ==
    /\ apply[c] \in {"none", "failed"}
    /\ Applied(c, IF admin = Absent THEN "resolve" ELSE "failed")
    /\ UNCHANGED <<registryVars, pending, seenRecord>>

\* Mutant: any record at the domain will do.
TxtMatchesAny(c) == records # {}
TxtMatches(c) == c \in records

\* resolveTxtWithRetry: the record may turn up at any of the four attempts, or at none.
ResolveTxt(c, found) ==
    /\ apply[c] = "resolve"
    /\ found => TxtMatches(c)
    /\ Applied(c, IF found THEN "issue" ELSE "failed")
    /\ seenRecord' = IF found /\ c \in records THEN seenRecord \cup {c} ELSE seenRecord
    /\ UNCHANGED <<registryVars, pending>>

\* The press registers the card; its answer may be lost.
IssueAdminCard(c, answered) ==
    /\ apply[c] = "issue" /\ status[c] = "none"
    /\ status' = [status EXCEPT ![c] = "live"]
    /\ Applied(c, IF answered THEN "register" ELSE "failed")
    /\ UNCHANGED <<admin, at, forward, log, inOffice, pending, seenRecord>>

SendRegistration(c) ==
    /\ apply[c] = "register"
    /\ Send(Registration(c))
    /\ Applied(c, "wait")
    /\ UNCHANGED <<registryVars, seenRecord>>

AnswerRegistered(c) ==
    /\ apply[c] = "wait" /\ Registration(c) \notin pending
    /\ Applied(c, "registered")
    /\ UNCHANGED <<registryVars, pending, seenRecord>>

\* An error of the press, the node or the contract, the wait for a receipt that takes
\* too long, or the end of the process; what was sent stays sent.
FailVerification(c) ==
    /\ apply[c] \in {"resolve", "issue", "register", "wait"}
    /\ Applied(c, "failed")
    /\ UNCHANGED <<registryVars, pending, seenRecord>>

-----------------------------------------------------------------------------
(* admin-deactivation.ts                                                    *)

NoHandoff == [step |-> "none", old |-> {}, paths |-> {}]
NoWalk == [from |-> Absent, cursor |-> Absent, hops |-> 0, left |-> {}]

Handed(c, step) ==
    /\ handoff' = [handoff EXCEPT ![c].step = step]
    /\ UNCHANGED <<apply, poll, cursor, seenRecord, named, judged, records, events>>

\* The first call of verifyPredecessorChain of those that are left, in any order
WalkNext(c, left) ==
    \E o \in left :
        walk' = [walk EXCEPT ![c] = [from |-> o, cursor |-> o, hops |-> 0, left |-> left \ {o}]]
EndWalk(c) == walk' = [walk EXCEPT ![c] = NoWalk]

Links == {l \in AdminCard \X AdminCard : forward[l[1]] = l[2]}

\* Signed by the key in the card of the admin; old cards and paths are the admin's word.
RequestDeactivation(c, old, paths) ==
    /\ handoff[c].step \in {"none", "failed"}
    /\ old # {}
    /\ admin = c /\ status[c] # "none"
    /\ handoff' = [handoff EXCEPT ![c] = [step |-> "walk", old |-> old, paths |-> paths]]
    /\ WalkNext(c, old)
    /\ named' = [named EXCEPT ![c] = Links]
    /\ UNCHANGED <<registryVars, pending, records, apply, poll, cursor, seenRecord, judged,
                   events>>

\* One read of the registry, and of the document at the head it names, which cannot change
LinkOf(o) == IF status[o] = "none" THEN Absent ELSE forward[o]
\* Mutant: a card that leads anywhere is an old card.
AnyPredecessor(next, c) == next # Absent
IsPredecessor(next, c) == next = c

\* verifyPredecessorChain, a hop at a time: anything may change between two of them.
MeetAdmin(c) ==
    /\ handoff[c].step = "walk" /\ IsPredecessor(LinkOf(walk[c].cursor), c)
    /\ \/ /\ WalkNext(c, walk[c].left)
          /\ Handed(c, "walk")
       \/ /\ walk[c].left = {} /\ EndWalk(c)
          /\ Handed(c, "clear")
    /\ UNCHANGED <<registryVars, pending>>

FollowLink(c) ==
    /\ handoff[c].step = "walk"
    /\ LET next == LinkOf(walk[c].cursor) IN
          /\ next # Absent /\ ~IsPredecessor(next, c) /\ walk[c].hops + 1 < MaxHops
          /\ walk' = [walk EXCEPT ![c].cursor = next, ![c].hops = @ + 1]
    /\ Handed(c, "walk")
    /\ UNCHANGED <<registryVars, pending>>

\* No link, or the last hop; one card that is no predecessor ends the request.
LoseTrail(c) ==
    /\ handoff[c].step = "walk"
    /\ LET next == LinkOf(walk[c].cursor) IN
          ~IsPredecessor(next, c) /\ (next = Absent \/ walk[c].hops + 1 = MaxHops)
    /\ EndWalk(c)
    /\ Handed(c, "failed")
    /\ UNCHANGED <<registryVars, pending>>

SendClearing(c) ==
    /\ handoff[c].step = "clear"
    /\ Send(Clearing(c, handoff[c].paths))
    /\ Handed(c, "clearing")
    /\ UNCHANGED <<registryVars, walk>>

SendDeregistration(c) ==
    /\ handoff[c].step = "clearing" /\ Clearing(c, handoff[c].paths) \notin pending
    /\ Send(Deregistration(c))
    /\ Handed(c, "deregistering")
    /\ UNCHANGED <<registryVars, walk>>

\* The press appends a revocation to the log of each old card; its answer may be lost.
RevokeOld(c, o, answered) ==
    /\ handoff[c].step \in {"deregistering", "revoke"} /\ Deregistration(c) \notin pending
    /\ o \in handoff[c].old
    /\ status' = [status EXCEPT ![o] = "revoked"]
    /\ handoff' = [handoff EXCEPT
          ![c].old = @ \ {o},
          ![c].step = IF ~answered THEN "failed"
                      ELSE IF handoff[c].old = {o} THEN "answered" ELSE "revoke"]
    /\ UNCHANGED <<admin, at, forward, log, inOffice, pending, records, apply, walk, poll, cursor,
                   seenRecord, named, judged, events>>

FailDeactivation(c) ==
    /\ handoff[c].step \in {"walk", "clear", "clearing", "deregistering", "revoke"}
    /\ EndWalk(c) /\ Handed(c, "failed")
    /\ UNCHANGED <<registryVars, pending>>

-----------------------------------------------------------------------------
(* policy-address-verifier.ts                                               *)

NoPoll == [step |-> "idle", to |-> 0, next |-> 1]
Polled ==
    UNCHANGED <<registryVars, records, apply, handoff, walk, seenRecord, named, events>>

\* The events since the cursor, up to the block that is the latest now.  As shipped,
\* fetchPolicyAddressSetEvents gives the hex strings of viem to TextDecoder, which takes
\* bytes only: it throws for any range that holds an event, and the run changes nothing.
StartPoll ==
    /\ Decodes
    /\ poll.step = "idle" /\ cursor < Len(log)
    /\ poll' = [step |-> "verify", to |-> Len(log), next |-> cursor + 1]
    /\ UNCHANGED <<cursor, judged, pending>> /\ Polled

NextEvent == [poll EXCEPT !.step = "verify", !.next = @ + 1]
Verdict == judged' = judged \cup {poll.next}

\* verifyEvent.  A domain that had an admin exists for good and so do the cards at its
\* paths, so steps 1 and 2 find nothing; the key check of step 5 is always passed.
\* Step 4 finds nothing either when the card cannot be read.
VerifyEvent(readable) ==
    /\ poll.step = "verify" /\ poll.next <= poll.to
    /\ ~log[poll.next].sub
    /\ readable => log[poll.next].value \notin Branded
    /\ poll' = NextEvent /\ Verdict
    /\ UNCHANGED <<cursor, pending>> /\ Polled

\* removePolicyAddressGov names the path only.  A removal that cannot be sent, or is not
\* seen to be mined, is caught with the errors of IPFS, and the entry counts as verified.
RemoveBranded ==
    /\ poll.step = "verify" /\ poll.next <= poll.to
    /\ ~log[poll.next].sub /\ log[poll.next].value \in Branded
    /\ Send(Removal(log[poll.next].path))
    /\ poll' = [poll EXCEPT !.step = "removing"]
    /\ UNCHANGED <<cursor, judged>> /\ Polled

EndRemoval ==
    /\ \/ poll.step = "removing"
       \/ /\ poll.step = "verify" /\ poll.next <= poll.to
          /\ ~log[poll.next].sub /\ log[poll.next].value \in Branded
          /\ ~Accepts(Removal(log[poll.next].path))
    /\ poll' = NextEvent /\ Verdict
    /\ UNCHANGED <<cursor, pending>> /\ Polled

\* Mutant: the cursor moves to the events about to be verified, as soon as they are known.
SavedCursorAtOnce == poll.to
\* saveCursor, which a run that ends early never reaches
SavedCursor == IF poll.next > poll.to THEN poll.to ELSE cursor
SaveCursor ==
    /\ poll.step = "verify" /\ SavedCursor # cursor
    /\ cursor' = SavedCursor
    /\ poll' = IF poll.next > poll.to THEN NoPoll ELSE poll
    /\ UNCHANGED <<judged, pending>> /\ Polled

\* An entry set by a sub-card ends the run: getSubCardEntry asks a contract without it.
AbortOnSubCard ==
    /\ poll.step = "verify" /\ poll.next <= poll.to
    /\ log[poll.next].sub
    /\ poll' = NoPoll
    /\ UNCHANGED <<cursor, judged, pending>> /\ Polled

-----------------------------------------------------------------------------
(* What else happens                                                        *)

Event == events < MaxEvents /\ events' = events + 1
Outside == UNCHANGED <<pending, apply, handoff, walk, cursor, seenRecord, judged>>

ToggleRecord(c) ==
    /\ Event
    /\ records' = IF c \in records THEN records \ {c} ELSE records \cup {c}
    /\ UNCHANGED <<registryVars, named, poll>> /\ Outside

\* A press, for the admin or for a card delegated by it
SetPolicyAddress(p, v, sub) ==
    /\ Event /\ admin # Absent
    /\ at' = [at EXCEPT ![p] = v]
    /\ log' = Append(log, [path |-> p, value |-> v, sub |-> sub])
    /\ UNCHANGED <<admin, status, forward, inOffice, records, named, poll>> /\ Outside

SetForward(c, d) ==
    /\ Event /\ status[c] # "none" /\ c # d
    /\ forward' = [forward EXCEPT ![c] = d]
    /\ named' = [a \in AdminCard |-> IF handoff[a].step = "walk" THEN named[a] \cup {<<c, d>>}
                                     ELSE named[a]]
    /\ UNCHANGED <<admin, at, status, log, inOffice, records, poll>> /\ Outside

\* The DNS body becomes a board of several keys.
RotateBody ==
    /\ Event /\ inOffice
    /\ inOffice' = FALSE
    /\ UNCHANGED <<admin, at, status, forward, log, records, named, poll>> /\ Outside

\* A call the task makes fails, or its process ends.
FailPoll ==
    /\ Event /\ poll.step # "idle"
    /\ poll' = NoPoll
    /\ UNCHANGED <<registryVars, records, named>> /\ Outside

-----------------------------------------------------------------------------
AuthorityInit ==
    /\ admin = Absent /\ log = <<>> /\ inOffice = TRUE
    /\ at = [p \in DomainPath |-> Absent]
    /\ status \in [AdminCard -> {"none", "live"}]     \* the press has made cards before
    /\ forward \in [AdminCard -> AdminCard \cup {Absent}]
    /\ \A c \in AdminCard : forward[c] # Absent => status[c] = "live" /\ forward[c] # c
    /\ pending = {} /\ records = {}
    /\ apply = [c \in AdminCard |-> "none"] /\ handoff = [c \in AdminCard |-> NoHandoff]
    /\ walk = [c \in AdminCard |-> NoWalk]
    /\ poll = NoPoll /\ cursor = 0
    /\ seenRecord = {} /\ named = [c \in AdminCard |-> {}] /\ judged = {} /\ events = 0

VerifyTxt(c) ==
    \/ RequestVerification(c) \/ SendRegistration(c) \/ AnswerRegistered(c) \/ FailVerification(c)
    \/ \E yes \in BOOLEAN : ResolveTxt(c, yes) \/ IssueAdminCard(c, yes)
Deactivate(c) ==
    \/ \E old \in SUBSET AdminCard, paths \in SUBSET DomainPath : RequestDeactivation(c, old, paths)
    \/ MeetAdmin(c) \/ FollowLink(c) \/ LoseTrail(c) \/ SendClearing(c)
    \/ SendDeregistration(c) \/ FailDeactivation(c)
    \/ \E o \in AdminCard, answered \in BOOLEAN : RevokeOld(c, o, answered)
VerifyEntries ==
    \/ StartPoll \/ RemoveBranded \/ EndRemoval \/ SaveCursor \/ AbortOnSubCard
    \/ \E readable \in BOOLEAN : VerifyEvent(readable)
Environment ==
    \/ \E tx \in pending : Mine(tx)
    \/ \E c \in AdminCard : ToggleRecord(c) \/ \E d \in AdminCard : SetForward(c, d)
    \/ \E p \in DomainPath, v \in Value, sub \in BOOLEAN : SetPolicyAddress(p, v, sub)
    \/ RotateBody \/ FailPoll

AuthorityNext ==
    \/ \E c \in AdminCard : VerifyTxt(c) \/ Deactivate(c)
    \/ VerifyEntries
    \/ Environment
AuthoritySpec == AuthorityInit /\ [][AuthorityNext]_authorityVars

-----------------------------------------------------------------------------
(* Properties                                                               *)

(* A domain that has an admin keeps it until it is deregistered, and the next one   *)
(* proved with a record of its own that it holds the domain, whatever requests and  *)
(* transactions overlap (txt-verification.ts).                                  *)
AdminsProven ==
    [][admin' # admin /\ admin' # Absent => admin = Absent /\ admin' \in seenRecord]_authorityVars

(* A deactivation revokes only cards from which links that held while it walked, each  *)
(* of them though not necessarily at one time, lead within maxHops to a card that had  *)
(* proved it holds the domain, whatever its admin lists as its old cards and whatever  *)
(* forwards and logs change between two hops (admin-deactivation.ts).              *)
LedTo(o, d) ==
    \E n \in 1..MaxHops : \E met \in [0..n -> AdminCard] :
        /\ met[0] = o /\ met[n] = d
        /\ \A i \in 0..(n - 1) : <<met[i], met[i + 1]>> \in named[d]
SupersededRevoked ==
    [][\A c \in AdminCard : status[c] = "live" /\ status'[c] = "revoked" =>
          \E d \in seenRecord : LedTo(c, d)]_authorityVars

(* Every event up to the cursor has its verdict, whichever runs ended early or never    *)
(* got past their events (policy-address-verifier.ts).                           *)
VerdictsComplete == 1..cursor \subseteq judged
=============================================================================
