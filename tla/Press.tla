-------------------------------- MODULE Press --------------------------------
(***************************************************************************)
(* The press (press/src/handlers and functions): it keeps targeted offers,  *)
(* completes them, serves open offers, appends log entries and registers     *)
(* sub-cards, each by one call of RegistryClient.                            *)
(*                                                                         *)
(* Handlers run concurrently: every await is a step of its own, and between  *)
(* two of them other requests, other presses, the governance bodies and the  *)
(* passing of time may change what was read.  The process may crash at any   *)
(* step: its requests are lost; the key-value store, the pinned content and  *)
(* the transactions sent stay.  Requests arrive as admitted by the signature,*)
(* staleness, predicate, rate and gas-account checks.                        *)
(***************************************************************************)
EXTENDS RegistryClient

CONSTANTS
    Target,         \* targeted offers
    OfferPolicy,    \* the policy each targeted and each open offer names
    ContentCid,     \* per request, the CID of what it pins: no two are equal
    Founder, FounderPolicy, FounderCid      \* a card registered before

ASSUME PressAssumption ==
    /\ OfferPolicy \in [Target \cup Offer -> Policy]
    /\ ContentCid \in [Request -> Cid] /\ IsInjective(ContentCid)
    /\ Founder \in Card /\ FounderPolicy \in Policy
    /\ FounderCid \in Cid \ Range(ContentCid)

VARIABLES
    handler,        \* per request: how far its handler is
    offers,         \* press:offer:* of the key-value store
    pinned          \* per CID: "no", or the log root that the pinned entry names

pressLocal == <<call, inFlight, handler, offers, pinned>>
pressAll == <<vars, pressLocal>>

Over == {"done", "error", "lost"}
Handler ==
    [step : {"new", "pin", "read head", "call", "mark"} \cup Over,
     kind : {"none", "update", "finalize", "claim", "register", "deregister"},
     target : Target \cup {Nil}, args : Args]
NoHandler == [step |-> "new", kind |-> "none", target |-> Nil, args |-> NoArgs]

PressTypeOK ==
    /\ TypeOK
    /\ ClientTypeOK
    /\ handler \in [Request -> Handler]
    /\ offers \in [Target -> {"none", "open", "finalized"}]
    /\ pinned \in [Cid -> {"no", Nil} \cup Cid]

\* The bodies have recognized every policy and authorized every press (with
\* nonces outside Nonce), and this press has registered one card.
PressInit ==
    LET founding == <<FounderPolicy, Self>> IN
    /\ \E l \in Logic, k \in Key :
          /\ logic = l
          /\ keysets = [b \in Body |-> [keys |-> <<k>>, quorum |-> 1, version |-> 0]]
    /\ cards = [c \in Card |->
          IF c = Founder THEN [exists |-> TRUE, head |-> FounderCid, policy |-> FounderPolicy,
                               lastPress |-> Self, forward |-> Nil]
                         ELSE NoCard]
    /\ headLog = [c \in Card |->
          IF c = Founder THEN <<{[prev |-> Nil, new |-> FounderCid]}>> ELSE <<>>]
    /\ auth = [a \in Policy \X Press |->
          [key |-> SelfKey, active |-> TRUE, sequence |-> IF a = founding THEN 1 ELSE 0]]
    /\ gateLog = [a \in Policy \X Press |->
          IF a = founding THEN <<[epoch |-> 1, op |-> "register_card", sequence |-> 0,
                                  signer |-> SelfKey]>>
                          ELSE <<>>]
    /\ epoch = [a \in Policy \X Press |-> 1]
    /\ policies = Policy /\ deleteDisabled = FALSE
    /\ subCards = [s \in SubCard |-> NoSubCard]
    /\ offerCounts = [o \in Offer |-> 0] /\ claims = [o \in Offer |-> {}]
    /\ usedNonces = {} /\ pendingLogic = NoUpgrade /\ now = 1
    /\ domains = [d \in Domain |-> NoDomain] /\ dnsPolicy = Nil
    /\ policyAddresses = [e \in Domain \X Path |-> Nil] /\ adminKeys = [c \in Card |-> Nil]
    /\ ClientInit
    /\ handler = [i \in Request |-> NoHandler]
    /\ offers = [o \in Target |-> "none"]
    /\ pinned = [h \in Cid |-> IF h = FounderCid THEN Nil ELSE "no"]

-----------------------------------------------------------------------------
(* Handlers                                                                 *)

\* handleIssue: the record is written whatever it held before.
HandleIssue(o) ==
    /\ offers' = [offers EXCEPT ![o] = "open"]
    /\ UNCHANGED <<vars, clientVars, handler, pinned>>

Begin(i, kind, step, target, args) ==
    /\ handler[i].step = "new"
    /\ handler' = [handler EXCEPT ![i] =
          [step |-> step, kind |-> kind, target |-> target, args |-> args]]
    /\ UNCHANGED <<vars, inFlight, offers, pinned>>

HandleUpdate(i, card) ==
    /\ cards[card].exists
    /\ Begin(i, "update", "read head", Nil, [NoArgs EXCEPT !.card = card])
    /\ UNCHANGED call

\* The recipient of a targeted offer is whoever signed the finalize request.
HandleIssueFinalize(i, o, card) ==
    /\ offers[o] = "open"
    /\ Begin(i, "finalize", "pin", o, [NoArgs EXCEPT !.card = card, !.policy = OfferPolicy[o]])
    /\ UNCHANGED call

\* The checks of the open offer before anything is published.
HandleOpenOfferClaim(i, o, card) ==
    /\ DocumentOpen(o)
    /\ Begin(i, "claim", "pin", Nil,
             [NoArgs EXCEPT !.card = card, !.policy = OfferPolicy[o], !.offer = o])
    /\ UNCHANGED call

HandleSubCardRegister(i, sub, master) ==
    /\ Begin(i, "register", "pin", Nil, [NoArgs EXCEPT !.card = master, !.sub = sub])
    /\ UNCHANGED call

HandleSubCardDeregister(i, sub) ==
    LET args == [NoArgs EXCEPT !.sub = sub] IN
    /\ subCards[sub].active
    /\ Begin(i, "deregister", "call", Nil, args)
    /\ Start(i, "deregister_sub_card", args)

OperationOf(kind) ==
    CASE kind = "update" -> "update_card_head"
      [] kind = "finalize" -> "register_card"
      [] kind = "claim" -> "claim_open_offer"
      [] kind = "register" -> "register_sub_card"

\* The handler goes on to its call with what it has gathered.
ToCall(i, args) ==
    /\ handler' = [handler EXCEPT ![i].step = "call", ![i].args = args]
    /\ Start(i, OperationOf(handler[i].kind), args)

\* appendLogEntry, handleSubCardRegister: the head the call will build on.
ReadHead(i) ==
    LET args == [handler[i].args EXCEPT !.head = cards[handler[i].args.card].head] IN
    /\ handler[i].step = "read head"
    /\ \/ /\ handler[i].kind = "update"
          /\ handler' = [handler EXCEPT ![i].step = "pin", ![i].args = args]
          /\ UNCHANGED call
       \/ /\ handler[i].kind = "register"
          /\ ToCall(i, args)
    /\ UNCHANGED <<vars, inFlight, offers, pinned>>

\* A log entry names as its prev_log_root the head that was read.
Pin(i) ==
    LET args == [handler[i].args EXCEPT !.cid = ContentCid[i]] IN
    /\ handler[i].step = "pin"
    /\ pinned' = [pinned EXCEPT ![ContentCid[i]] = handler[i].args.head]
    /\ \/ /\ handler[i].kind = "register"
          /\ handler' = [handler EXCEPT ![i].step = "read head", ![i].args = args]
          /\ UNCHANGED call
       \/ /\ handler[i].kind # "register"
          /\ ToCall(i, args)
    /\ UNCHANGED <<vars, inFlight, offers>>

\* The content store or the node fails, or the gas wallet is empty.
GiveUp(i) ==
    /\ handler[i].step \in {"pin", "read head"}
    /\ handler' = [handler EXCEPT ![i].step = "error"]
    /\ UNCHANGED <<vars, clientVars, offers, pinned>>

\* What follows a call that returned: the key-value store that counts the write
\* may fail; auditors and administrators that cannot be told do no harm.
Outcomes(kind) ==
    CASE kind = "finalize" -> {"mark"}
      [] kind = "deregister" -> {"done"}
      [] OTHER -> {"done", "error"}

\* The call returned or threw.
Resume(i) ==
    /\ handler[i].step = "call"
    /\ \/ /\ call[i].phase = "confirmed"
          /\ \E step \in Outcomes(handler[i].kind) :
                handler' = [handler EXCEPT ![i].step = step]
       \/ /\ call[i].phase = "failed"
          /\ handler' = [handler EXCEPT ![i].step = "error"]
    /\ UNCHANGED <<vars, clientVars, offers, pinned>>

MarkFinalized(i) ==
    /\ handler[i].step = "mark"
    /\ \/ /\ offers' = [offers EXCEPT ![handler[i].target] = "finalized"]
          /\ \E step \in {"done", "error"} : handler' = [handler EXCEPT ![i].step = step]
       \/ /\ handler' = [handler EXCEPT ![i].step = "error"]
          /\ UNCHANGED offers
    /\ UNCHANGED <<vars, clientVars, pinned>>

CallStep(i) ==
    /\ handler[i].step = "call"
    /\ ClientStep(i)
    /\ UNCHANGED <<handler, offers, pinned>>

Crash ==
    /\ handler' = [i \in Request |->
          IF handler[i].step \in {"new"} \cup Over THEN handler[i]
                                                    ELSE [handler[i] EXCEPT !.step = "lost"]]
    /\ handler' # handler
    /\ UNCHANGED <<vars, clientVars, offers, pinned>>

-----------------------------------------------------------------------------

Arrive(i) ==
    \/ \E c \in Card : HandleUpdate(i, c)
    \/ \E o \in Target, c \in Card : HandleIssueFinalize(i, o, c)
    \/ \E o \in Offer, c \in Card : HandleOpenOfferClaim(i, o, c)
    \/ \E s \in SubCard, m \in Card : HandleSubCardRegister(i, s, m)
    \/ \E s \in SubCard : HandleSubCardDeregister(i, s)

Proceed(i) == ReadHead(i) \/ Pin(i) \/ GiveUp(i) \/ Resume(i) \/ MarkFinalized(i) \/ CallStep(i)

\* The rest of the world: the clock, other presses (whose content has CIDs of
\* its own) and the governance bodies.
Elsewhere ==
    /\ \/ Tick
       \/ /\ \E press \in Press \ {Self} : PressCall(logic, press)
          /\ \A c \in Card : headLog'[c] # headLog[c] => cards'[c].head \notin Range(ContentCid)
       \/ \E payload \in GovernancePayload, sigs \in SignerList :
             GovernanceCall(logic, payload, sigs)
    /\ UNCHANGED pressLocal

PressNext ==
    \/ \E o \in Target : HandleIssue(o)
    \/ \E i \in Request : Arrive(i) \/ Proceed(i)
    \/ Mine /\ UNCHANGED <<handler, offers, pinned>>
    \/ Crash
    \/ Elsewhere

PressSpec == PressInit /\ [][PressNext]_pressAll

\* The event loop runs every continuation that is ready, and every await settles:
\* the node, the content store and the auditors answer or time out, the wait for
\* a receipt after 300 seconds.  Whether a transaction is ever mined is not ours.
FairPressSpec == PressSpec /\ \A i \in Request : WF_pressAll(Proceed(i))

-----------------------------------------------------------------------------
(* Properties                                                               *)

InFlightOf(i) == Cardinality({k \in DOMAIN inFlight : inFlight[k].request = i})

\* A request takes effect at most once: whatever the client tries again, it has
\* never two transactions that could both land, through lost answers, timeouts
\* and crashes; and one that was answered with a lost race has none and never will.
RetriesAreSafe ==
    \A i \in Request :
        /\ call[i].written + InFlightOf(i) <= 1
        /\ call[i].error \in {"SEQUENCE_MISMATCH", "STALE_PREV_CID"} =>
              call[i].written + InFlightOf(i) = 0

\* The log a reader walks is the log the chain recorded: every head this press
\* wrote is pinned, and the entry behind it names as its prev_log_root exactly
\* the head it replaced, although others moved the head since it was read.
LogMatchesChain ==
    \A c \in Card : \A n \in DOMAIN headLog[c] : \A e \in headLog[c][n] :
        e.new \in Range(ContentCid) => pinned[e.new] = IF n = 1 THEN Nil ELSE e.prev

\* Every request is answered, unless the process crashes under it: no handler
\* waits for good on a transaction, a lost race or another handler.
Answered == \A i \in Request : handler[i].step # "new" ~> handler[i].step \in Over
=============================================================================
