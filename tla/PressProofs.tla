----------------------------- MODULE PressProofs -----------------------------
(***************************************************************************)
(* What is proved of the press and its client of the registry: types, that   *)
(* retrying is safe, and that the published logs match the chain.            *)
(***************************************************************************)
EXTENDS Press, CardRegistryProofs

-----------------------------------------------------------------------------
(* The shape of handlers, calls and transactions                            *)

\* Before its call a handler has gathered what the call needs, and no more.
Before == {"new", "pin", "read head"}

FitHandler(h) ==
    /\ h.step = "pin" => /\ h.kind \in {"update", "finalize", "claim", "register"}
                         /\ h.args.cid = Nil
                         /\ h.kind # "update" => h.args.head = Nil
    /\ h.step = "read head" => h.kind \in {"update", "register"}
    /\ h.step = "mark" => h.kind = "finalize"
    /\ h.kind \in {"update", "finalize", "claim", "register"} => h.args.card \in Card
    /\ h.kind = "update" => h.step # "read head" \/ h.args.cid = Nil
    /\ h.kind \in {"finalize", "claim"} => h.args.policy \in Policy
    /\ h.kind = "finalize" => h.target \in Target
    /\ h.kind = "claim" => h.args.offer \in Offer
    /\ h.kind = "register" => h.args.sub \in SubCard

\* The operations that write a head.
HeadOp == {"register_card", "update_card_head", "claim_open_offer"}

FitArgs(op, args) ==
    /\ op # "deregister_sub_card" => args.card \in Card
    /\ op \in HeadOp => args.cid \in Cid
    /\ op \in {"register_card", "claim_open_offer"} => args.policy \in Policy
    /\ op = "claim_open_offer" => args.offer \in Offer
    /\ op \in {"register_sub_card", "deregister_sub_card"} => args.sub \in SubCard

HandlersFit ==
    \A i \in Request : /\ FitHandler(handler[i])
                       /\ handler[i].step \in Before => call[i].phase = "none"
CallsFit ==
    \A i \in Request : /\ call[i].phase # "none" => FitArgs(call[i].op, call[i].args)
                       /\ call[i].phase = "head" => call[i].op = "update_card_head"
TxsFit == \A k \in 1..Len(inFlight) : FitArgs(inFlight[k].op, inFlight[k].args)

Fitting == HandlersFit /\ CallsFit /\ TxsFit

OffersType == offers \in [Target -> {"none", "open", "finalized"}]
CallType == call \in [Request -> Call]
HandlerType == handler \in [Request -> Handler]
PinnedType == pinned \in [Cid -> {"no", Nil} \cup Cid]

-----------------------------------------------------------------------------
(* Every step of a handler is one of three: it changes the handler alone, it  *)
(* publishes content, it starts a call.                                     *)

Handled(i, h) ==
    /\ h \in Handler /\ FitHandler(h)
    /\ h.step \in Before => handler[i].step \in Before
    /\ handler' = [handler EXCEPT ![i] = h]

Published(i) ==
    /\ handler[i].step = "pin"
    /\ pinned' = [pinned EXCEPT ![ContentCid[i]] = handler[i].args.head]

NewCall(op, args) == [NoCall EXCEPT !.phase = "sequence", !.op = op, !.args = args]

Started(i, op, args) ==
    /\ op \in ClientOp /\ args \in Args /\ FitArgs(op, args)
    /\ handler[i].step \in Before
    /\ call' = [call EXCEPT ![i] = NewCall(op, args)]

HandlerStep(i) ==
    /\ \E h : Handled(i, h)
    /\ OffersType'
    /\ UNCHANGED <<vars, call, inFlight>>
    /\ pinned' = pinned \/ Published(i)

StartStep(i) ==
    /\ \E h : Handled(i, h) /\ h.step = "call"
    /\ OffersType'
    /\ UNCHANGED <<vars, inFlight>>
    /\ \E op, args :
          /\ Started(i, op, args)
          /\ \/ /\ op \notin HeadOp
                /\ pinned' = pinned
             \/ /\ op \in HeadOp
                /\ Published(i)
                /\ args.cid = ContentCid[i]
                /\ args.head = handler[i].args.head
                /\ op # "update_card_head" => args.head = Nil

OfferStep == OffersType' /\ UNCHANGED <<vars, call, inFlight, handler, pinned>>

LEMMA NoArgsType == NoArgs \in Args
BY DEF NoArgs, Args

\* A request arrives.
LEMMA BeginIs ==
    ASSUME PressTypeOK, NEW i \in Request, NEW kind \in {"update", "finalize", "claim", "register"},
           NEW step \in {"pin", "read head"}, NEW target \in Target \cup {Nil}, NEW args \in Args,
           FitHandler([step |-> step, kind |-> kind, target |-> target, args |-> args]),
           Begin(i, kind, step, target, args), UNCHANGED call
    PROVE  HandlerStep(i)
<1> DEFINE h == [step |-> step, kind |-> kind, target |-> target, args |-> args]
<1>1. h \in Handler
    BY DEF Handler
<1>2. handler' = [handler EXCEPT ![i] = h] /\ handler[i].step \in Before
    BY DEF Begin, Before
<1> HIDE DEF h
<1>3. Handled(i, h)
    BY <1>1, <1>2 DEF Handled, h
<1>4. QED
    BY <1>3 DEF HandlerStep, Begin, PressTypeOK, OffersType

LEMMA ArriveIs ==
    ASSUME PressTypeOK, NEW i \in Request, Arrive(i)
    PROVE  HandlerStep(i) \/ StartStep(i)
<1> USE DEF FitHandler
<1>1. ASSUME NEW c \in Card, HandleUpdate(i, c) PROVE HandlerStep(i)
  <2> DEFINE a == [NoArgs EXCEPT !.card = c]
  <2>1. a \in Args /\ a.card = c /\ a.cid = Nil
    BY DEF NoArgs, Args
  <2>2. Begin(i, "update", "read head", Nil, a) /\ UNCHANGED call
    BY <1>1 DEF HandleUpdate
  <2> HIDE DEF a
  <2>3. QED
    BY <2>1, <2>2, BeginIs
<1>2. ASSUME NEW o \in Target, NEW c \in Card, HandleIssueFinalize(i, o, c) PROVE HandlerStep(i)
  <2> DEFINE a == [NoArgs EXCEPT !.card = c, !.policy = OfferPolicy[o]]
  <2>1. OfferPolicy[o] \in Policy
    BY PressAssumption
  <2>2. a \in Args /\ a.card = c /\ a.cid = Nil /\ a.head = Nil /\ a.policy \in Policy
    BY <2>1 DEF NoArgs, Args
  <2>3. Begin(i, "finalize", "pin", o, a) /\ UNCHANGED call
    BY <1>2 DEF HandleIssueFinalize
  <2> HIDE DEF a
  <2>4. QED
    BY <2>2, <2>3, BeginIs
<1>3. ASSUME NEW o \in Offer, NEW c \in Card, HandleOpenOfferClaim(i, o, c) PROVE HandlerStep(i)
  <2> DEFINE a == [NoArgs EXCEPT !.card = c, !.policy = OfferPolicy[o], !.offer = o]
  <2>1. OfferPolicy[o] \in Policy
    BY PressAssumption
  <2>2. /\ a \in Args /\ a.card = c /\ a.cid = Nil /\ a.head = Nil
        /\ a.policy \in Policy /\ a.offer = o
    BY <2>1 DEF NoArgs, Args
  <2>3. Begin(i, "claim", "pin", Nil, a) /\ UNCHANGED call
    BY <1>3 DEF HandleOpenOfferClaim
  <2> HIDE DEF a
  <2>4. QED
    BY <2>2, <2>3, BeginIs
<1>4. ASSUME NEW s \in SubCard, NEW m \in Card, HandleSubCardRegister(i, s, m) PROVE HandlerStep(i)
  <2> DEFINE a == [NoArgs EXCEPT !.card = m, !.sub = s]
  <2>1. a \in Args /\ a.card = m /\ a.cid = Nil /\ a.head = Nil /\ a.sub = s
    BY DEF NoArgs, Args
  <2>2. Begin(i, "register", "pin", Nil, a) /\ UNCHANGED call
    BY <1>4 DEF HandleSubCardRegister
  <2> HIDE DEF a
  <2>3. QED
    BY <2>1, <2>2, BeginIs
<1>5. ASSUME NEW s \in SubCard, HandleSubCardDeregister(i, s) PROVE StartStep(i)
  <2> DEFINE a == [NoArgs EXCEPT !.sub = s]
             h == [step |-> "call", kind |-> "deregister", target |-> Nil, args |-> a]
  <2>1. a \in Args /\ a.sub = s
    BY DEF NoArgs, Args
  <2>2. /\ handler[i].step = "new" /\ handler' = [handler EXCEPT ![i] = h]
        /\ Start(i, "deregister_sub_card", a)
        /\ UNCHANGED <<vars, inFlight, offers, pinned>>
    BY <1>5 DEF HandleSubCardDeregister, Begin
  <2>3. h \in Handler /\ h.step = "call" /\ h.kind = "deregister"
    BY <2>1 DEF Handler
  <2> HIDE DEF a, h
  <2>4. Handled(i, h)
    BY <2>2, <2>3 DEF Handled, Before
  <2>5. Started(i, "deregister_sub_card", a)
    BY <2>1, <2>2 DEF Started, FitArgs, ClientOp, HeadOp, Before, Start, NewCall
  <2>6. QED
    BY <2>2, <2>3, <2>4, <2>5 DEF StartStep, HeadOp, PressTypeOK, OffersType
<1>6. QED
    BY <1>1, <1>2, <1>3, <1>4, <1>5 DEF Arrive

LEMMA ReadHeadIs ==
    ASSUME PressTypeOK, Fitting, NEW i \in Request, ReadHead(i)
    PROVE  HandlerStep(i) \/ StartStep(i)
<1> DEFINE g == handler[i]
           a == [g.args EXCEPT !.head = cards[g.args.card].head]
<1>1. g \in Handler /\ g.step = "read head" /\ FitHandler(g)
    BY DEF PressTypeOK, ReadHead, Fitting, HandlersFit
<1>2. g.args.card \in Card /\ g.args \in Args
    BY <1>1 DEF FitHandler, Handler
<1>3. cards[g.args.card].head \in Cid \cup {Nil}
    BY <1>2 DEF PressTypeOK, TypeOK, StorageTypeOK, CardEntry
<1>4. a \in Args /\ a.card = g.args.card /\ a.cid = g.args.cid /\ a.sub = g.args.sub
    BY <1>2, <1>3 DEF Args
<1>5. CASE g.kind = "update" /\ handler' = [handler EXCEPT ![i].step = "pin", ![i].args = a]
             /\ UNCHANGED call
  <2> DEFINE h == [[g EXCEPT !.step = "pin"] EXCEPT !.args = a]
  <2>1. handler' = [handler EXCEPT ![i] = h]
    BY <1>5 DEF PressTypeOK
  <2>2. h \in Handler
    BY <1>1, <1>4 DEF Handler
  <2>3. h.step = "pin" /\ h.kind = g.kind /\ h.args = a /\ h.target = g.target
    BY <1>1 DEF Handler
  <2> HIDE DEF a, h
  <2>4. FitHandler(h)
    BY <1>1, <1>4, <1>5, <2>3 DEF FitHandler
  <2> HIDE DEF g
  <2>5. Handled(i, h)
    BY <1>1, <2>1, <2>2, <2>4 DEF Handled, Before, g
  <2>6. QED
    BY <1>5, <2>5 DEF HandlerStep, ReadHead, PressTypeOK, OffersType
<1>6. CASE g.kind = "register" /\ ToCall(i, a)
  <2> DEFINE h == [[g EXCEPT !.step = "call"] EXCEPT !.args = a]
  <2>1. /\ handler' = [handler EXCEPT ![i] = h]
        /\ call' = [call EXCEPT ![i] = NewCall("register_sub_card", a)]
    BY <1>6 DEF PressTypeOK, ToCall, Start, OperationOf, NewCall
  <2>2. h \in Handler
    BY <1>1, <1>4 DEF Handler
  <2>3. h.step = "call" /\ h.kind = g.kind /\ h.args = a /\ h.target = g.target
    BY <1>1 DEF Handler
  <2> HIDE DEF a, h
  <2>4. FitHandler(h)
    BY <1>1, <1>4, <1>6, <2>3 DEF FitHandler
  <2>5. a.sub \in SubCard
    BY <1>1, <1>4, <1>6 DEF FitHandler
  <2> HIDE DEF g
  <2>6. Handled(i, h)
    BY <1>1, <2>1, <2>2, <2>3, <2>4 DEF Handled, Before
  <2>7. Started(i, "register_sub_card", a)
    BY <1>1, <1>2, <1>4, <2>1, <2>5 DEF Started, FitArgs, ClientOp, HeadOp, Before, g
  <2>8. UNCHANGED <<vars, inFlight, offers, pinned>>
    BY DEF ReadHead
  <2>9. "register_sub_card" \notin HeadOp
    BY DEF HeadOp
  <2>10. OffersType'
    BY <2>8 DEF PressTypeOK, OffersType
  <2>11. QED
    BY <2>3, <2>6, <2>7, <2>8, <2>9, <2>10 DEF StartStep
<1>7. QED
    BY <1>5, <1>6 DEF ReadHead

LEMMA PinIs ==
    ASSUME PressTypeOK, Fitting, NEW i \in Request, Pin(i)
    PROVE  HandlerStep(i) \/ StartStep(i)
<1> DEFINE g == handler[i]
           a == [g.args EXCEPT !.cid = ContentCid[i]]
<1>1. g \in Handler /\ g.step = "pin" /\ FitHandler(g)
    BY DEF PressTypeOK, Pin, Fitting, HandlersFit
<1>2. g.args.card \in Card /\ g.args \in Args /\ ContentCid[i] \in Cid
    BY <1>1, PressAssumption DEF FitHandler, Handler
<1>3. /\ a \in Args /\ a.card = g.args.card /\ a.cid = ContentCid[i] /\ a.sub = g.args.sub
      /\ a.head = g.args.head /\ a.policy = g.args.policy /\ a.offer = g.args.offer
    BY <1>2 DEF Args
<1>4. Published(i)
    BY DEF Pin, Published
<1>5. CASE g.kind = "register" /\ handler' = [handler EXCEPT ![i].step = "read head", ![i].args = a]
             /\ UNCHANGED call
  <2> DEFINE h == [[g EXCEPT !.step = "read head"] EXCEPT !.args = a]
  <2>1. handler' = [handler EXCEPT ![i] = h]
    BY <1>5 DEF PressTypeOK
  <2>2. h \in Handler
    BY <1>1, <1>3 DEF Handler
  <2>3. h.step = "read head" /\ h.kind = g.kind /\ h.args = a /\ h.target = g.target
    BY <1>1 DEF Handler
  <2> HIDE DEF a, h
  <2>4. FitHandler(h)
    BY <1>1, <1>3, <1>5, <2>3 DEF FitHandler
  <2> HIDE DEF g
  <2>5. Handled(i, h)
    BY <1>1, <2>1, <2>2, <2>4 DEF Handled, Before, g
  <2>6. QED
    BY <1>4, <1>5, <2>5 DEF HandlerStep, Pin, PressTypeOK, OffersType
<1>6. CASE g.kind # "register" /\ ToCall(i, a)
  <2> DEFINE h == [[g EXCEPT !.step = "call"] EXCEPT !.args = a]
             op == OperationOf(g.kind)
  <2>1. /\ handler' = [handler EXCEPT ![i] = h]
        /\ call' = [call EXCEPT ![i] = NewCall(op, a)]
    BY <1>6 DEF PressTypeOK, ToCall, Start, NewCall
  <2>2. h \in Handler
    BY <1>1, <1>3 DEF Handler
  <2>3. h.step = "call" /\ h.kind = g.kind /\ h.args = a /\ h.target = g.target
    BY <1>1 DEF Handler
  <2>4. /\ g.kind \in {"update", "finalize", "claim"}
        /\ g.kind = "update" => op = "update_card_head"
        /\ g.kind = "finalize" => op = "register_card"
        /\ g.kind = "claim" => op = "claim_open_offer"
    BY <1>1, <1>6 DEF FitHandler, OperationOf
  <2> HIDE DEF a, h, op
  <2>5. FitHandler(h)
    BY <1>1, <1>3, <1>6, <2>3 DEF FitHandler
  <2>6. /\ op \in HeadOp /\ op \in ClientOp /\ FitArgs(op, a)
        /\ op # "update_card_head" => a.head = Nil
    BY <1>1, <1>2, <1>3, <2>4 DEF FitHandler, FitArgs, HeadOp, ClientOp
  <2> HIDE DEF g
  <2>7. Handled(i, h)
    BY <1>1, <2>1, <2>2, <2>3, <2>5 DEF Handled, Before
  <2>8. Started(i, op, a)
    BY <1>1, <1>3, <2>1, <2>6 DEF Started, Before, g
  <2>9. a.head = handler[i].args.head
    BY <1>3 DEF g
  <2>10. QED
    BY <1>3, <1>4, <2>3, <2>6, <2>7, <2>8, <2>9 DEF StartStep, Pin, PressTypeOK, OffersType
<1>7. QED
    BY <1>5, <1>6 DEF Pin

\* A handler that goes on without a call.
LEMMA MovedOn ==
    ASSUME PressTypeOK, Fitting, NEW i \in Request, NEW step \in {"mark", "done", "error", "lost"},
           step = "mark" => handler[i].kind = "finalize",
           handler' = [handler EXCEPT ![i].step = step],
           OffersType', UNCHANGED <<vars, call, inFlight, pinned>>
    PROVE  HandlerStep(i)
<1> DEFINE g == handler[i]
           h == [g EXCEPT !.step = step]
<1>1. g \in Handler /\ FitHandler(g)
    BY DEF PressTypeOK, Fitting, HandlersFit
<1>2. h \in Handler
    BY <1>1 DEF Handler, Over
<1>3. h.step = step /\ h.kind = g.kind /\ h.args = g.args /\ h.target = g.target
    BY <1>1 DEF Handler
<1>4. handler' = [handler EXCEPT ![i] = h]
    BY DEF PressTypeOK
<1>5. g.kind = handler[i].kind
    OBVIOUS
<1> HIDE DEF g, h
<1>6. FitHandler(h)
    BY <1>1, <1>3, <1>5 DEF FitHandler
<1>7. Handled(i, h)
    BY <1>2, <1>3, <1>4, <1>6 DEF Handled, Before
<1>8. QED
    BY <1>7 DEF HandlerStep

LEMMA ProceedIs ==
    ASSUME PressTypeOK, Fitting, NEW i \in Request, Proceed(i)
    PROVE  \/ HandlerStep(i) \/ StartStep(i)
           \/ ClientStep(i) /\ UNCHANGED <<handler, offers, pinned>>
<1>1. OffersType
    BY DEF PressTypeOK, OffersType
<1>2. CASE GiveUp(i)
  <2>1. UNCHANGED offers /\ UNCHANGED <<vars, call, inFlight, pinned>>
    BY <1>2 DEF GiveUp, clientVars
  <2>2. handler' = [handler EXCEPT ![i].step = "error"]
    BY <1>2 DEF GiveUp
  <2>3. QED
    BY <1>1, <2>1, <2>2, MovedOn DEF OffersType
<1>3. CASE Resume(i)
  <2>1. UNCHANGED offers /\ UNCHANGED <<vars, call, inFlight, pinned>>
    BY <1>3 DEF Resume, clientVars
  <2>2. \E step \in {"mark", "done", "error", "lost"} :
           /\ step = "mark" => handler[i].kind = "finalize"
           /\ handler' = [handler EXCEPT ![i].step = step]
    BY <1>3 DEF Resume, Outcomes
  <2>3. QED
    BY <1>1, <2>1, <2>2, MovedOn DEF OffersType
<1>4. CASE MarkFinalized(i)
  <2>1. handler[i].step = "mark" /\ UNCHANGED <<vars, call, inFlight, pinned>>
    BY <1>4 DEF MarkFinalized, clientVars
  <2>2. \E step \in {"done", "error"} : handler' = [handler EXCEPT ![i].step = step]
    BY <1>4 DEF MarkFinalized
  <2>3. handler[i].target \in Target
    BY <2>1 DEF Fitting, HandlersFit, FitHandler
  <2>4. OffersType'
    BY <1>1, <1>4, <2>3 DEF MarkFinalized, OffersType
  <2>5. QED
    BY <2>1, <2>2, <2>4, MovedOn
<1>5. CASE CallStep(i)
    BY <1>5 DEF CallStep
<1>6. QED
    BY <1>2, <1>3, <1>4, <1>5, ReadHeadIs, PinIs DEF Proceed

CrashStep ==
    /\ \A i \in Request :
          handler'[i] \in {handler[i], [handler[i] EXCEPT !.step = "lost"]}
    /\ handler' = [i \in Request |-> handler'[i]]
    /\ UNCHANGED <<vars, call, inFlight, offers, pinned>>

\* What a step of the system is.
LEMMA StepIs ==
    ASSUME PressTypeOK, Fitting, [PressNext]_pressAll
    PROVE  \/ \E i \in Request : HandlerStep(i) \/ StartStep(i)
           \/ \E i \in Request : ClientStep(i) /\ UNCHANGED <<handler, offers, pinned>>
           \/ OfferStep
           \/ Mine /\ UNCHANGED <<handler, offers, pinned>>
           \/ CrashStep
           \/ Elsewhere
<1>1. OffersType
    BY DEF PressTypeOK, OffersType
<1>2. ASSUME NEW o \in Target, HandleIssue(o) PROVE OfferStep
    BY <1>1, <1>2 DEF HandleIssue, OfferStep, OffersType, clientVars
<1>3. CASE Crash
    BY <1>3 DEF Crash, CrashStep, clientVars
<1>4. CASE UNCHANGED pressAll
    BY <1>1, <1>4 DEF pressAll, pressLocal, OfferStep, OffersType
<1>5. QED
    BY <1>2, <1>3, <1>4, ArriveIs, ProceedIs DEF PressNext

-----------------------------------------------------------------------------
(* Types and shapes                                                         *)

LEMMA OpTypes == HeadOp \subseteq ClientOp /\ ClientOp \subseteq PressOp
BY DEF HeadOp, ClientOp, PressOp

\* What a call becomes by each of its steps.
LEMMA NewCallType ==
    ASSUME NEW op \in ClientOp, NEW args \in Args
    PROVE  /\ NewCall(op, args) \in Call
           /\ NewCall(op, args).phase = "sequence" /\ NewCall(op, args).op = op
           /\ NewCall(op, args).args = args /\ NewCall(op, args).error = "none"
           /\ NewCall(op, args).written = 0
BY NoArgsType DEF NewCall, NoCall, Call, ClientOp

\* The call fails or is tried again, and in either case stays about the same.
CaughtAs(c, d, error) ==
    /\ d \in Call /\ d.op = c.op /\ d.args = c.args /\ d.written = c.written /\ d.mined = c.mined
    /\ \/ d.phase = "failed" /\ d.error = error
       \/ d.phase = "sequence" /\ d.error = c.error /\ error = "SEQUENCE_MISMATCH"
       \/ /\ d.phase = "head" /\ d.error = c.error
          /\ error = "STALE_PREV_CID" /\ error \in NamedErrors /\ c.op = "update_card_head"

LEMMA CaughtIs ==
    ASSUME CallType, NEW i \in Request,
           NEW error \in {"SEQUENCE_MISMATCH", "STALE_PREV_CID", "other", "timeout"},
           Caught(i, error)
    PROVE  \E d : CaughtAs(call[i], d, error) /\ call' = [call EXCEPT ![i] = d]
<1> DEFINE c == call[i]
           again == [c EXCEPT !.phase = "sequence", !.tries = @ + 1]
           reread == [c EXCEPT !.phase = "head", !.tries = 0, !.headTries = @ + 1]
           failed == [c EXCEPT !.phase = "failed", !.error = error]
<1>1. c \in Call
    BY DEF CallType
<1>2. CASE RetrySequence(c, error)
  <2>1. call' = [call EXCEPT ![i] = again]
    BY <1>2 DEF Caught
  <2>2. c.tries \in Nat /\ c.tries + 1 \in Nat
    BY <1>1 DEF Call
  <2>3. again \in Call /\ again.op = c.op /\ again.args = c.args /\ again.written = c.written
             /\ again.mined = c.mined /\ again.phase = "sequence" /\ again.error = c.error
    BY <1>1, <2>2 DEF Call
  <2>4. CaughtAs(c, again, error)
    BY <1>2, <2>3 DEF CaughtAs, RetrySequence
  <2>5. QED
    BY <2>1, <2>4
<1>3. CASE ~RetrySequence(c, error) /\ RetryHead(c, error)
  <2>1. call' = [call EXCEPT ![i] = reread]
    BY <1>3 DEF Caught
  <2>2. c.headTries \in Nat /\ c.headTries + 1 \in Nat
    BY <1>1 DEF Call
  <2>3. reread \in Call /\ reread.op = c.op /\ reread.args = c.args /\ reread.written = c.written
             /\ reread.mined = c.mined /\ reread.phase = "head" /\ reread.error = c.error
    BY <1>1, <2>2 DEF Call
  <2>4. CaughtAs(c, reread, error)
    BY <1>3, <2>3 DEF CaughtAs, RetryHead
  <2>5. QED
    BY <2>1, <2>4
<1>4. CASE ~RetrySequence(c, error) /\ ~RetryHead(c, error)
  <2>1. call' = [call EXCEPT ![i] = failed]
    BY <1>4 DEF Caught
  <2>2. CaughtAs(c, failed, error)
    BY <1>1 DEF CaughtAs, Call
  <2>3. QED
    BY <2>1, <2>2
<1>5. QED
    BY <1>2, <1>3, <1>4

LEMMA RevertIs ==
    ASSUME NEW op, NEW args, NEW sequence
    PROVE  Revert(op, args, sequence) \in {"none", "SEQUENCE_MISMATCH", "STALE_PREV_CID", "other"}
BY DEF Revert

\* A step of a call, told by what becomes of the record and of the transactions:
\* it reads and goes on, sends, hears of its transaction or is caught.
CallGoesOn(c, d) ==
    /\ d \in Call /\ d.op = c.op /\ d.written = c.written /\ d.error = c.error
    /\ \/ c.phase = "sequence" /\ d.phase = "send" /\ d.args = c.args
       \/ c.phase = "head" /\ d.phase = "sequence" /\ d.args.card = c.args.card
             /\ d.args \in Args /\ FitArgs(d.op, d.args)
       \/ c.phase = "wait" /\ d.phase = "confirmed" /\ d.args = c.args

CallIsSent(c, d) ==
    /\ d \in Call /\ d.op = c.op /\ d.args = c.args /\ d.written = c.written
    /\ c.phase = "send"
    /\ \/ d.phase = "wait" /\ d.error = c.error
       \/ d.phase = "failed" /\ d.error = "other"

CallIsCaught(c, d) ==
    \E error \in {"SEQUENCE_MISMATCH", "STALE_PREV_CID", "other", "timeout"} :
        /\ CaughtAs(c, d, error)
        /\ error \in {"SEQUENCE_MISMATCH", "STALE_PREV_CID"} => c.phase = "send"
        /\ c.phase \in {"head", "sequence", "send", "wait"}

LEMMA ClientStepIs ==
    ASSUME PressTypeOK, Fitting, NEW i \in Request, ClientStep(i)
    PROVE  /\ UNCHANGED vars
           /\ \E d : /\ call' = [call EXCEPT ![i] = d]
                     /\ \/ /\ CallGoesOn(call[i], d) \/ CallIsCaught(call[i], d)
                           /\ inFlight' = inFlight
                        \/ /\ CallIsSent(call[i], d)
                           /\ inFlight' = Append(inFlight, Transaction(i))
<1> DEFINE c == call[i]
<1>1. CallType /\ c \in Call /\ c = call[i]
    BY DEF PressTypeOK, ClientTypeOK, CallType
<1>2. (c.phase # "none" => FitArgs(c.op, c.args)) /\ (c.phase = "head" => c.op = "update_card_head")
    BY DEF Fitting, CallsFit
<1>3. CASE ReadSequence(i)
  <2> DEFINE p == PolicyOf(c.op, c.args)
             n == NextSequence(p)
             d == [[c EXCEPT !.phase = "send"] EXCEPT !.sequence = n]
  <2>1. n \in Nat
    <3> HIDE DEF p
    <3>1. \A q \in Policy : auth[<<q, Self>>] \in PressAuthEntry
      BY ClientAssumption DEF PressTypeOK, TypeOK, StorageTypeOK
    <3>2. QED
      BY <3>1 DEF NextSequence, PressAuthEntry
  <2>2. call' = [call EXCEPT ![i] = d]
    BY <1>1, <1>3 DEF ReadSequence, CallType
  <2> HIDE DEF n, c
  <2>3. CallGoesOn(c, d)
    BY <1>1, <1>3, <2>1 DEF CallGoesOn, Call, ReadSequence
  <2>4. QED
    BY <1>1, <1>3, <2>2, <2>3 DEF ReadSequence
<1>4. CASE RereadHead(i)
  <2> DEFINE a == [c.args EXCEPT !.head = cards[c.args.card].head]
             d == [[c EXCEPT !.phase = "sequence"] EXCEPT !.args = a]
  <2>1. c.phase = "head" /\ c.op = "update_card_head" /\ FitArgs(c.op, c.args)
    BY <1>2, <1>4 DEF RereadHead
  <2>2. c.args.card \in Card /\ c.args.cid \in Cid /\ c.args \in Args
    BY <1>1, <2>1 DEF FitArgs, HeadOp, Call
  <2>3. cards[c.args.card].head \in Cid \cup {Nil}
    BY <2>2 DEF PressTypeOK, TypeOK, StorageTypeOK, CardEntry
  <2>4. a \in Args /\ a.card = c.args.card /\ a.cid = c.args.cid
    BY <2>2, <2>3 DEF Args
  <2>5. call' = [call EXCEPT ![i] = d]
    BY <1>1, <1>4 DEF RereadHead, CallType
  <2> HIDE DEF a, c
  <2>6. d \in Call /\ d.phase = "sequence" /\ d.args = a /\ d.op = c.op /\ d.written = c.written
             /\ d.error = c.error
    BY <1>1, <2>4 DEF Call
  <2> HIDE DEF d
  <2>7. CallGoesOn(c, d)
    BY <2>1, <2>2, <2>4, <2>6 DEF CallGoesOn, FitArgs, HeadOp
  <2>8. QED
    BY <1>1, <1>4, <2>5, <2>7 DEF RereadHead
<1>5. CASE Send(i)
  <2> DEFINE d == [[c EXCEPT !.phase = "wait"] EXCEPT !.mined = FALSE]
  <2>1. call' = [call EXCEPT ![i] = d]
    BY <1>1, <1>5 DEF Send, CallType
  <2>2. c.phase = "send" /\ inFlight' = Append(inFlight, Transaction(i)) /\ UNCHANGED vars
    BY <1>5 DEF Send
  <2> HIDE DEF c
  <2>3. CallIsSent(c, d)
    BY <1>1, <2>2 DEF CallIsSent, Call
  <2>4. QED
    BY <1>1, <2>1, <2>2, <2>3
<1>6. CASE EstimateReverts(i)
  <2> DEFINE e == Revert(c.op, c.args, c.sequence)
  <2>1. c.phase = "send" /\ e # "none" /\ Caught(i, e) /\ UNCHANGED <<vars, inFlight>>
    BY <1>6 DEF EstimateReverts
  <2>2. e \in {"none", "SEQUENCE_MISMATCH", "STALE_PREV_CID", "other"}
    BY RevertIs
  <2> HIDE DEF e
  <2>3. PICK d : CaughtAs(call[i], d, e) /\ call' = [call EXCEPT ![i] = d]
    BY <1>1, <2>1, <2>2, CaughtIs
  <2>4. CallIsCaught(call[i], d)
    BY <1>1, <2>1, <2>2, <2>3 DEF CallIsCaught
  <2>5. QED
    BY <2>1, <2>3, <2>4
<1>7. CASE NodeFails(i)
  <2>1. c.phase \in {"head", "sequence", "send"} /\ Caught(i, "other") /\ UNCHANGED vars
    BY <1>7 DEF NodeFails
  <2>2. PICK d : CaughtAs(call[i], d, "other") /\ call' = [call EXCEPT ![i] = d]
    BY <1>1, <2>1, CaughtIs
  <2>3. d.phase = "failed" /\ d.error = "other"
    BY <2>2 DEF CaughtAs
  <2>4. CASE inFlight' = inFlight
    <3>1. CallIsCaught(call[i], d)
      BY <1>1, <2>1, <2>2 DEF CallIsCaught
    <3>2. QED
      BY <2>1, <2>2, <2>4, <3>1
  <2>5. CASE c.phase = "send" /\ inFlight' = Append(inFlight, Transaction(i))
    <3>1. CallIsSent(call[i], d)
      BY <1>1, <2>2, <2>3, <2>5 DEF CallIsSent, CaughtAs
    <3>2. QED
      BY <2>1, <2>2, <2>5, <3>1
  <2>6. QED
    BY <1>7, <2>4, <2>5 DEF NodeFails
<1>8. CASE Receipt(i)
  <2> DEFINE d == [c EXCEPT !.phase = "confirmed"]
  <2>1. call' = [call EXCEPT ![i] = d]
    BY <1>1, <1>8 DEF Receipt, CallType
  <2>2. c.phase = "wait" /\ UNCHANGED <<vars, inFlight>>
    BY <1>8 DEF Receipt
  <2> HIDE DEF c
  <2>3. CallGoesOn(c, d)
    BY <1>1, <2>2 DEF CallGoesOn, Call
  <2>4. QED
    BY <1>1, <2>1, <2>2, <2>3
<1>9. CASE Timeout(i)
  <2>1. c.phase = "wait" /\ Caught(i, "timeout") /\ UNCHANGED <<vars, inFlight>>
    BY <1>9 DEF Timeout
  <2>2. PICK d : CaughtAs(call[i], d, "timeout") /\ call' = [call EXCEPT ![i] = d]
    BY <1>1, <2>1, CaughtIs
  <2>3. CallIsCaught(call[i], d)
    BY <1>1, <2>1, <2>2 DEF CallIsCaught
  <2>4. QED
    BY <2>1, <2>2, <2>3
<1>10. QED
    BY <1>3, <1>4, <1>5, <1>6, <1>7, <1>8, <1>9 DEF ClientStep

\* A transaction is mined: it takes effect as one operation of the contract, or
\* none, and its request hears of it.
MinedFor(i, effect) ==
    /\ inFlight # <<>> /\ i = inFlight[1].request /\ i \in Request
    /\ inFlight' = Tail(inFlight)
    /\ \E d \in Call :
          /\ call' = [call EXCEPT ![i] = d]
          /\ d.phase = call[i].phase /\ d.op = call[i].op /\ d.args = call[i].args
          /\ d.error = call[i].error /\ d.written = call[i].written + effect

LEMMA MineIs ==
    ASSUME PressTypeOK, Mine
    PROVE  /\ inFlight[1] \in Tx /\ 1 \in 1..Len(inFlight)
           /\ \/ /\ MinedFor(inFlight[1].request, 1)
                 /\ Execute(inFlight[1].op, inFlight[1].args,
                            Payload(inFlight[1].op, inFlight[1].sequence))
              \/ MinedFor(inFlight[1].request, 0) /\ UNCHANGED vars
<1> DEFINE tx == inFlight[1]
           i == tx.request
<1>1. inFlight # <<>> /\ inFlight \in Seq(Tx) /\ Head(inFlight) = tx
    BY DEF Mine, PressTypeOK, ClientTypeOK
<1>2. tx \in Tx /\ 1 \in 1..Len(inFlight)
    BY <1>1
<1>3. i \in Request
    BY <1>2 DEF Tx
<1>4. ASSUME NEW effect \in {0, 1}, Mined(i, effect) PROVE MinedFor(i, effect)
  <2> DEFINE c == call[i]
             d == [[c EXCEPT !.mined = TRUE] EXCEPT !.written = c.written + effect]
  <2>1. c \in Call
    BY <1>3 DEF PressTypeOK, ClientTypeOK
  <2>2. c.written \in Nat /\ c.written + effect \in Nat
    BY <2>1 DEF Call
  <2>3. d \in Call /\ d.phase = c.phase /\ d.op = c.op /\ d.args = c.args /\ d.error = c.error
             /\ d.written = c.written + effect
    BY <2>1, <2>2 DEF Call
  <2>4. call' = [call EXCEPT ![i] = d]
    BY <1>3, <1>4 DEF Mined, PressTypeOK, ClientTypeOK
  <2>5. inFlight' = Tail(inFlight)
    BY <1>4 DEF Mined
  <2>6. c = call[i]
    OBVIOUS
  <2> HIDE DEF c, d, tx, i
  <2>7. QED
    BY <1>1, <1>3, <2>3, <2>4, <2>5, <2>6 DEF MinedFor, tx, i
<1>5. \/ Execute(tx.op, tx.args, Payload(tx.op, tx.sequence)) /\ Mined(tx.request, 1)
      \/ Mined(tx.request, 0) /\ UNCHANGED vars
    BY <1>1 DEF Mine
<1>6. QED
    BY <1>2, <1>4, <1>5

LEMMA ExecuteType ==
    ASSUME TypeOK, NEW op \in ClientOp, NEW args \in Args, NEW n \in Nat, FitArgs(op, args),
           Execute(op, args, Payload(op, n))
    PROVE  TypeOK'
<1>1. Payload(op, n) \in SignedPayload(op)
    BY ClientAssumption, OpTypes DEF Payload, SignedPayload
<1>2. logic \in Logic /\ Self \in Press
    BY ClientAssumption DEF TypeOK, StorageTypeOK
<1>3. args.head \in Cid \cup {Nil}
    BY DEF Args
<1>4. CASE op = "register_card"
  <2>1. args.card \in Card /\ args.cid \in Cid /\ args.policy \in Policy
    BY <1>4 DEF FitArgs, HeadOp
  <2>2. RegisterCard(logic, args.card, args.cid, args.policy, Self, Payload(op, n))
    BY <1>4 DEF Execute
  <2>3. QED
    BY <1>1, <1>2, <1>4, <2>1, <2>2, RegisterCardType
<1>5. CASE op = "update_card_head"
  <2>1. args.card \in Card /\ args.cid \in Cid
    BY <1>5 DEF FitArgs, HeadOp
  <2>2. UpdateCardHead(logic, args.card, args.cid, args.head, Self, Payload(op, n))
    BY <1>5 DEF Execute
  <2>3. QED
    BY <1>1, <1>2, <1>3, <1>5, <2>1, <2>2, UpdateCardHeadType
<1>6. CASE op = "claim_open_offer"
  <2>1. args.card \in Card /\ args.cid \in Cid /\ args.policy \in Policy /\ args.offer \in Offer
    BY <1>6 DEF FitArgs, HeadOp
  <2>2. ClaimOpenOffer(logic, args.offer, DocumentTerms[args.offer].max,
                       DocumentTerms[args.offer].expires, args.card, args.cid,
                       args.policy, Self, Payload(op, n))
    BY <1>6 DEF Execute
  <2>3. DocumentTerms[args.offer].max \in Nat /\ DocumentTerms[args.offer].expires \in Nat
    BY <2>1, ClientAssumption, RegistryAssumption
  <2>4. QED
    BY <1>1, <1>2, <1>6, <2>1, <2>2, <2>3, ClaimOpenOfferType
<1>7. CASE op = "register_sub_card"
  <2>1. args.card \in Card /\ args.sub \in SubCard
    BY <1>7 DEF FitArgs
  <2>2. RegisterSubCard(logic, args.sub, args.card, args.head, Self, Payload(op, n), Nil)
    BY <1>7 DEF Execute
  <2>3. QED
    BY <1>1, <1>2, <1>3, <1>7, <2>1, <2>2, RegisterSubCardType
<1>8. CASE op = "deregister_sub_card"
  <2>1. args.sub \in SubCard
    BY <1>8 DEF FitArgs
  <2>2. DeregisterSubCard(logic, args.sub, Self, Payload(op, n))
    BY <1>8 DEF Execute
  <2>3. QED
    BY <1>1, <1>2, <1>8, <2>1, <2>2, DeregisterSubCardType
<1>9. QED
    BY <1>4, <1>5, <1>6, <1>7, <1>8 DEF ClientOp

LEMMA UnchangedType ==
    ASSUME TypeOK, UNCHANGED vars
    PROVE  TypeOK'
BY NextType

\* What happens elsewhere is a step of the registry.
LEMMA ElsewhereIs ==
    ASSUME TypeOK, Elsewhere
    PROVE  /\ Next /\ UNCHANGED pressLocal
           /\ (\E c \in Card : headLog'[c] # headLog[c]) =>
                 \A c \in Card : headLog'[c] # headLog[c] => cards'[c].head \notin Range(ContentCid)
<1>1. logic \in Logic
    BY DEF TypeOK, StorageTypeOK
<1>2. CASE Tick \/ \E payload \in GovernancePayload, sigs \in SignerList :
                      GovernanceCall(logic, payload, sigs)
    BY <1>1, <1>2, OtherStepFrame DEF Elsewhere, Next
<1>3. CASE \E press \in Press \ {Self} : PressCall(logic, press)
    BY <1>1, <1>3, OtherStepFrame DEF Elsewhere, Next
<1>4. QED
    BY <1>2, <1>3 DEF Elsewhere

LEMMA MineType ==
    ASSUME PressTypeOK, Fitting, Mine
    PROVE  TypeOK'
<1>1. CASE UNCHANGED vars
    BY <1>1, UnchangedType DEF PressTypeOK
<1>2. CASE Execute(inFlight[1].op, inFlight[1].args,
                   Payload(inFlight[1].op, inFlight[1].sequence))
  <2>1. inFlight[1] \in Tx /\ FitArgs(inFlight[1].op, inFlight[1].args)
    BY MineIs DEF Fitting, TxsFit
  <2>2. QED
    BY <1>2, <2>1, ExecuteType DEF PressTypeOK, Tx
<1>3. QED
    BY <1>1, <1>2, MineIs

LEMMA RegistryKeepsType ==
    ASSUME PressTypeOK, Fitting, [PressNext]_pressAll
    PROVE  TypeOK'
<1>1. CASE UNCHANGED vars
    BY <1>1, UnchangedType DEF PressTypeOK
<1>2. CASE Elsewhere
    BY <1>2, ElsewhereIs, NextType DEF PressTypeOK
<1>3. QED
    BY <1>1, <1>2, StepIs, MineType, ClientStepIs
       DEF HandlerStep, StartStep, OfferStep, CrashStep

\* Handlers, offers and content.
LEMMA HandledType ==
    ASSUME HandlerType, NEW i \in Request, NEW h, Handled(i, h)
    PROVE  /\ HandlerType'
           /\ handler'[i] = h /\ \A j \in Request \ {i} : handler'[j] = handler[j]
BY DEF HandlerType, Handled

LEMMA LocalKeepsType ==
    ASSUME PressTypeOK, Fitting, [PressNext]_pressAll
    PROVE  HandlerType' /\ OffersType' /\ PinnedType'
<1>1. HandlerType /\ OffersType /\ PinnedType
    BY DEF PressTypeOK, HandlerType, OffersType, PinnedType
<1>2. ASSUME NEW i \in Request, Published(i) PROVE PinnedType'
  <2>1. handler[i].args.head \in Cid \cup {Nil}
    BY <1>1 DEF HandlerType, Handler, Args
  <2>2. QED
    BY <1>1, <1>2, <2>1 DEF PinnedType, Published
<1>3. ASSUME pinned' = pinned PROVE PinnedType'
    BY <1>1, <1>3 DEF PinnedType
<1>4. ASSUME NEW i \in Request, HandlerStep(i) \/ StartStep(i)
      PROVE  HandlerType' /\ OffersType' /\ PinnedType'
    BY <1>1, <1>2, <1>3, <1>4, HandledType DEF HandlerStep, StartStep
<1>5. CASE CrashStep
  <2>1. ASSUME NEW i \in Request PROVE handler'[i] \in Handler
    <3>1. handler[i] \in Handler
      BY <1>1 DEF HandlerType
    <3>2. [handler[i] EXCEPT !.step = "lost"] \in Handler
      BY <3>1 DEF Handler, Over
    <3>3. QED
      BY <1>5, <3>1, <3>2 DEF CrashStep
  <2>2. HandlerType'
    BY <1>5, <2>1 DEF CrashStep, HandlerType
  <2>3. QED
    BY <1>1, <1>3, <1>5, <2>2 DEF CrashStep, OffersType
<1>6. ASSUME UNCHANGED <<handler, offers, pinned>> PROVE HandlerType' /\ OffersType' /\ PinnedType'
    BY <1>1, <1>6 DEF HandlerType, OffersType, PinnedType
<1>7. CASE OfferStep
    BY <1>1, <1>3, <1>7 DEF OfferStep, HandlerType
<1>8. QED
    BY <1>4, <1>5, <1>6, <1>7, StepIs DEF Elsewhere, pressLocal

\* Calls and transactions.
LEMMA CallChanged ==
    ASSUME CallType, NEW i \in Request, NEW d, call' = [call EXCEPT ![i] = d]
    PROVE  /\ d \in Call => CallType'
           /\ call'[i] = d /\ \A j \in Request \ {i} : call'[j] = call[j]
BY DEF CallType

LEMMA TransactionType ==
    ASSUME CallType, NEW i \in Request
    PROVE  /\ Transaction(i) \in Tx
           /\ Transaction(i).request = i
           /\ Transaction(i).op = call[i].op /\ Transaction(i).args = call[i].args
BY DEF CallType, Call, Transaction, Tx

LEMMA CallsKeepType ==
    ASSUME PressTypeOK, Fitting, [PressNext]_pressAll
    PROVE  CallType' /\ inFlight' \in Seq(Tx)
<1>1. CallType /\ inFlight \in Seq(Tx)
    BY DEF PressTypeOK, ClientTypeOK, CallType
<1>2. ASSUME UNCHANGED <<call, inFlight>> PROVE CallType' /\ inFlight' \in Seq(Tx)
    BY <1>1, <1>2 DEF CallType
<1>3. ASSUME NEW i \in Request, StartStep(i) PROVE CallType' /\ inFlight' \in Seq(Tx)
  <2>1. PICK op, args : Started(i, op, args)
    BY <1>3 DEF StartStep
  <2>2. NewCall(op, args) \in Call
    BY <2>1, NewCallType DEF Started
  <2>3. call' = [call EXCEPT ![i] = NewCall(op, args)] /\ inFlight' = inFlight
    BY <1>3, <2>1 DEF StartStep, Started
  <2>4. QED
    BY <1>1, <2>2, <2>3, CallChanged
<1>4. ASSUME NEW i \in Request, ClientStep(i) PROVE CallType' /\ inFlight' \in Seq(Tx)
  <2>1. PICK d : /\ call' = [call EXCEPT ![i] = d]
                 /\ \/ (CallGoesOn(call[i], d) \/ CallIsCaught(call[i], d)) /\ inFlight' = inFlight
                    \/ CallIsSent(call[i], d) /\ inFlight' = Append(inFlight, Transaction(i))
    BY <1>4, ClientStepIs
  <2>2. d \in Call
    BY <2>1 DEF CallGoesOn, CallIsCaught, CaughtAs, CallIsSent
  <2>3. Append(inFlight, Transaction(i)) \in Seq(Tx)
    BY <1>1, TransactionType
  <2>4. QED
    BY <1>1, <2>1, <2>2, <2>3, CallChanged
<1>5. CASE Mine
  <2>1. PICK i \in Request, d \in Call :
            call' = [call EXCEPT ![i] = d] /\ inFlight # <<>> /\ inFlight' = Tail(inFlight)
    BY <1>5, MineIs DEF MinedFor
  <2>2. Tail(inFlight) \in Seq(Tx)
    BY <1>1, <2>1
  <2>3. QED
    BY <1>1, <2>1, <2>2, CallChanged
<1>6. QED
    BY <1>2, <1>3, <1>4, <1>5, StepIs
       DEF HandlerStep, OfferStep, CrashStep, Elsewhere, pressLocal

LEMMA KeepsPressType ==
    ASSUME PressTypeOK, Fitting, [PressNext]_pressAll
    PROVE  PressTypeOK'
BY RegistryKeepsType, LocalKeepsType, CallsKeepType
   DEF PressTypeOK, ClientTypeOK, HandlerType, OffersType, PinnedType, CallType

\* The shapes are kept.
LEMMA HandlersStayFit ==
    ASSUME PressTypeOK, Fitting, [PressNext]_pressAll
    PROVE  HandlersFit'
<1>1. CallType /\ HandlerType /\ HandlersFit
    BY DEF PressTypeOK, ClientTypeOK, CallType, HandlerType, Fitting
<1>2. ASSUME NEW i \in Request, HandlerStep(i) PROVE HandlersFit'
  <2>1. PICK h : Handled(i, h)
    BY <1>2 DEF HandlerStep
  <2>2. handler'[i] = h /\ \A j \in Request \ {i} : handler'[j] = handler[j]
    BY <1>1, <2>1, HandledType
  <2>3. FitHandler(h) /\ (h.step \in Before => handler[i].step \in Before) /\ call' = call
    BY <1>2, <2>1 DEF Handled, HandlerStep
  <2>4. ASSUME NEW j \in Request
        PROVE  FitHandler(handler'[j]) /\ (handler'[j].step \in Before => call'[j].phase = "none")
    BY <1>1, <2>2, <2>3 DEF HandlersFit
  <2>5. QED
    BY <2>4 DEF HandlersFit, FitHandler
<1>3. ASSUME NEW i \in Request, StartStep(i) PROVE HandlersFit'
  <2>1. PICK h : Handled(i, h) /\ h.step = "call"
    BY <1>3 DEF StartStep
  <2>2. handler'[i] = h /\ \A j \in Request \ {i} : handler'[j] = handler[j]
    BY <1>1, <2>1, HandledType
  <2>3. FitHandler(h) /\ h.step \notin Before
    BY <2>1 DEF Handled, Before
  <2>4. \A j \in Request \ {i} : call'[j] = call[j]
    BY <1>1, <1>3, CallChanged DEF StartStep, Started
  <2>5. ASSUME NEW j \in Request
        PROVE  FitHandler(handler'[j]) /\ (handler'[j].step \in Before => call'[j].phase = "none")
    BY <1>1, <2>2, <2>3, <2>4 DEF HandlersFit
  <2>6. QED
    BY <2>5 DEF HandlersFit, FitHandler
<1>4. ASSUME handler' = handler,
             \A j \in Request : call[j].phase = "none" => call'[j].phase = "none"
      PROVE  HandlersFit'
    BY <1>1, <1>4 DEF HandlersFit, FitHandler
<1>5. ASSUME NEW i \in Request, ClientStep(i), handler' = handler PROVE HandlersFit'
  <2>1. PICK d : /\ call' = [call EXCEPT ![i] = d]
                 /\ CallGoesOn(call[i], d) \/ CallIsCaught(call[i], d) \/ CallIsSent(call[i], d)
    BY <1>1, <1>5, ClientStepIs
  <2>2. call[i].phase # "none"
    BY <2>1 DEF CallGoesOn, CallIsCaught, CallIsSent
  <2>3. QED
    BY <1>1, <1>4, <1>5, <2>1, <2>2, CallChanged
<1>6. CASE Mine /\ handler' = handler
  <2>1. PICK i \in Request, d \in Call : call' = [call EXCEPT ![i] = d] /\ d.phase = call[i].phase
    BY <1>6, MineIs DEF MinedFor
  <2>2. QED
    BY <1>1, <1>4, <1>6, <2>1, CallChanged
<1>7. CASE CrashStep
  <2>1. ASSUME NEW i \in Request
        PROVE  FitHandler(handler'[i]) /\ (handler'[i].step \in Before => call'[i].phase = "none")
    <3> DEFINE g == handler[i]
               h == [g EXCEPT !.step = "lost"]
    <3>1. g \in Handler /\ FitHandler(g) /\ (g.step \in Before => call[i].phase = "none")
      BY <1>1 DEF HandlerType, HandlersFit
    <3>2. h.step = "lost" /\ h.kind = g.kind /\ h.args = g.args /\ h.target = g.target
      BY <3>1 DEF Handler
    <3>3. (handler'[i] = g \/ handler'[i] = h) /\ call' = call
      BY <1>7 DEF CrashStep
    <3> HIDE DEF g, h
    <3>4. FitHandler(h) /\ h.step \notin Before
      BY <3>1, <3>2 DEF FitHandler, Before
    <3>5. QED
      BY <3>1, <3>3, <3>4
  <2>2. QED
    BY <2>1 DEF HandlersFit, FitHandler
<1>8. CASE OfferStep \/ Elsewhere
    BY <1>4, <1>8 DEF OfferStep, Elsewhere, pressLocal
<1>9. QED
    BY <1>2, <1>3, <1>5, <1>6, <1>7, <1>8, StepIs

LEMMA CallsStayFit ==
    ASSUME PressTypeOK, Fitting, [PressNext]_pressAll
    PROVE  CallsFit' /\ TxsFit'
<1>1. CallType /\ CallsFit /\ TxsFit /\ inFlight \in Seq(Tx)
    BY DEF PressTypeOK, ClientTypeOK, CallType, Fitting
<1>2. ASSUME NEW i \in Request, NEW d, call' = [call EXCEPT ![i] = d],
             d.phase # "none" => FitArgs(d.op, d.args),
             d.phase = "head" => d.op = "update_card_head"
      PROVE  CallsFit'
  <2>1. call'[i] = d /\ \A j \in Request \ {i} : call'[j] = call[j]
    BY <1>1, <1>2, CallChanged
  <2>2. ASSUME NEW j \in Request
        PROVE  /\ call'[j].phase # "none" => FitArgs(call'[j].op, call'[j].args)
               /\ call'[j].phase = "head" => call'[j].op = "update_card_head"
    BY <1>1, <1>2, <2>1 DEF CallsFit
  <2>3. QED
    BY <2>2 DEF CallsFit, FitArgs
<1>3. ASSUME call' = call PROVE CallsFit'
    BY <1>1, <1>3 DEF CallsFit, FitArgs
<1>4. ASSUME inFlight' = inFlight PROVE TxsFit'
    BY <1>1, <1>4 DEF TxsFit, FitArgs
<1>5. ASSUME NEW i \in Request, StartStep(i) PROVE CallsFit' /\ TxsFit'
  <2>1. PICK op, args : Started(i, op, args)
    BY <1>5 DEF StartStep
  <2>2. /\ call' = [call EXCEPT ![i] = NewCall(op, args)] /\ FitArgs(op, args)
        /\ NewCall(op, args).phase = "sequence" /\ NewCall(op, args).op = op
        /\ NewCall(op, args).args = args
    BY <2>1, NewCallType DEF Started
  <2>3. inFlight' = inFlight
    BY <1>5 DEF StartStep
  <2>4. QED
    BY <1>2, <1>4, <2>2, <2>3
<1>6. ASSUME NEW i \in Request, ClientStep(i) PROVE CallsFit' /\ TxsFit'
  <2>1. PICK d : /\ call' = [call EXCEPT ![i] = d]
                 /\ \/ (CallGoesOn(call[i], d) \/ CallIsCaught(call[i], d)) /\ inFlight' = inFlight
                    \/ CallIsSent(call[i], d) /\ inFlight' = Append(inFlight, Transaction(i))
    BY <1>6, ClientStepIs
  <2>2. call[i].phase # "none" => FitArgs(call[i].op, call[i].args)
    BY <1>1 DEF CallsFit
  <2>3. /\ d.phase # "none" => FitArgs(d.op, d.args)
        /\ d.phase = "head" => d.op = "update_card_head"
    <3>1. CASE CallGoesOn(call[i], d)
      BY <2>2, <3>1 DEF CallGoesOn
    <3>2. CASE CallIsCaught(call[i], d)
      BY <2>2, <3>2 DEF CallIsCaught, CaughtAs
    <3>3. CASE CallIsSent(call[i], d)
      BY <2>2, <3>3 DEF CallIsSent
    <3>4. QED
      BY <2>1, <3>1, <3>2, <3>3
  <2>4. CASE CallIsSent(call[i], d) /\ inFlight' = Append(inFlight, Transaction(i))
    <3>1. FitArgs(call[i].op, call[i].args)
      BY <2>2, <2>4 DEF CallIsSent
    <3> DEFINE tx == Transaction(i)
    <3>2. tx \in Tx /\ tx.op = call[i].op /\ tx.args = call[i].args
      BY <1>1, TransactionType
    <3> HIDE DEF tx
    <3>3. inFlight' = Append(inFlight, tx)
      BY <2>4 DEF tx
    <3>4. ASSUME NEW k \in 1..Len(inFlight') PROVE FitArgs(inFlight'[k].op, inFlight'[k].args)
      <4>1. inFlight'[k] = tx \/ (k \in 1..Len(inFlight) /\ inFlight'[k] = inFlight[k])
        BY <1>1, <3>2, <3>3
      <4>2. QED
        BY <1>1, <3>1, <3>2, <4>1 DEF TxsFit
    <3>5. TxsFit'
      BY <3>4 DEF TxsFit, FitArgs
    <3>6. QED
      BY <1>2, <2>1, <2>3, <3>5
  <2>5. QED
    BY <1>2, <1>4, <2>1, <2>3, <2>4
<1>7. CASE Mine
  <2>1. PICK i \in Request, d \in Call :
            /\ call' = [call EXCEPT ![i] = d] /\ inFlight # <<>> /\ inFlight' = Tail(inFlight)
            /\ d.phase = call[i].phase /\ d.op = call[i].op /\ d.args = call[i].args
    BY <1>7, MineIs DEF MinedFor
  <2>2. CallsFit'
    BY <1>1, <1>2, <2>1 DEF CallsFit
  <2>3. ASSUME NEW k \in 1..Len(inFlight') PROVE FitArgs(inFlight'[k].op, inFlight'[k].args)
    <3>1. inFlight'[k] = inFlight[k + 1] /\ k + 1 \in 1..Len(inFlight)
      BY <1>1, <2>1
    <3>2. QED
      BY <1>1, <3>1 DEF TxsFit
  <2>4. TxsFit'
    BY <2>3 DEF TxsFit, FitArgs
  <2>5. QED
    BY <2>2, <2>4
<1>8. QED
    BY <1>3, <1>4, <1>5, <1>6, <1>7, StepIs
       DEF HandlerStep, OfferStep, CrashStep, Elsewhere, pressLocal

-----------------------------------------------------------------------------
(* The initial state                                                        *)

LEMMA PressInitType == PressInit => PressTypeOK
<1> SUFFICES ASSUME PressInit PROVE PressTypeOK
    OBVIOUS
<1>1. PICK l \in Logic, k \in Key :
          logic = l /\ keysets = [b \in Body |-> [keys |-> <<k>>, quorum |-> 1, version |-> 0]]
    BY DEF PressInit
<1>2. keysets \in [Body -> Keyset] /\ logic \in Logic
  <2>1. [keys |-> <<k>>, quorum |-> 1, version |-> 0] \in Keyset
    BY DEF Keyset
  <2>2. QED
    BY <1>1, <2>1
<1>3. cards \in [Card -> CardEntry]
  <2>1. NoCard \in CardEntry
    BY DEF NoCard, CardEntry
  <2>2. [exists |-> TRUE, head |-> FounderCid, policy |-> FounderPolicy, lastPress |-> Self,
         forward |-> Nil] \in CardEntry
    BY PressAssumption, ClientAssumption DEF CardEntry
  <2>3. QED
    BY <2>1, <2>2 DEF PressInit
<1>4. auth \in [Policy \X Press -> PressAuthEntry]
    BY ClientAssumption DEF PressInit, PressAuthEntry
<1>5. headLog \in [Card -> Seq(SUBSET HeadEvent)]
  <2> DEFINE log == <<{[prev |-> Nil, new |-> FounderCid]}>>
  <2>1. [prev |-> Nil, new |-> FounderCid] \in HeadEvent
    BY PressAssumption DEF HeadEvent
  <2>2. log \in Seq(SUBSET HeadEvent)
    BY <2>1
  <2>3. headLog = [c \in Card |-> IF c = Founder THEN log ELSE <<>>]
    BY DEF PressInit
  <2> HIDE DEF log
  <2>4. QED
    BY <2>2, <2>3
<1>6. gateLog \in [Policy \X Press -> Seq(GateEvent)]
  <2> DEFINE e == [epoch |-> 1, op |-> "register_card", sequence |-> 0, signer |-> SelfKey]
  <2>1. e \in GateEvent
    BY ClientAssumption DEF GateEvent, PressOp
  <2>2. gateLog = [a \in Policy \X Press |->
                      IF a = <<FounderPolicy, Self>> THEN <<e>> ELSE <<>>]
    BY DEF PressInit
  <2> HIDE DEF e
  <2>3. <<e>> \in Seq(GateEvent)
    BY <2>1
  <2>4. QED
    BY <2>2, <2>3
<1>7. subCards \in [SubCard -> SubCardEntry] /\ pendingLogic \in PendingUpgrade
           /\ domains \in [Domain -> DomainEntry]
    BY DEF PressInit, NoSubCard, SubCardEntry, NoUpgrade, PendingUpgrade, NoDomain,
       DomainEntry
<1>8. /\ policies \subseteq Policy /\ deleteDisabled \in BOOLEAN
      /\ offerCounts \in [Offer -> Nat] /\ usedNonces \subseteq Nonce
      /\ policyAddresses \in [Domain \X Path -> Card \cup {Nil}]
      /\ adminKeys \in [Card -> Key \cup {Nil}] /\ dnsPolicy \in Policy \cup {Nil}
      /\ now \in Nat /\ epoch \in [Policy \X Press -> Nat]
      /\ claims \in [Offer -> SUBSET Claim]
    BY DEF PressInit
<1>9. TypeOK
    BY <1>2, <1>3, <1>4, <1>5, <1>6, <1>7, <1>8 DEF TypeOK, StorageTypeOK
<1>10. ClientTypeOK
  <2>1. NoCall \in Call
    BY NoArgsType DEF NoCall, Call, ClientOp
  <2>2. QED
    BY <2>1 DEF PressInit, ClientInit, ClientTypeOK
<1>11. HandlerType
  <2>1. NoHandler \in Handler
    BY NoArgsType DEF NoHandler, Handler
  <2>2. QED
    BY <2>1 DEF PressInit, HandlerType
<1>12. OffersType /\ PinnedType
    BY DEF PressInit, OffersType, PinnedType
<1>13. QED
    BY <1>9, <1>10, <1>11, <1>12 DEF PressTypeOK, HandlerType, OffersType, PinnedType

LEMMA PressInitFits == PressInit => Fitting
<1> SUFFICES ASSUME PressInit PROVE Fitting
    OBVIOUS
<1>1. NoCall.phase = "none" /\ NoHandler.step = "new" /\ NoHandler.kind = "none"
    BY DEF NoCall, NoHandler
<1>2. \A i \in Request : call[i] = NoCall /\ handler[i] = NoHandler
    BY DEF PressInit, ClientInit
<1>3. inFlight = <<>>
    BY DEF PressInit, ClientInit
<1>4. HandlersFit
    BY <1>1, <1>2 DEF HandlersFit, FitHandler
<1>5. CallsFit
    BY <1>1, <1>2 DEF CallsFit
<1>6. TxsFit
    BY <1>3 DEF TxsFit
<1>7. QED
    BY <1>4, <1>5, <1>6 DEF Fitting

PressInv == PressTypeOK /\ Fitting

LEMMA PressInvHolds == PressSpec => []PressInv
<1>1. PressInit => PressInv
    BY PressInitType, PressInitFits DEF PressInv
<1>2. PressInv /\ [PressNext]_pressAll => PressInv'
    BY KeepsPressType, HandlersStayFit, CallsStayFit DEF PressInv, Fitting
<1>3. QED
    BY <1>1, <1>2, PTL DEF PressSpec

\* Type correctness of the press and the registry under it, which rests on every
\* call and every transaction, in flight for however long, being about cards,
\* content and policies that exist.
THEOREM PressTypeCorrect == PressSpec => []PressTypeOK
<1>1. PressInv => PressTypeOK
    BY DEF PressInv
<1>2. QED
    BY <1>1, PressInvHolds, PTL

-----------------------------------------------------------------------------
(* RetriesAreSafe.  The strengthening: nothing was sent for a call that may    *)
(* still send, so that at most one transaction of a request is ever under way. *)

FlyingIn(s, i) == \E k \in 1..Len(s) : s[k].request = i
OneIn(s, i) == \A j, k \in 1..Len(s) : s[j].request = i /\ s[k].request = i => j = k
LostRace == {"SEQUENCE_MISMATCH", "STALE_PREV_CID"}

RetryOK(c, s, i) ==
    /\ c.phase \in {"none", "head", "sequence", "send"} => c.written = 0 /\ ~FlyingIn(s, i)
    /\ c.phase # "failed" => c.error = "none"
    /\ FlyingIn(s, i) => c.written = 0
    /\ c.written \in {0, 1}
    /\ c.error \in LostRace => c.written = 0 /\ ~FlyingIn(s, i)
    /\ OneIn(s, i)

RetryInv == \A i \in Request : RetryOK(call[i], inFlight, i)

LEMMA FlightSent ==
    ASSUME NEW s \in Seq(Tx), NEW tx \in Tx, ~FlyingIn(s, tx.request), NEW i
    PROVE  /\ i # tx.request /\ FlyingIn(Append(s, tx), i) => FlyingIn(s, i)
           /\ OneIn(s, i) => OneIn(Append(s, tx), i)
<1> DEFINE t == Append(s, tx)
<1>1. ASSUME NEW k \in 1..Len(t)
      PROVE  (k \in 1..Len(s) /\ t[k] = s[k]) \/ (k = Len(s) + 1 /\ t[k] = tx)
  <2>1. Len(t) = Len(s) + 1 /\ Len(s) \in Nat /\ t[Len(s) + 1] = tx
    OBVIOUS
  <2>2. k \in 1..Len(s) => t[k] = s[k]
    OBVIOUS
  <2> HIDE DEF t
  <2>3. CASE k \in 1..Len(s)
    BY <2>2, <2>3
  <2>4. CASE k = Len(s) + 1
    BY <2>1, <2>4
  <2>5. k \in 1..Len(s) \/ k = Len(s) + 1
    BY <2>1
  <2>6. QED
    BY <2>3, <2>4, <2>5
<1> HIDE DEF t
<1>2. i # tx.request /\ FlyingIn(t, i) => FlyingIn(s, i)
    BY <1>1 DEF FlyingIn
<1>3. OneIn(s, i) => OneIn(t, i)
    BY <1>1 DEF FlyingIn, OneIn
<1>4. QED
    BY <1>2, <1>3 DEF t

LEMMA FlightMined ==
    ASSUME NEW s \in Seq(Tx), s # <<>>, NEW i
    PROVE  /\ FlyingIn(s, s[1].request)
           /\ FlyingIn(Tail(s), i) => FlyingIn(s, i)
           /\ OneIn(s, i) => OneIn(Tail(s), i)
           /\ OneIn(s, i) /\ i = s[1].request => ~FlyingIn(Tail(s), i)
<1> DEFINE t == Tail(s)
<1>1. 1 \in 1..Len(s) /\ \A k \in 1..Len(t) : k + 1 \in 1..Len(s) /\ t[k] = s[k + 1] /\ k \in Nat
    OBVIOUS
<1> HIDE DEF t
<1>2. FlyingIn(t, i) => FlyingIn(s, i)
    BY <1>1 DEF FlyingIn
<1>3. OneIn(s, i) => OneIn(t, i)
  <2> SUFFICES ASSUME OneIn(s, i), NEW j \in 1..Len(t), NEW k \in 1..Len(t),
                      t[j].request = i, t[k].request = i
               PROVE  j = k
    BY DEF OneIn
  <2>1. j + 1 = k + 1
    BY <1>1 DEF OneIn
  <2>2. QED
    BY <1>1, <2>1
<1>4. ASSUME OneIn(s, i), i = s[1].request, FlyingIn(t, i) PROVE FALSE
  <2>1. PICK k \in 1..Len(t) : t[k].request = i
    BY <1>4 DEF FlyingIn
  <2>2. k + 1 = 1 /\ k \in Nat /\ k > 0
    BY <1>1, <1>4, <2>1 DEF OneIn
  <2>3. QED
    BY <2>2
<1>5. QED
    BY <1>1, <1>2, <1>3, <1>4 DEF t, FlyingIn

LEMMA KeepsRetryInv ==
    ASSUME PressInv, RetryInv, [PressNext]_pressAll
    PROVE  RetryInv'
<1>1. PressTypeOK /\ Fitting /\ CallType /\ inFlight \in Seq(Tx)
    BY DEF PressInv, PressTypeOK, ClientTypeOK, CallType
<1>2. ASSUME \A i \in Request : RetryOK(call'[i], inFlight', i) PROVE RetryInv'
    BY <1>2 DEF RetryInv, RetryOK, FlyingIn, OneIn
<1>3. ASSUME UNCHANGED <<call, inFlight>> PROVE RetryInv'
    BY <1>2, <1>3 DEF RetryInv
<1>4. ASSUME NEW i \in Request, StartStep(i) PROVE RetryInv'
  <2>1. PICK op, args : Started(i, op, args)
    BY <1>4 DEF StartStep
  <2>2. call' = [call EXCEPT ![i] = NewCall(op, args)] /\ inFlight' = inFlight
    BY <1>4, <2>1 DEF StartStep, Started
  <2>3. call[i].phase = "none"
    BY <1>1, <2>1 DEF Started, Fitting, HandlersFit
  <2>4. RetryOK(call[i], inFlight, i)
    BY DEF RetryInv
  <2>5. RetryOK(NewCall(op, args), inFlight, i)
    BY <2>1, <2>3, <2>4, NewCallType DEF RetryOK, Started, LostRace
  <2>6. QED
    BY <1>1, <1>2, <2>2, <2>5, CallChanged DEF RetryInv
<1>5. ASSUME NEW i \in Request, ClientStep(i) PROVE RetryInv'
  <2>1. PICK d : /\ call' = [call EXCEPT ![i] = d]
                 /\ \/ (CallGoesOn(call[i], d) \/ CallIsCaught(call[i], d)) /\ inFlight' = inFlight
                    \/ CallIsSent(call[i], d) /\ inFlight' = Append(inFlight, Transaction(i))
    BY <1>1, <1>5, ClientStepIs
  <2>2. RetryOK(call[i], inFlight, i)
    BY DEF RetryInv
  <2>3. CASE CallGoesOn(call[i], d) /\ inFlight' = inFlight
    <3>1. RetryOK(d, inFlight, i)
      BY <2>2, <2>3 DEF RetryOK, CallGoesOn, LostRace
    <3>2. QED
      BY <1>1, <1>2, <2>1, <2>3, <3>1, CallChanged DEF RetryInv
  <2>4. CASE CallIsCaught(call[i], d) /\ inFlight' = inFlight
    <3>1. PICK error \in {"SEQUENCE_MISMATCH", "STALE_PREV_CID", "other", "timeout"} :
              /\ CaughtAs(call[i], d, error)
              /\ error \in LostRace => call[i].phase = "send"
              /\ call[i].phase \in {"head", "sequence", "send", "wait"}
      BY <2>4 DEF CallIsCaught, LostRace
    <3>2. CASE d.phase = "failed" /\ d.error = error
      BY <1>1, <1>2, <2>1, <2>2, <2>4, <3>1, <3>2, CallChanged
      DEF RetryInv, RetryOK, CaughtAs
    <3>3. CASE d.phase \in {"sequence", "head"} /\ d.error = call[i].error /\ error \in LostRace
      BY <1>1, <1>2, <2>1, <2>2, <2>4, <3>1, <3>3, CallChanged
         DEF RetryInv, RetryOK, CaughtAs, LostRace
    <3>4. QED
      BY <3>1, <3>2, <3>3 DEF CaughtAs, LostRace
  <2>5. CASE CallIsSent(call[i], d) /\ inFlight' = Append(inFlight, Transaction(i))
    <3> DEFINE tx == Transaction(i)
    <3>1. tx \in Tx /\ tx.request = i /\ inFlight' = Append(inFlight, tx)
      BY <1>1, <2>5, TransactionType
    <3>2. ~FlyingIn(inFlight, i) /\ call[i].error = "none" /\ call[i].written = 0
      BY <2>2, <2>5 DEF RetryOK, CallIsSent
    <3> HIDE DEF tx
    <3>3. \A j \in Request : /\ j # i /\ FlyingIn(inFlight', j) => FlyingIn(inFlight, j)
                             /\ OneIn(inFlight, j) => OneIn(inFlight', j)
      BY <1>1, <3>1, <3>2, FlightSent
    <3>4. RetryOK(d, inFlight', i)
      BY <2>2, <2>5, <3>2, <3>3 DEF RetryOK, CallIsSent, LostRace
    <3>5. ASSUME NEW j \in Request \ {i} PROVE RetryOK(call'[j], inFlight', j)
      <4>1. call'[j] = call[j]
        BY <1>1, <2>1, CallChanged
      <4>2. QED
        BY <3>3, <4>1 DEF RetryInv, RetryOK
    <3>6. QED
      BY <1>1, <1>2, <2>1, <3>4, <3>5, CallChanged
  <2>6. QED
    BY <2>1, <2>3, <2>4, <2>5
<1>6. CASE Mine
  <2>1. PICK effect \in {0, 1} : MinedFor(inFlight[1].request, effect)
    BY <1>1, <1>6, MineIs
  <2> DEFINE i == inFlight[1].request
  <2>2. /\ inFlight # <<>> /\ i \in Request /\ inFlight' = Tail(inFlight)
        /\ \E d \in Call :
              /\ call' = [call EXCEPT ![i] = d]
              /\ d.phase = call[i].phase /\ d.op = call[i].op /\ d.args = call[i].args
              /\ d.error = call[i].error /\ d.written = call[i].written + effect
    BY <2>1 DEF MinedFor
  <2>3. PICK d \in Call : /\ call' = [call EXCEPT ![i] = d]
                          /\ d.phase = call[i].phase /\ d.error = call[i].error
                          /\ d.written = call[i].written + effect
    BY <2>2
  <2>4. /\ FlyingIn(inFlight, i)
        /\ \A j \in Request : /\ FlyingIn(inFlight', j) => FlyingIn(inFlight, j)
                              /\ OneIn(inFlight, j) => OneIn(inFlight', j)
                              /\ OneIn(inFlight, j) /\ j = i => ~FlyingIn(inFlight', j)
    BY <1>1, <2>2, FlightMined
  <2> HIDE DEF i
  <2>5. RetryOK(d, inFlight', i)
    BY <2>2, <2>3, <2>4 DEF RetryInv, RetryOK
  <2>6. ASSUME NEW j \in Request \ {i} PROVE RetryOK(call'[j], inFlight', j)
    <3>1. call'[j] = call[j]
      BY <1>1, <2>2, <2>3, CallChanged
    <3>2. QED
      BY <2>4, <3>1 DEF RetryInv, RetryOK
  <2>7. QED
    BY <1>1, <1>2, <2>2, <2>3, <2>5, <2>6, CallChanged
<1>7. QED
    BY <1>1, <1>3, <1>4, <1>5, <1>6, StepIs
       DEF HandlerStep, OfferStep, CrashStep, Elsewhere, pressLocal

\* What the invariant says in numbers.
LEMMA InFlightCount ==
    ASSUME inFlight \in Seq(Tx), NEW i
    PROVE  /\ ~FlyingIn(inFlight, i) => InFlightOf(i) = 0
           /\ OneIn(inFlight, i) => InFlightOf(i) \in {0, 1}
<1> DEFINE S == {k \in DOMAIN inFlight : inFlight[k].request = i}
<1>1. DOMAIN inFlight = 1..Len(inFlight)
    OBVIOUS
<1>2. ~FlyingIn(inFlight, i) => S = {}
    BY <1>1 DEF FlyingIn
<1>3. ASSUME OneIn(inFlight, i), FlyingIn(inFlight, i) PROVE \E k : S = {k}
    BY <1>1, <1>3 DEF OneIn, FlyingIn
<1>4. InFlightOf(i) = Cardinality(S)
    BY DEF InFlightOf
<1> HIDE DEF S
<1>5. S = {} => Cardinality(S) = 0
    BY FS_EmptySet
<1>6. ASSUME NEW k, S = {k} PROVE Cardinality(S) = 1
    BY <1>6, FS_Singleton
<1>7. QED
    BY <1>2, <1>3, <1>4, <1>5, <1>6

LEMMA RetryInvIsSafe ==
    ASSUME PressInv, RetryInv
    PROVE  RetriesAreSafe
<1> SUFFICES ASSUME NEW i \in Request
             PROVE  /\ call[i].written + InFlightOf(i) <= 1
                    /\ call[i].error \in LostRace => call[i].written + InFlightOf(i) = 0
    BY DEF RetriesAreSafe, LostRace
<1>1. RetryOK(call[i], inFlight, i)
    BY DEF RetryInv
<1>2. /\ ~FlyingIn(inFlight, i) => InFlightOf(i) = 0
      /\ InFlightOf(i) \in {0, 1}
    BY <1>1, InFlightCount DEF PressInv, PressTypeOK, ClientTypeOK, RetryOK
<1>3. QED
    BY <1>1, <1>2 DEF RetryOK

LEMMA PressInitRetry == PressInit => RetryInv
<1> SUFFICES ASSUME PressInit, NEW i \in Request PROVE RetryOK(call[i], inFlight, i)
    BY DEF RetryInv
<1>1. call[i] = NoCall /\ inFlight = <<>>
    BY DEF PressInit, ClientInit
<1>2. NoCall.phase = "none" /\ NoCall.error = "none" /\ NoCall.written = 0
    BY DEF NoCall
<1>3. ~FlyingIn(<<>>, i) /\ OneIn(<<>>, i)
    BY DEF FlyingIn, OneIn
<1>4. QED
    BY <1>1, <1>2, <1>3 DEF RetryOK, LostRace

\* A request takes effect at most once, for any number of requests, retries and
\* presses: through lost answers, timeouts and crashes it never has two
\* transactions that could both land, and one answered with a lost race has none.
THEOREM RetriesNeverDouble == PressSpec => []RetriesAreSafe
BY PressInvHolds, PressInitRetry, KeepsRetryInv, RetryInvIsSafe, PTL DEF PressSpec

-----------------------------------------------------------------------------
(* LogMatchesChain, when the name of a stale head never reaches the client.   *)
(* Then a call never changes what it is about, and what a request has pinned  *)
(* names the head that its transaction replaces.                            *)

\* What a call is about, and what was pinned for it, stay.
Settled(i) ==
    call[i].phase # "none" =>
        /\ call'[i].phase # "none" /\ call'[i].op = call[i].op /\ call'[i].args = call[i].args
        /\ pinned'[ContentCid[i]] = pinned[ContentCid[i]]

\* The pinned entry names the head the call builds on.
PublishedOK(i) ==
    call[i].phase # "none" /\ call[i].op \in HeadOp =>
        /\ call[i].args.cid = ContentCid[i]
        /\ pinned[ContentCid[i]] = call[i].args.head
        /\ call[i].op # "update_card_head" => call[i].args.head = Nil

SentAs(tx) ==
    /\ call[tx.request].phase # "none"
    /\ tx.op = call[tx.request].op /\ tx.args = call[tx.request].args

\* An event of this press comes from a call, and its entry names the right root.
EventOK(n, e) ==
    \A i \in Request : e.new = ContentCid[i] =>
        /\ call[i].phase # "none" /\ call[i].op \in HeadOp
        /\ pinned[ContentCid[i]] = IF n = 1 THEN Nil ELSE e.prev

LogInv ==
    /\ \A i \in Request : call[i].phase # "head" /\ PublishedOK(i)
    /\ \A k \in 1..Len(inFlight) : SentAs(inFlight[k])
    /\ \A c \in Card : \A n \in 1..Len(headLog[c]) : \A e \in headLog[c][n] : EventOK(n, e)

LEMMA OwnCids ==
    ASSUME NEW i \in Request, NEW j \in Request, ContentCid[i] = ContentCid[j]
    PROVE  i = j
BY PressAssumption DEF IsInjective

LEMMA StepSettles ==
    ASSUME PressInv, LogInv, [PressNext]_pressAll, NEW i \in Request
    PROVE  Settled(i)
<1>1. PressTypeOK /\ Fitting /\ CallType /\ pinned \in [Cid -> {"no", Nil} \cup Cid]
    BY DEF PressInv, PressTypeOK, ClientTypeOK, CallType
<1>2. ContentCid[i] \in Cid /\ call[i].phase # "head"
    BY PressAssumption DEF LogInv
<1>3. ASSUME NEW j \in Request, Published(j), call[i].phase # "none"
      PROVE  pinned'[ContentCid[i]] = pinned[ContentCid[i]]
  <2>1. call[j].phase = "none"
    BY <1>1, <1>3 DEF Published, Fitting, HandlersFit, Before
  <2>2. ContentCid[i] # ContentCid[j]
    BY <1>3, <2>1, OwnCids
  <2>3. QED
    BY <1>1, <1>2, <1>3, <2>2 DEF Published
<1>4. ASSUME NEW j \in Request, HandlerStep(j) PROVE Settled(i)
    BY <1>3, <1>4 DEF HandlerStep, Settled
<1>5. ASSUME NEW j \in Request, StartStep(j) PROVE Settled(i)
  <2>1. PICK op, args : Started(j, op, args) /\ (pinned' = pinned \/ Published(j))
    BY <1>5 DEF StartStep
  <2>2. call[j].phase = "none" /\ call' = [call EXCEPT ![j] = NewCall(op, args)]
    BY <1>1, <2>1 DEF Started, Fitting, HandlersFit
  <2>3. call[i].phase # "none" => call'[i] = call[i]
    BY <1>1, <2>2, CallChanged
  <2>4. QED
    BY <1>3, <2>1, <2>3 DEF Settled
<1>6. ASSUME NEW j \in Request, ClientStep(j), UNCHANGED <<handler, offers, pinned>>
      PROVE  Settled(i)
  <2>1. PICK d : /\ call' = [call EXCEPT ![j] = d]
                 /\ CallGoesOn(call[j], d) \/ CallIsCaught(call[j], d) \/ CallIsSent(call[j], d)
    BY <1>1, <1>6, ClientStepIs
  <2>2. i # j => call'[i] = call[i]
    BY <1>1, <2>1, CallChanged
  <2>3. call'[j] = d
    BY <1>1, <2>1, CallChanged
  <2>4. i = j => d.phase # "none" /\ d.op = call[i].op /\ d.args = call[i].args
    BY <1>2, <2>1 DEF CallGoesOn, CallIsCaught, CallIsSent, CaughtAs
  <2>5. QED
    BY <1>6, <2>2, <2>3, <2>4 DEF Settled
<1>7. CASE Mine /\ UNCHANGED <<handler, offers, pinned>>
  <2>1. PICK effect \in {0, 1} : MinedFor(inFlight[1].request, effect)
    BY <1>1, <1>7, MineIs
  <2> DEFINE j == inFlight[1].request
  <2>2. PICK d \in Call : /\ j \in Request /\ call' = [call EXCEPT ![j] = d]
                          /\ d.phase = call[j].phase /\ d.op = call[j].op
                          /\ d.args = call[j].args
    BY <2>1 DEF MinedFor
  <2> HIDE DEF j
  <2>3. (i # j => call'[i] = call[i]) /\ call'[j] = d
    BY <1>1, <2>2, CallChanged
  <2>4. QED
    BY <1>7, <2>2, <2>3 DEF Settled
<1>8. QED
    BY <1>1, <1>4, <1>5, <1>6, <1>7, StepIs
       DEF OfferStep, CrashStep, Elsewhere, pressLocal, Settled

LEMMA CallsStayPublished ==
    ASSUME PressInv, LogInv, [PressNext]_pressAll, "STALE_PREV_CID" \notin NamedErrors,
           NEW i \in Request
    PROVE  (call[i].phase # "head" /\ PublishedOK(i))'
<1>1. PressTypeOK /\ Fitting /\ CallType /\ pinned \in [Cid -> {"no", Nil} \cup Cid]
    BY DEF PressInv, PressTypeOK, ClientTypeOK, CallType
<1>2. ContentCid[i] \in Cid /\ call[i].phase # "head" /\ PublishedOK(i) /\ Settled(i)
    BY PressAssumption, StepSettles DEF LogInv
<1>3. ASSUME call'[i].phase # "head", call[i].phase = "none" => call'[i].phase = "none"
      PROVE  (call[i].phase # "head" /\ PublishedOK(i))'
    BY <1>2, <1>3 DEF Settled, PublishedOK
<1>4. ASSUME UNCHANGED call PROVE (call[i].phase # "head" /\ PublishedOK(i))'
    BY <1>2, <1>3, <1>4
<1>5. ASSUME NEW j \in Request, StartStep(j)
      PROVE  (call[i].phase # "head" /\ PublishedOK(i))'
  <2>1. PICK op, args :
              /\ Started(j, op, args)
              /\ op \in HeadOp => /\ Published(j)
                                  /\ args.cid = ContentCid[j]
                                  /\ args.head = handler[j].args.head
                                  /\ op # "update_card_head" => args.head = Nil
    BY <1>5 DEF StartStep
  <2>2. call' = [call EXCEPT ![j] = NewCall(op, args)] /\ op \in ClientOp /\ args \in Args
    BY <2>1 DEF Started
  <2>3. CASE i # j
    <3>1. call'[i] = call[i]
      BY <1>1, <2>2, <2>3, CallChanged
    <3>2. QED
      BY <1>2, <1>3, <3>1
  <2>4. CASE i = j
    <3> DEFINE d == NewCall(op, args)
    <3>0. d.phase = "sequence" /\ d.op = op /\ d.args = args
      BY <2>2, NewCallType
    <3> HIDE DEF d
    <3>1. call'[i].phase = "sequence" /\ call'[i].op = op /\ call'[i].args = args
      BY <1>1, <2>2, <2>4, <3>0, CallChanged DEF d
    <3>2. op \in HeadOp => pinned'[ContentCid[i]] = args.head
      BY <1>1, <1>2, <2>1, <2>4 DEF Published
    <3>3. QED
      BY <2>1, <2>4, <3>1, <3>2 DEF PublishedOK
  <2>5. QED
    BY <2>3, <2>4
<1>6. ASSUME NEW j \in Request, ClientStep(j)
      PROVE  (call[i].phase # "head" /\ PublishedOK(i))'
  <2>1. PICK d : /\ call' = [call EXCEPT ![j] = d]
                 /\ CallGoesOn(call[j], d) \/ CallIsCaught(call[j], d) \/ CallIsSent(call[j], d)
    BY <1>1, <1>6, ClientStepIs
  <2>2. (i # j => call'[i] = call[i]) /\ call'[j] = d
    BY <1>1, <2>1, CallChanged
  <2>3. d.phase # "head" /\ call[j].phase # "none"
    BY <2>1 DEF CallGoesOn, CallIsCaught, CallIsSent, CaughtAs
  <2>4. QED
    BY <1>2, <1>3, <2>2, <2>3
<1>7. CASE Mine
  <2>1. PICK effect \in {0, 1} : MinedFor(inFlight[1].request, effect)
    BY <1>1, <1>7, MineIs
  <2> DEFINE j == inFlight[1].request
  <2>2. PICK d \in Call : /\ j \in Request /\ call' = [call EXCEPT ![j] = d]
                          /\ d.phase = call[j].phase
    BY <2>1 DEF MinedFor
  <2> HIDE DEF j
  <2>3. (i # j => call'[i] = call[i]) /\ call'[j] = d
    BY <1>1, <2>2, CallChanged
  <2>4. call'[i].phase = call[i].phase
    BY <2>2, <2>3
  <2>5. QED
    BY <1>2, <1>3, <2>4
<1>8. QED
    BY <1>1, <1>4, <1>5, <1>6, <1>7, StepIs
       DEF HandlerStep, OfferStep, CrashStep, Elsewhere, pressLocal

LEMMA TxsStaySent ==
    ASSUME PressInv, LogInv, [PressNext]_pressAll
    PROVE  (\A k \in 1..Len(inFlight) : SentAs(inFlight[k]))'
<1>1. PressTypeOK /\ Fitting /\ CallType /\ inFlight \in Seq(Tx)
    BY DEF PressInv, PressTypeOK, ClientTypeOK, CallType
<1>2. ASSUME NEW tx \in Tx, SentAs(tx) PROVE SentAs(tx)'
  <2>1. tx.request \in Request
    BY DEF Tx
  <2>2. Settled(tx.request)
    BY <2>1, StepSettles
  <2>3. QED
    BY <1>2, <2>2 DEF SentAs, Settled
<1>3. ASSUME inFlight' = inFlight PROVE (\A k \in 1..Len(inFlight) : SentAs(inFlight[k]))'
  <2>1. \A k \in 1..Len(inFlight) : inFlight[k] \in Tx /\ SentAs(inFlight[k])
    BY <1>1 DEF LogInv
  <2>2. QED
    BY <1>2, <1>3, <2>1
<1>4. ASSUME NEW i \in Request, ClientStep(i), inFlight' # inFlight
      PROVE  (\A k \in 1..Len(inFlight) : SentAs(inFlight[k]))'
  <2> DEFINE tx == Transaction(i)
  <2>1. PICK d : /\ call' = [call EXCEPT ![i] = d]
                 /\ CallIsSent(call[i], d) /\ inFlight' = Append(inFlight, tx)
    BY <1>1, <1>4, ClientStepIs
  <2>2. tx \in Tx /\ tx.request = i /\ tx.op = call[i].op /\ tx.args = call[i].args
    BY <1>1, TransactionType
  <2>3. SentAs(tx)
    BY <2>1, <2>2 DEF SentAs, CallIsSent
  <2> HIDE DEF tx
  <2>4. ASSUME NEW k \in 1..Len(inFlight') PROVE inFlight'[k] \in Tx /\ SentAs(inFlight'[k])
    <3>1. Len(inFlight') = Len(inFlight) + 1 /\ Len(inFlight) \in Nat
      BY <1>1, <2>1, <2>2
    <3>2. CASE k \in 1..Len(inFlight)
      <4>1. inFlight'[k] = inFlight[k] /\ inFlight[k] \in Tx
        BY <1>1, <2>1, <2>2, <3>2
      <4>2. QED
        BY <3>2, <4>1 DEF LogInv
    <3>3. CASE k = Len(inFlight) + 1
      <4>1. inFlight'[k] = tx
        BY <1>1, <2>1, <2>2, <3>3
      <4>2. QED
        BY <2>2, <2>3, <4>1
    <3>4. QED
      BY <3>1, <3>2, <3>3
  <2>5. QED
    BY <1>2, <2>4
<1>5. CASE Mine
  <2>1. inFlight # <<>> /\ inFlight' = Tail(inFlight)
    BY <1>1, <1>5, MineIs DEF MinedFor
  <2>2. \A k \in 1..Len(inFlight') :
            k + 1 \in 1..Len(inFlight) /\ inFlight'[k] = inFlight[k + 1] /\ inFlight[k + 1] \in Tx
    BY <1>1, <2>1
  <2>3. \A k \in 1..Len(inFlight') : inFlight'[k] \in Tx /\ SentAs(inFlight'[k])
    BY <2>2 DEF LogInv
  <2>4. QED
    BY <1>2, <2>3
<1>6. QED
    BY <1>1, <1>3, <1>4, <1>5, StepIs
       DEF HandlerStep, StartStep, OfferStep, CrashStep, Elsewhere, pressLocal

\* A transaction that takes effect extends the log of its card by one event,
\* which names the head it replaced, or Nil when it is the card's first.
LEMMA ExecuteEmits ==
    ASSUME TypeOK, HeadChain, NEW op \in ClientOp, NEW args \in Args, NEW n \in Nat,
           FitArgs(op, args), Execute(op, args, Payload(op, n))
    PROVE  /\ HeadChain'
           /\ op \notin HeadOp => headLog' = headLog
           /\ op \in HeadOp =>
                \E prev : /\ EmitHead(args.card, prev, args.cid)
                          /\ IF op = "update_card_head"
                             THEN prev = args.head /\ headLog[args.card] # <<>>
                             ELSE prev = Nil /\ headLog[args.card] = <<>>
<1>1. logic \in Logic /\ Self \in Press
    BY ClientAssumption DEF TypeOK, StorageTypeOK
<1>2. op \in HeadOp => args.card \in Card /\ args.cid \in Cid
    BY DEF FitArgs, HeadOp
<1>3. \A c \in Card : cards[c].exists <=> headLog[c] # <<>>
    BY DEF HeadChain, Chained
<1>4. CASE op = "register_card"
  <2>1. RegisterCard(logic, args.card, args.cid, args.policy, Self, Payload(op, n))
    BY <1>4 DEF Execute
  <2>2. /\ ~cards[args.card].exists /\ EmitHead(args.card, Nil, args.cid)
        /\ SetCardEntry(logic, args.card, args.cid, args.policy, Self, TRUE)
    BY <2>1 DEF RegisterCard
  <2>3. HeadChain'
    BY <1>2, <1>4, <2>2, ChainRegister DEF HeadOp
  <2>4. QED
    BY <1>2, <1>3, <1>4, <2>2, <2>3 DEF HeadOp
<1>5. CASE op = "claim_open_offer"
  <2>1. ClaimOpenOffer(logic, args.offer, DocumentTerms[args.offer].max,
                       DocumentTerms[args.offer].expires, args.card, args.cid,
                       args.policy, Self, Payload(op, n))
    BY <1>5 DEF Execute
  <2>2. /\ ~cards[args.card].exists /\ EmitHead(args.card, Nil, args.cid)
        /\ SetCardEntry(logic, args.card, args.cid, args.policy, Self, TRUE)
    BY <2>1 DEF ClaimOpenOffer
  <2>3. HeadChain'
    BY <1>2, <1>5, <2>2, ChainRegister DEF HeadOp
  <2>4. QED
    BY <1>2, <1>3, <1>5, <2>2, <2>3 DEF HeadOp
<1>6. CASE op = "update_card_head"
  <2>1. UpdateCardHead(logic, args.card, args.cid, args.head, Self, Payload(op, n))
    BY <1>6 DEF Execute
  <2>2. cards[args.card].exists /\ EmitHead(args.card, args.head, args.cid)
    BY <2>1 DEF UpdateCardHead
  <2>3. HeadChain'
    BY <1>1, <1>2, <1>6, <2>1, UpdateKeepsChain DEF HeadOp
  <2>4. QED
    BY <1>2, <1>3, <1>6, <2>2, <2>3 DEF HeadOp
<1>7. CASE op = "register_sub_card"
  <2>1. RegisterSubCard(logic, args.sub, args.card, args.head, Self, Payload(op, n), Nil)
    BY <1>7 DEF Execute
  <2>2. UNCHANGED <<cards, headLog>>
    BY <2>1 DEF RegisterSubCard
  <2>3. QED
    BY <1>7, <2>2, ChainFrame DEF HeadOp
<1>8. CASE op = "deregister_sub_card"
  <2>1. DeregisterSubCard(logic, args.sub, Self, Payload(op, n))
    BY <1>8 DEF Execute
  <2>2. UNCHANGED <<cards, headLog>>
    BY <2>1 DEF DeregisterSubCard
  <2>3. QED
    BY <1>8, <2>2, ChainFrame DEF HeadOp
<1>9. QED
    BY <1>4, <1>5, <1>6, <1>7, <1>8 DEF ClientOp

\* Logs only ever gain one item at a time.
LEMMA NextAppends ==
    ASSUME [Next]_vars, TypeOK, NEW c \in Card
    PROVE  headLog'[c] = headLog[c] \/ \E events : headLog'[c] = Append(headLog[c], events)
<1>1. ASSUME NEW self \in Logic, NEW r \in Press, PressCall(self, r)
      PROVE  headLog'[c] = headLog[c] \/ \E events : headLog'[c] = Append(headLog[c], events)
    BY <1>1, PressCallEmits DEF EmitHeads
<1>2. CASE (\E self \in Logic, payload \in GovernancePayload, sigs \in SignerList :
              GovernanceCall(self, payload, sigs)) \/ Tick \/ UNCHANGED vars
    BY <1>2, OtherStepFrame
<1>3. QED
    BY <1>1, <1>2 DEF Next

\* What is in the logs already stays right.
LEMMA OldEventsStayOK ==
    ASSUME PressInv, LogInv, [PressNext]_pressAll,
           NEW c \in Card, NEW n \in 1..Len(headLog[c]), NEW e \in headLog[c][n]
    PROVE  EventOK(n, e)'
<1>1. EventOK(n, e)
    BY DEF LogInv
<1>2. \A i \in Request : Settled(i)
    BY StepSettles
<1>3. QED
    BY <1>1, <1>2 DEF EventOK, Settled

LEMMA EventsStayOK ==
    ASSUME PressInv, LogInv, HeadChain, [PressNext]_pressAll
    PROVE  /\ HeadChain'
           /\ (\A c \in Card : \A n \in 1..Len(headLog[c]) :
                   \A e \in headLog[c][n] : EventOK(n, e))'
<1> DEFINE Goal == /\ HeadChain'
                   /\ (\A c \in Card : \A n \in 1..Len(headLog[c]) :
                           \A e \in headLog[c][n] : EventOK(n, e))'
<1>1. PressTypeOK /\ Fitting /\ TypeOK /\ headLog \in [Card -> Seq(SUBSET HeadEvent)]
    BY DEF PressInv, PressTypeOK, TypeOK
<1>2. ASSUME UNCHANGED vars PROVE Goal
  <2>1. headLog' = headLog /\ cards' = cards
    BY <1>2 DEF vars, storageVars, pressVars, historyVars
  <2>2. HeadChain'
    BY <2>1, ChainFrame
  <2>3. QED
    BY <2>1, <2>2, OldEventsStayOK
<1>3. CASE Elsewhere
  <2>1. Next /\ UNCHANGED pressLocal
    BY <1>1, <1>3, ElsewhereIs
  <2>2. HeadChain'
    BY <1>1, <2>1, NextKeepsChain
  <2>3. ASSUME NEW c \in Card, NEW n \in 1..Len(headLog'[c]), NEW e \in headLog'[c][n]
        PROVE  EventOK(n, e)'
    <3>1. CASE headLog'[c] = headLog[c]
      BY <2>3, <3>1, OldEventsStayOK
    <3>2. CASE headLog'[c] # headLog[c]
      <4>1. PICK events : headLog'[c] = Append(headLog[c], events)
        BY <1>1, <2>1, <3>2, NextAppends
      <4>2. Len(headLog'[c]) = Len(headLog[c]) + 1 /\ Len(headLog[c]) \in Nat
        BY <1>1, <4>1
      <4>3. CASE n \in 1..Len(headLog[c])
        <5>1. headLog'[c][n] = headLog[c][n]
          BY <1>1, <4>1, <4>3
        <5>2. QED
          BY <2>3, <4>3, <5>1, OldEventsStayOK
      <4>4. CASE n = Len(headLog'[c])
        <5>1. e.new = cards'[c].head
          BY <2>2, <2>3, <4>4 DEF HeadChain, Chained
        <5>2. e.new \notin Range(ContentCid)
          BY <1>1, <1>3, <3>2, <5>1, ElsewhereIs
        <5>3. \A i \in Request : e.new # ContentCid[i]
          BY <5>2, PressAssumption DEF Range
        <5>4. QED
          BY <5>3 DEF EventOK
      <4>5. QED
        BY <4>2, <4>3, <4>4
    <3>3. QED
      BY <3>1, <3>2
  <2>4. QED
    BY <2>2, <2>3
<1>4. CASE Mine
  <2> DEFINE tx == inFlight[1]
  <2>1. /\ tx \in Tx /\ 1 \in 1..Len(inFlight)
        /\ Execute(tx.op, tx.args, Payload(tx.op, tx.sequence)) \/ UNCHANGED vars
    BY <1>1, <1>4, MineIs
  <2>2. FitArgs(tx.op, tx.args) /\ SentAs(tx)
    BY <1>1, <2>1 DEF Fitting, TxsFit, LogInv
  <2>3. tx.op \in ClientOp /\ tx.args \in Args /\ tx.sequence \in Nat /\ tx.request \in Request
    BY <2>1 DEF Tx
  <2> HIDE DEF tx
  <2>4. CASE Execute(tx.op, tx.args, Payload(tx.op, tx.sequence))
    <3>1. /\ HeadChain'
          /\ tx.op \notin HeadOp => headLog' = headLog
          /\ tx.op \in HeadOp =>
               \E prev : /\ EmitHead(tx.args.card, prev, tx.args.cid)
                         /\ IF tx.op = "update_card_head"
                            THEN prev = tx.args.head /\ headLog[tx.args.card] # <<>>
                            ELSE prev = Nil /\ headLog[tx.args.card] = <<>>
      BY <1>1, <2>2, <2>3, <2>4, ExecuteEmits
    <3>2. CASE tx.op \notin HeadOp
      BY <3>1, <3>2, OldEventsStayOK
    <3>3. CASE tx.op \in HeadOp
      <4>1. PICK prev : /\ EmitHead(tx.args.card, prev, tx.args.cid)
                        /\ IF tx.op = "update_card_head"
                           THEN prev = tx.args.head /\ headLog[tx.args.card] # <<>>
                           ELSE prev = Nil /\ headLog[tx.args.card] = <<>>
        BY <3>1, <3>3
      <4> DEFINE i == tx.request
                 a == tx.args
      <4>2. /\ call[i].phase # "none" /\ call[i].op = tx.op /\ call[i].args = a
            /\ a.cid = ContentCid[i] /\ pinned[ContentCid[i]] = a.head
            /\ tx.op # "update_card_head" => a.head = Nil
            /\ i \in Request
        BY <2>2, <2>3, <3>3 DEF SentAs, LogInv, PublishedOK
      <4>3. a.card \in Card
        BY <2>2, <3>3 DEF FitArgs, HeadOp
      <4>4. Settled(i)
        BY <4>2, StepSettles
      <4> HIDE DEF i, a
      <4>5. /\ call'[i].phase # "none" /\ call'[i].op \in HeadOp
            /\ pinned'[ContentCid[i]] = a.head
        BY <3>3, <4>2, <4>4, SMTT(30) DEF Settled
      <4>6. /\ headLog'[a.card] = Append(headLog[a.card], {[prev |-> prev, new |-> a.cid]})
            /\ \A c \in Card \ {a.card} : headLog'[c] = headLog[c]
        BY <4>1, <4>3 DEF EmitHead, EmitHeads, a
      <4>7. ASSUME NEW c \in Card, NEW n \in 1..Len(headLog'[c]), NEW e \in headLog'[c][n]
            PROVE  EventOK(n, e)'
        <5>1. CASE c # a.card
          BY <4>6, <4>7, <5>1, OldEventsStayOK
        <5>2. CASE c = a.card
          <6> DEFINE log == headLog[c]
          <6>1. /\ Len(headLog'[c]) = Len(log) + 1 /\ Len(log) \in Nat
                /\ headLog'[c][Len(log) + 1] = {[prev |-> prev, new |-> a.cid]}
            BY <1>1, <4>6, <5>2
          <6>2. CASE n \in 1..Len(log)
            <7>1. headLog'[c][n] = log[n]
              BY <1>1, <4>6, <5>2, <6>2
            <7>2. QED
              BY <4>7, <6>2, <7>1, OldEventsStayOK
          <6>3. CASE n = Len(log) + 1
            <7>1. e.new = ContentCid[i] /\ e.prev = prev
              BY <4>2, <4>7, <6>1, <6>3
            <7>2. a.head = IF n = 1 THEN Nil ELSE e.prev
              <8>1. log = <<>> => n = 1
                BY <6>3
              <8>2. log # <<>> => n # 1
                BY <1>1, <6>3
              <8>3. log = headLog[tx.args.card] /\ a = tx.args
                BY <5>2 DEF a
              <8> HIDE DEF log
              <8>4. QED
                BY <4>1, <4>2, <7>1, <8>1, <8>2, <8>3
            <7>3. ASSUME NEW j \in Request, e.new = ContentCid[j] PROVE j = i
              BY <4>2, <7>1, <7>3, OwnCids
            <7>4. QED
              BY <4>5, <7>1, <7>2, <7>3 DEF EventOK
          <6>4. QED
            BY <4>7, <6>1, <6>2, <6>3
        <5>3. QED
          BY <5>1, <5>2
      <4>8. QED
        BY <3>1, <4>7
    <3>4. QED
      BY <3>2, <3>3
  <2>5. QED
    BY <1>2, <2>1, <2>4
<1>5. QED
    BY <1>1, <1>2, <1>3, <1>4, StepIs, ClientStepIs
       DEF HandlerStep, StartStep, OfferStep, CrashStep

LEMMA PressInitLog == PressInit => LogInv /\ HeadChain
<1> SUFFICES ASSUME PressInit PROVE LogInv /\ HeadChain
    OBVIOUS
<1> DEFINE e == [prev |-> Nil, new |-> FounderCid]
<1>1. /\ \A i \in Request : call[i] = NoCall
      /\ inFlight = <<>>
      /\ \A c \in Card : cards[c].exists <=> c = Founder
      /\ cards[Founder].head = FounderCid
      /\ headLog[Founder] = <<{e}>>
      /\ \A c \in Card \ {Founder} : headLog[c] = <<>>
    BY PressAssumption DEF PressInit, ClientInit, NoCard
<1>2. NoCall.phase = "none"
    BY DEF NoCall
<1>3. e \in HeadEvent /\ e.prev = Nil /\ e.new = FounderCid
    BY PressAssumption DEF HeadEvent
<1>4. \A i \in Request : FounderCid # ContentCid[i]
    BY PressAssumption DEF Range
<1> HIDE DEF e
<1>5. HeadChain
  <2> SUFFICES ASSUME NEW c \in Card PROVE Chained(headLog[c], cards[c])
    BY DEF HeadChain
  <2>1. CASE c = Founder
    <3>1. headLog[c] = <<{e}>> /\ cards[c].exists /\ cards[c].head = FounderCid
      BY <1>1, <2>1
    <3>2. Len(<<{e}>>) = 1 /\ <<{e}>>[1] = {e} /\ <<{e}>> # <<>>
      OBVIOUS
    <3>3. \A i \in 1..Len(<<{e}>>) : i = 1
      BY <3>2
    <3>4. QED
      BY <1>3, <3>1, <3>2, <3>3 DEF Chained
  <2>2. CASE c # Founder
    BY <1>1, <2>2 DEF Chained
  <2>3. QED
    BY <2>1, <2>2
<1>6. ASSUME NEW c \in Card, NEW n \in 1..Len(headLog[c]), NEW f \in headLog[c][n]
      PROVE  EventOK(n, f)
  <2>1. CASE c = Founder
    <3>1. f = e
      BY <1>1, <1>6, <2>1
    <3>2. QED
      BY <1>3, <1>4, <3>1 DEF EventOK
  <2>2. CASE c # Founder
    BY <1>1, <1>6, <2>2
  <2>3. QED
    BY <2>1, <2>2
<1>7. QED
    BY <1>1, <1>2, <1>5, <1>6 DEF LogInv, PublishedOK

LEMMA LogInvMatches ==
    ASSUME PressInv, LogInv
    PROVE  LogMatchesChain
<1> SUFFICES ASSUME NEW c \in Card, NEW n \in DOMAIN headLog[c], NEW e \in headLog[c][n],
                    e.new \in Range(ContentCid)
             PROVE  pinned[e.new] = IF n = 1 THEN Nil ELSE e.prev
    BY DEF LogMatchesChain
<1>1. n \in 1..Len(headLog[c])
    BY DEF PressInv, PressTypeOK, TypeOK
<1>2. PICK i \in Request : e.new = ContentCid[i]
    BY PressAssumption DEF Range
<1>3. QED
    BY <1>1, <1>2 DEF LogInv, EventOK

\* The log a reader walks is the log the chain recorded, provided the name of a
\* stale head does not reach the client, as with the client's ABI as it is: then
\* an entry is never sent anew for a head it does not name.  The heads of every
\* card, this press's and others', form one chain.
THEOREM LogsMatch ==
    ASSUME "STALE_PREV_CID" \notin NamedErrors
    PROVE  PressSpec => [](LogMatchesChain /\ HeadChain)
<1> DEFINE Inv == LogInv /\ HeadChain
<1>1. PressInit => Inv
    BY PressInitLog
<1>2. PressInv /\ Inv /\ [PressNext]_pressAll => Inv'
    BY CallsStayPublished, TxsStaySent, EventsStayOK DEF LogInv
<1>3. PressInv /\ Inv => LogMatchesChain /\ HeadChain
    BY LogInvMatches
<1> HIDE DEF Inv
<1>4. QED
    BY <1>1, <1>2, <1>3, PressInvHolds, PTL DEF PressSpec
=============================================================================
