--------------------------- MODULE RegistryClient ---------------------------
(***************************************************************************)
(* The press's client of the registry (press/src/chain/registry.ts) and the *)
(* chain it talks to.  A call reads the next sequence number, signs, asks    *)
(* the node to estimate the transaction, sends it and waits for a receipt;   *)
(* many calls run at once and nothing serialises them.                      *)
(*                                                                         *)
(* A transaction that was sent is mined later, after whatever else reached   *)
(* the chain in between: then it takes effect as a CardRegistry operation or *)
(* reverts.  The transactions of the press come from one gas account, so    *)
(* they are mined in the order they were sent.                              *)
(***************************************************************************)
EXTENDS CardRegistry

CONSTANTS
    Request,        \* requests to the press, each of which makes one call
    Self,           \* the press
    SelfKey,        \* its signing key
    NamedErrors,    \* the reverts whose name is in the text of the error
    Retries,        \* how often a call is tried again (1 in both places)
    DocumentTerms   \* the terms in the document of each offer, of which its id is the hash

ASSUME ClientAssumption ==
    /\ Self \in Press /\ SelfKey \in Key
    /\ NamedErrors \subseteq {"SEQUENCE_MISMATCH", "STALE_PREV_CID"}
    /\ Retries \in Nat
    /\ DocumentTerms \in [Offer -> OfferTerms]

VARIABLES
    call,           \* per request: its call to the registry
    inFlight        \* the transactions sent and not yet mined, in order

clientVars == <<call, inFlight>>

ClientOp == {"register_card", "update_card_head", "claim_open_offer",
             "register_sub_card", "deregister_sub_card"}

\* What a call is about.  head is the head it builds on, sub-cards' included.
Args == [card : Card \cup {Nil}, cid : Cid \cup {Nil}, head : Cid \cup {Nil},
         policy : Policy \cup {Nil}, offer : Offer \cup {Nil}, sub : SubCard \cup {Nil}]
NoArgs == [card |-> Nil, cid |-> Nil, head |-> Nil, policy |-> Nil, offer |-> Nil,
           sub |-> Nil]
Call ==
    [phase : {"none", "head", "sequence", "send", "wait", "confirmed", "failed"},
     op : ClientOp, args : Args, sequence : Nat,
     tries : Nat, headTries : Nat,      \* of submitWithRetry and updateCardHead
     error : {"none", "SEQUENCE_MISMATCH", "STALE_PREV_CID", "other", "timeout"},
     mined : BOOLEAN, written : Nat]    \* its transactions mined, those in effect
NoCall ==
    [phase |-> "none", op |-> "register_card", args |-> NoArgs, sequence |-> 0,
     tries |-> 0, headTries |-> 0, error |-> "none", mined |-> FALSE, written |-> 0]
Tx == [request : Request, op : ClientOp, args : Args, sequence : Nat]

ClientTypeOK ==
    /\ call \in [Request -> Call]
    /\ inFlight \in Seq(Tx)

ClientInit ==
    /\ call = [i \in Request |-> NoCall]
    /\ inFlight = <<>>

-----------------------------------------------------------------------------
(* The chain                                                                *)

\* The policy whose sequence numbers a call uses.  Three of the operations read
\* it from the card's entry first, where it never changes.
PolicyOf(op, args) ==
    CASE op \in {"register_card", "claim_open_offer"} -> args.policy
      [] op \in {"update_card_head", "register_sub_card"} -> cards[args.card].policy
      [] op = "deregister_sub_card" -> cards[subCards[args.sub].master].policy

Payload(op, sequence) == [signer |-> SelfKey, op |-> op, sequence |-> sequence]

\* The press names the terms of the offer's document.
DocumentOpen(o) == OfferOpen(o, DocumentTerms[o].max, DocumentTerms[o].expires)

\* What the operation asks of the tables before it runs the write gate.
TablesAllow(op, args) ==
    CASE op = "register_card" -> ~cards[args.card].exists
      [] op = "update_card_head" -> cards[args.card].exists
      [] op = "claim_open_offer" ->
            /\ DocumentOpen(args.offer)
            /\ ~cards[args.card].exists
      [] op = "register_sub_card" ->
            /\ SnapshotCurrent(args.card, args.head)
            /\ ~subCards[args.sub].active
            /\ adminKeys[args.card] = Nil
      [] op = "deregister_sub_card" -> subCards[args.sub].active

\* How a transaction would revert now, in the order of the contract's checks.
Revert(op, args, sequence) ==
    LET policy == PolicyOf(op, args)
        entry == auth[<<policy, Self>>]
    IN CASE \/ ~TablesAllow(op, args)
            \/ policy \notin policies
            \/ ~entry.active
            \/ entry.key # SelfKey -> "other"
         [] sequence # entry.sequence -> "SEQUENCE_MISMATCH"
         [] op = "update_card_head" /\ cards[args.card].head # args.head -> "STALE_PREV_CID"
         [] op = "register_sub_card" /\ subCards[args.sub].deregisteredAt # 0 -> "other"
         [] OTHER -> "none"

Execute(op, args, payload) ==
    CASE op = "register_card" ->
            RegisterCard(logic, args.card, args.cid, args.policy, Self, payload)
      [] op = "update_card_head" ->
            UpdateCardHead(logic, args.card, args.cid, args.head, Self, payload)
      [] op = "claim_open_offer" ->
            ClaimOpenOffer(logic, args.offer, DocumentTerms[args.offer].max,
                           DocumentTerms[args.offer].expires, args.card, args.cid,
                           args.policy, Self, payload)
      [] op = "register_sub_card" ->
            RegisterSubCard(logic, args.sub, args.card, args.head, Self, payload, Nil)
      [] op = "deregister_sub_card" ->
            DeregisterSubCard(logic, args.sub, Self, payload)

Mined(i, effect) ==
    /\ call' = [call EXCEPT ![i].mined = TRUE, ![i].written = @ + effect]
    /\ inFlight' = Tail(inFlight)

Mine ==
    /\ inFlight # <<>>
    /\ LET tx == Head(inFlight) IN
       \/ /\ Revert(tx.op, tx.args, tx.sequence) = "none"
          /\ Execute(tx.op, tx.args, Payload(tx.op, tx.sequence))
          /\ Mined(tx.request, 1)
       \/ /\ Revert(tx.op, tx.args, tx.sequence) # "none"
          /\ Mined(tx.request, 0)
          /\ UNCHANGED vars

-----------------------------------------------------------------------------
(* The client                                                               *)

Start(i, op, args) ==
    call' = [call EXCEPT ![i] = [NoCall EXCEPT !.phase = "sequence", !.op = op, !.args = args]]

\* A policy nobody knows has an empty authorization.
NextSequence(policy) == IF policy \in Policy THEN auth[<<policy, Self>>].sequence ELSE 0

\* getNextSequence: read from the chain before every attempt.
ReadSequence(i) ==
    /\ call[i].phase = "sequence"
    /\ call' = [call EXCEPT ![i].phase = "send",
          ![i].sequence = NextSequence(PolicyOf(call[i].op, call[i].args))]
    /\ UNCHANGED <<vars, inFlight>>

\* getCardEntry, before the retry on a stale head.
RereadHead(i) ==
    /\ call[i].phase = "head"
    /\ call' = [call EXCEPT ![i].phase = "sequence",
                            ![i].args.head = cards[call[i].args.card].head]
    /\ UNCHANGED <<vars, inFlight>>

Transaction(i) ==
    [request |-> i, op |-> call[i].op, args |-> call[i].args, sequence |-> call[i].sequence]

\* writeContract: the node estimates the transaction against the present state,
\* and only one that would not revert is sent.
Send(i) ==
    LET c == call[i] IN
    /\ c.phase = "send"
    /\ Revert(c.op, c.args, c.sequence) = "none"
    /\ inFlight' = Append(inFlight, Transaction(i))
    /\ call' = [call EXCEPT ![i].phase = "wait", ![i].mined = FALSE]
    /\ UNCHANGED vars

\* Mutant: a wait that timed out counts as a lost race for the sequence number.
RetrySequenceOnTimeout(c, error) ==
    error \in {"SEQUENCE_MISMATCH", "timeout"} /\ c.tries < Retries

\* The catch blocks of submitWithRetry and, around it, of updateCardHead.
RetrySequence(c, error) ==
    error = "SEQUENCE_MISMATCH" /\ error \in NamedErrors /\ c.tries < Retries

\* Mutant: the retry with a fresh head, for an entry that is pinned already,
\* runs on any stale head, named in the error or not.
RetryHeadUnnamed(c, error) ==
    error = "STALE_PREV_CID" /\ c.op = "update_card_head" /\ c.headTries < Retries

RetryHead(c, error) ==
    /\ error = "STALE_PREV_CID" /\ error \in NamedErrors
    /\ c.op = "update_card_head" /\ c.headTries < Retries

Caught(i, error) ==
    LET c == call[i] IN
    call' = [call EXCEPT ![i] =
        IF RetrySequence(c, error)
        THEN [c EXCEPT !.phase = "sequence", !.tries = @ + 1]
        ELSE IF RetryHead(c, error)
        THEN [c EXCEPT !.phase = "head", !.tries = 0, !.headTries = @ + 1]
        ELSE [c EXCEPT !.phase = "failed", !.error = error]]

EstimateReverts(i) ==
    LET c == call[i] IN
    /\ c.phase = "send"
    /\ Revert(c.op, c.args, c.sequence) # "none"
    /\ Caught(i, Revert(c.op, c.args, c.sequence))
    /\ UNCHANGED <<vars, inFlight>>

\* The node cannot be reached, or refuses the transaction's account nonce.  An
\* answer lost on the way back leaves the transaction with the node.
NodeFails(i) ==
    LET c == call[i] IN
    /\ c.phase \in {"head", "sequence", "send"}
    /\ \/ inFlight' = inFlight
       \/ /\ c.phase = "send" /\ Revert(c.op, c.args, c.sequence) = "none"
          /\ inFlight' = Append(inFlight, Transaction(i))
    /\ Caught(i, "other")
    /\ UNCHANGED vars

\* waitForTransactionReceipt: the status in the receipt is not looked at.
Receipt(i) ==
    /\ call[i].phase = "wait"
    /\ call[i].mined
    /\ call' = [call EXCEPT ![i].phase = "confirmed"]
    /\ UNCHANGED <<vars, inFlight>>

\* Mutant: the wait ends only with the transaction.
TimeoutWhenMined(i) ==
    /\ call[i].phase = "wait" /\ call[i].mined
    /\ Caught(i, "timeout")
    /\ UNCHANGED <<vars, inFlight>>

\* After 300 seconds, whether or not the transaction is mined by then or later.
Timeout(i) ==
    /\ call[i].phase = "wait"
    /\ Caught(i, "timeout")
    /\ UNCHANGED <<vars, inFlight>>

ClientStep(i) ==
    \/ ReadSequence(i) \/ RereadHead(i)
    \/ Send(i) \/ EstimateReverts(i) \/ NodeFails(i)
    \/ Receipt(i) \/ Timeout(i)
=============================================================================
