------------------------ MODULE SubCardRegistration ------------------------
(***************************************************************************)
(* A sub-card from the app's request to the press's answer: the app asks and  *)
(* signs (app-sdk/src/subcards), the wallet validates, obtains consent,      *)
(* countersigns and posts (wallet-sdk/src/subcards, wallet/deviceSubCard.ts), *)
(* and the press checks its limits, registers, and records what it wrote      *)
(* (press/src/handlers/sub-card.ts, functions/predicates.ts).  Requests of    *)
(* one wallet and of several run at once, the press crashes and starts, and   *)
(* the weekly window of the counters moves on.                               *)
(*                                                                         *)
(* Every request generates a key and is named by it.                         *)
(***************************************************************************)
EXTENDS Integers, FiniteSets

CONSTANTS
    Key,            \* requests, and the sub-card key each one generates
    Entity, Policy, \* what is counted: holders, apps and the policy
    HolderOf, AppOf,
    Limit,          \* RATE_LIMITS, per entity
    MaxFaults,      \* bound: crashes, lost answers, providers that fail
    MaxWindow       \* bound: windows that begin

ASSUME RegistrationAssumption ==
    /\ HolderOf \in [Key -> Entity] /\ AppOf \in [Key -> Entity] /\ Policy \in Entity
    /\ Limit \in [Entity -> Nat] /\ MaxFaults \in Nat /\ MaxWindow \in Nat
    /\ \A k \in Key : Cardinality({HolderOf[k], AppOf[k], Policy}) = 3

VARIABLES
    flow,       \* per key: how far the app and the wallet are
    handler,    \* per key: how far the press is with it
    counters,   \* writes counted in the current window
    window,
    registered, \* keys the registry has
    press,      \* the press: ready, cold until a request starts it, or dead
    appGood,    \* the app's card is certified and in force
    admitted,   \* history: <<key, entity, window>> of the checks that passed
    uncounted,  \* history: <<key, entity>> whose record may not count
    peak,       \* history: requests between check and last record, at most
    faults

walletVars == <<flow, appGood>>
pressVars == <<handler, counters, window, press>>
historyVars == <<admitted, uncounted, peak>>
registrationVars == <<walletVars, pressVars, registered, historyVars, faults>>

\* handleSubCardRegister reads four counters and counts up four: the policy's twice.
Counted(k) == <<HolderOf[k], Policy, AppOf[k], Policy>>
NoHandler == [step |-> "none", n |-> 1, read |-> 0]
Counting == {"check", "register", "read", "write"}
Busy == {k \in Key : handler[k].step \in Counting}

RegistrationInit ==
    /\ flow = [k \in Key |-> "none"]
    /\ handler = [k \in Key |-> NoHandler]
    /\ counters = [e \in Entity |-> 0] /\ window = 0
    /\ registered = {} /\ press = "cold" /\ appGood = TRUE
    /\ admitted = {} /\ uncounted = {} /\ peak = 0 /\ faults = 0

Fault == faults < MaxFaults /\ faults' = faults + 1
FailsWith(ok) == IF ok THEN UNCHANGED faults ELSE Fault

-----------------------------------------------------------------------------
(* The app and the wallet                                                   *)

StepFlow(k, step) == flow' = [flow EXCEPT ![k] = step]

\* requestSubCard
RequestSubCard(k) ==
    /\ flow[k] = "none"
    /\ StepFlow(k, "requested")
    /\ UNCHANGED <<appGood, pressVars, registered, historyVars, faults>>

\* handleSubCardRequest: the bindings and the app's signature, then its card
ValidateRequest(k, genuine, answered) ==
    /\ flow[k] = "requested"
    /\ StepFlow(k, IF genuine /\ answered /\ appGood THEN "validated" ELSE "rejected")
    /\ FailsWith(answered /\ genuine)
    /\ UNCHANGED <<appGood, pressVars, registered, historyVars>>

\* countersignSubCardRequest: the capabilities exactly as requested, or nothing
Decide(k, exact) ==
    /\ flow[k] = "validated"
    /\ StepFlow(k, IF exact THEN "posted" ELSE "declined")
    /\ handler' = [handler EXCEPT ![k].step = IF exact THEN "arriving" ELSE @]
    /\ UNCHANGED <<appGood, counters, window, press, registered, historyVars, faults>>

-----------------------------------------------------------------------------
(* The press                                                                *)

StepHandler(k, step) == handler' = [handler EXCEPT ![k].step = step]

\* startup.ts: the first request starts the press, once; a failure stays.
StartUp(ok) ==
    /\ press = "cold" /\ \E k \in Key : handler[k].step = "arriving"
    /\ press' = IF ok THEN "ready" ELSE "dead"
    /\ FailsWith(ok)
    /\ UNCHANGED <<walletVars, handler, counters, window, registered, historyVars>>

\* Signatures and bindings are in order; the app's card may not be.
VerifyApp(k, answered) ==
    LET passed == press = "ready" /\ answered /\ appGood IN
    /\ handler[k].step = "arriving" /\ press # "cold"
    /\ StepHandler(k, IF passed THEN "check" ELSE "refused")
    /\ peak' = IF passed /\ Cardinality(Busy) >= peak THEN Cardinality(Busy) + 1 ELSE peak
    /\ FailsWith(answered)
    /\ UNCHANGED <<walletVars, counters, window, press, registered, admitted, uncounted>>

\* checkRateLimits, one read of it
\* Mutant: the write that reaches the limit passes too.
BelowLimitOrAt(e) == counters[e] <= Limit[e]
BelowLimit(e) == counters[e] < Limit[e]
CheckLimit(k) ==
    LET h == handler[k]
        e == Counted(k)[h.n] IN
    /\ h.step = "check"
    /\ handler' = [handler EXCEPT ![k] =
          IF ~BelowLimit(e) THEN [@ EXCEPT !.step = "refused"]
          ELSE IF h.n < 4 THEN [@ EXCEPT !.n = h.n + 1]
          ELSE [@ EXCEPT !.step = "register"]]
    /\ admitted' = IF BelowLimit(e) THEN admitted \cup {<<k, e, window>>} ELSE admitted
    /\ UNCHANGED <<walletVars, counters, window, press, registered, uncounted, peak, faults>>

\* checkAppGasBalance and registerSubCard, and between them the document is pinned,
\* which nobody sees.  The wait for the receipt may end before the transaction lands.
Register(k, enough, waited) ==
    LET unseen == enough /\ ~waited IN
    /\ handler[k].step = "register"
    /\ registered' = IF enough THEN registered \cup {k} ELSE registered
    /\ handler' = [handler EXCEPT ![k] =
          [step |-> IF enough /\ waited THEN "read" ELSE "refused", n |-> 1, read |-> 0]]
    /\ uncounted' = IF unseen THEN uncounted \cup {<<k, e>> : e \in Entity} ELSE uncounted
    /\ FailsWith(enough /\ waited)
    /\ UNCHANGED <<walletVars, counters, window, press, admitted, peak>>

\* recordWrite: increment is getItem and setItem (server/utils/kv.ts).
ReadCount(k) ==
    /\ handler[k].step = "read"
    /\ handler' = [handler EXCEPT ![k].step = "write",
                                  ![k].read = counters[Counted(k)[handler[k].n]]]
    /\ UNCHANGED <<walletVars, counters, window, press, registered, historyVars, faults>>

\* Increments of one counter that overlap may count once.
Overlapping(k, e) ==
    {j \in Key \ {k} : handler[j].step = "write" /\ Counted(j)[handler[j].n] = e}
WriteCount(k) ==
    LET h == handler[k]
        e == Counted(k)[h.n] IN
    /\ h.step = "write"
    /\ counters' = [counters EXCEPT ![e] = h.read + 1]
    /\ handler' = [handler EXCEPT ![k] =
          IF h.n < 4 THEN [step |-> "read", n |-> h.n + 1, read |-> 0]
          ELSE [@ EXCEPT !.step = "answer"]]
    /\ uncounted' = IF Overlapping(k, e) = {} THEN uncounted
                    ELSE uncounted \cup {<<j, e>> : j \in Overlapping(k, e) \cup {k}}
    /\ UNCHANGED <<walletVars, window, press, registered, admitted, peak, faults>>

\* createPressSubCardRegistrar: whatever goes wrong is "not registered".
Answer(k, arrives) ==
    /\ handler[k].step \in {"answer", "refused"}
    /\ StepHandler(k, "over")
    /\ StepFlow(k, IF handler[k].step = "answer" /\ arrives THEN "registered"
                   ELSE "not registered")
    /\ FailsWith(arrives)
    /\ UNCHANGED <<appGood, counters, window, press, registered, historyVars>>

-----------------------------------------------------------------------------
(* What else happens                                                        *)

\* Requests under way are lost, with what they have not recorded.
Crash ==
    LET lost == {k \in Key : handler[k].step \notin {"none", "over"}} IN
    /\ Fault /\ press # "cold"
    /\ press' = "cold"
    /\ handler' = [k \in Key |-> IF k \in lost THEN [NoHandler EXCEPT !.step = "over"]
                                 ELSE handler[k]]
    /\ flow' = [k \in Key |-> IF k \in lost THEN "not registered" ELSE flow[k]]
    /\ uncounted' = uncounted \cup ((lost \cap registered) \X Entity)
    /\ UNCHANGED <<appGood, counters, window, registered, admitted, peak>>

RevokeApp ==
    /\ Fault /\ appGood
    /\ appGood' = FALSE
    /\ UNCHANGED <<flow, pressVars, registered, historyVars>>

\* windowStart: the counters of the next window have keys of their own.
NextWindow ==
    /\ window < MaxWindow
    /\ window' = window + 1
    /\ counters' = [e \in Entity |-> 0]
    /\ UNCHANGED <<walletVars, handler, press, registered, historyVars, faults>>

-----------------------------------------------------------------------------
Serve(k) ==
    \/ RequestSubCard(k) \/ CheckLimit(k) \/ ReadCount(k) \/ WriteCount(k)
    \/ \E ok, answered \in BOOLEAN : ValidateRequest(k, ok, answered) \/ Register(k, ok, answered)
    \/ \E ok \in BOOLEAN : Decide(k, ok) \/ VerifyApp(k, ok) \/ Answer(k, ok)

RegistrationNext ==
    \/ \E k \in Key : Serve(k)
    \/ \E ok \in BOOLEAN : StartUp(ok)
    \/ Crash \/ RevokeApp \/ NextWindow

RegistrationSpec == RegistrationInit /\ [][RegistrationNext]_registrationVars

-----------------------------------------------------------------------------
(* In one window a holder, or an app, gets no more sub-cards than its limit       *)
(* allows, plus one for every further request that ran at the same time and for   *)
(* every record that was lost or overlapped another (predicates.ts).            *)
Admitted(e, w) == {k \in registered : <<k, e, w>> \in admitted}
RateLimited ==
    \A e \in Entity \ {Policy}, w \in 0..window :
        \/ Admitted(e, w) = {}
        \/ Cardinality(Admitted(e, w)) <=
              Limit[e] - 1 + peak + Cardinality({k \in Key : <<k, e>> \in uncounted})
=============================================================================
