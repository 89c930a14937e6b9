--------------------------- MODULE ServiceProofs ---------------------------
(* The press as a service: the limits it keeps when many registrations run at *)
(* once, the directory of sub-cards a holder keeps, and the task that makes    *)
(* good what the press missed; and the policy module beside the homeserver.   *)
(* Theorems about SubCardRegistration, SubCardDirectory, PressJobs and        *)
(* RoomPolicy, for every value of their constants.                           *)
EXTENDS SubCardRegistration, SubCardDirectory, PressJobs, RoomPolicy, FiniteSetTheorems, TLAPS

-----------------------------------------------------------------------------
(* SubCardRegistration: the limits                                            *)

FlowStep == {"none", "requested", "validated", "rejected", "declined", "posted", "registered",
             "not registered"}
HandlerStep == {"none", "arriving", "answer", "refused", "over"} \cup Counting
HandlerRecord == [step : HandlerStep, n : 1..4, read : Nat]
RegistrationTypes ==
    /\ flow \in [Key -> FlowStep] /\ handler \in [Key -> HandlerRecord]
    /\ counters \in [Entity -> Nat] /\ window \in Nat /\ registered \subseteq Key
    /\ admitted \subseteq Key \X Entity \X Nat /\ uncounted \subseteq Key \X Entity
    /\ peak \in Nat

\* What there is to count is finite: requests that were made.
Touched == {k \in Key : flow[k] # "none"}
OfTouched ==
    /\ IsFiniteSet(Touched)
    /\ registered \subseteq Touched
    /\ \A k \in Key, e \in Entity : <<k, e>> \in uncounted => k \in Touched

\* The order in which a request is admitted, registered and counted.
Sequenced ==
    /\ \A k \in registered : handler[k].step \in {"read", "write", "answer", "refused", "over"}
    /\ \A k \in Key, e \in Entity, w \in Nat : <<k, e, w>> \in admitted =>
          /\ w <= window /\ e \in {HolderOf[k], AppOf[k], Policy}
          /\ handler[k].step \notin {"none", "arriving"}
    /\ \A k \in Key :
          flow[k] \in {"none", "requested", "validated"} => handler[k].step = "none"

BusyAtPeak == Cardinality(Busy) <= peak

\* What the press has still to count for a request.
Owed(k, e) ==
    handler[k].step \in {"read", "write"} /\ \E i \in handler[k].n..4 : Counted(k)[i] = e
\* The registrations of this window that are counted for good.
Clean(e) ==
    {k \in registered : <<k, e, window>> \in admitted /\ <<k, e>> \notin uncounted /\ ~Owed(k, e)}
\* No counter, and no value about to be written to one, is behind these.
CleanAreCounted ==
    \A e \in Entity \ {Policy} :
        /\ Cardinality(Clean(e)) <= counters[e]
        /\ \A k \in Key : handler[k].step = "write" /\ Counted(k)[handler[k].n] = e =>
              Cardinality(Clean(e)) <= handler[k].read

\* The requests that passed a check and are registered, or may still be.
Underway(e, w) ==
    {k \in Key : /\ <<k, e, w>> \in admitted
                 /\ k \in registered \/ handler[k].step \in {"check", "register"}}
Uncounted(e) == {k \in Key : <<k, e>> \in uncounted}
UnderwayBounded ==
    \A e \in Entity \ {Policy}, w \in Nat :
        \/ Underway(e, w) = {}
        \/ Cardinality(Underway(e, w)) <= Limit[e] - 1 + peak + Cardinality(Uncounted(e))

RegistrationIInv ==
    /\ RegistrationTypes /\ OfTouched /\ Sequenced /\ BusyAtPeak /\ CleanAreCounted
    /\ UnderwayBounded

-----------------------------------------------------------------------------

\* What is counted is finite.
LEMMA SmallSets ==
    ASSUME RegistrationTypes, OfTouched, Sequenced
    PROVE  /\ \A e : IsFiniteSet(Clean(e)) /\ Cardinality(Clean(e)) \in Nat
           /\ \A e, w : IsFiniteSet(Underway(e, w)) /\ Cardinality(Underway(e, w)) \in Nat
           /\ \A e \in Entity : IsFiniteSet(Uncounted(e)) /\ Cardinality(Uncounted(e)) \in Nat
           /\ IsFiniteSet(Busy) /\ Cardinality(Busy) \in Nat
<1>1. \A e : Clean(e) \subseteq Touched
    BY DEF Clean, OfTouched
<1>2. \A e, w : Underway(e, w) \subseteq Touched
    BY DEF Underway, OfTouched, Sequenced, Touched
<1>3. \A e \in Entity : Uncounted(e) \subseteq Touched
    BY DEF Uncounted, OfTouched
<1>4. Busy \subseteq Touched
    BY DEF Busy, Counting, Sequenced, Touched
<1>5. \A S \in SUBSET Touched : IsFiniteSet(S) /\ Cardinality(S) \in Nat
    BY FS_Subset, FS_CardinalityType DEF OfTouched
<1>6. QED
    BY <1>1, <1>2, <1>3, <1>4, <1>5

\* The same after a step.
LEMMA SmallSetsNext ==
    ASSUME RegistrationTypes', OfTouched', Sequenced'
    PROVE  /\ \A e : IsFiniteSet(Clean(e)') /\ Cardinality(Clean(e)') \in Nat
           /\ \A e, w : IsFiniteSet(Underway(e, w)') /\ Cardinality(Underway(e, w)') \in Nat
           /\ \A e \in Entity :
                 IsFiniteSet(Uncounted(e)') /\ Cardinality(Uncounted(e)') \in Nat
           /\ IsFiniteSet(Busy') /\ Cardinality(Busy') \in Nat
<1>1. \A e : Clean(e)' \subseteq Touched'
    BY DEF Clean, OfTouched
<1>2. \A e, w : Underway(e, w)' \subseteq Touched'
    BY DEF Underway, OfTouched, Sequenced, Touched
<1>3. \A e \in Entity : Uncounted(e)' \subseteq Touched'
    BY DEF Uncounted, OfTouched
<1>4. Busy' \subseteq Touched'
    BY DEF Busy, Counting, Sequenced, Touched
<1>5. \A S \in SUBSET (Touched') : IsFiniteSet(S) /\ Cardinality(S) \in Nat
    BY FS_Subset, FS_CardinalityType DEF OfTouched
<1>6. QED
    BY <1>1, <1>2, <1>3, <1>4, <1>5

\* Cardinality is monotone.
LEMMA SubsetIsNoLarger ==
    ASSUME NEW S, NEW T, IsFiniteSet(S), T \subseteq S
    PROVE  Cardinality(T) <= Cardinality(S)
BY FS_Subset

\* Two sets together have no more elements than each on its own.
LEMMA UnionIsNoLarger ==
    ASSUME NEW A, NEW B, IsFiniteSet(A), IsFiniteSet(B)
    PROVE  /\ IsFiniteSet(A \cup B) /\ Cardinality(A \cup B) \in Nat
           /\ Cardinality(A \cup B) <= Cardinality(A) + Cardinality(B)
<1>1. IsFiniteSet(A \cap B)
    BY FS_Subset
<1>2. /\ Cardinality(A) \in Nat /\ Cardinality(B) \in Nat /\ Cardinality(A \cap B) \in Nat
    BY <1>1, FS_CardinalityType
<1>3. /\ IsFiniteSet(A \cup B)
      /\ Cardinality(A \cup B) = Cardinality(A) + Cardinality(B) - Cardinality(A \cap B)
    BY FS_Union
<1>4. Cardinality(A \cup B) \in Nat
    BY <1>3, FS_CardinalityType
<1>5. QED
    BY <1>2, <1>3, <1>4

\* Three sets together have no more elements than each on its own.
LEMMA ThreeSets ==
    ASSUME NEW A, NEW B, NEW C, NEW S, S \subseteq A \cup B \cup C,
           IsFiniteSet(A), IsFiniteSet(B), IsFiniteSet(C)
    PROVE  Cardinality(S) <= Cardinality(A) + Cardinality(B) + Cardinality(C)
<1>1. /\ IsFiniteSet(A \cup B) /\ Cardinality(A \cup B) <= Cardinality(A) + Cardinality(B)
      /\ Cardinality(A \cup B) \in Nat
    BY UnionIsNoLarger
<1>2. /\ IsFiniteSet((A \cup B) \cup C)
      /\ Cardinality((A \cup B) \cup C) <= Cardinality(A \cup B) + Cardinality(C)
      /\ Cardinality((A \cup B) \cup C) \in Nat
    BY <1>1, UnionIsNoLarger
<1>3. Cardinality(S) <= Cardinality((A \cup B) \cup C) /\ Cardinality(S) \in Nat
    BY <1>2, FS_Subset, FS_CardinalityType
<1>4. Cardinality(A) \in Nat /\ Cardinality(B) \in Nat /\ Cardinality(C) \in Nat
    BY FS_CardinalityType
<1>5. QED
    BY <1>1, <1>2, <1>3, <1>4

\* The counters stay ahead where nobody is counted anew.
LEMMA CountedStays ==
    ASSUME RegistrationIInv, RegistrationTypes', OfTouched', Sequenced',
           counters' = counters, \A x \in Entity : Clean(x)' \subseteq Clean(x),
           \A j \in Key : handler'[j].step = "write" => handler'[j] = handler[j]
    PROVE  CleanAreCounted'
<1>1. \A x \in Entity : /\ Cardinality(Clean(x)') <= Cardinality(Clean(x))
                        /\ Cardinality(Clean(x)) \in Nat /\ Cardinality(Clean(x)') \in Nat
    BY SmallSets, SmallSetsNext, SubsetIsNoLarger DEF RegistrationIInv
<1>2. /\ \A x \in Entity : counters[x] \in Nat
      /\ \A j \in Key : handler[j].read \in Nat
    BY DEF RegistrationIInv, RegistrationTypes, HandlerRecord
<1> SUFFICES ASSUME NEW x \in Entity \ {Policy}
             PROVE  /\ Cardinality(Clean(x)') <= counters[x]
                    /\ \A j \in Key :
                          handler'[j].step = "write" /\ Counted(j)[handler'[j].n] = x =>
                              Cardinality(Clean(x)') <= handler'[j].read
    BY DEF CleanAreCounted, Counted
<1>3. /\ Cardinality(Clean(x)) <= counters[x]
      /\ \A j \in Key : handler[j].step = "write" /\ Counted(j)[handler[j].n] = x =>
            Cardinality(Clean(x)) <= handler[j].read
    BY DEF RegistrationIInv, CleanAreCounted
<1>4. QED
    BY <1>1, <1>2, <1>3

\* Where nobody is admitted the bound stays, whatever else ends or grows.
LEMMA BoundKept ==
    ASSUME RegistrationIInv, RegistrationTypes', OfTouched', Sequenced',
           \A e \in Entity, w \in Nat : Underway(e, w)' \subseteq Underway(e, w),
           peak <= peak', uncounted \subseteq uncounted'
    PROVE  UnderwayBounded'
<1> SUFFICES ASSUME NEW e \in Entity \ {Policy}, NEW w \in Nat, Underway(e, w)' # {}
             PROVE  Cardinality(Underway(e, w)') <=
                        Limit[e] - 1 + peak' + Cardinality(Uncounted(e)')
    BY DEF UnderwayBounded
<1>1. /\ Cardinality(Underway(e, w)') <= Cardinality(Underway(e, w))
      /\ Cardinality(Underway(e, w)') \in Nat /\ Cardinality(Underway(e, w)) \in Nat
    BY SmallSets, SmallSetsNext, SubsetIsNoLarger DEF RegistrationIInv
<1>2. /\ Cardinality(Uncounted(e)) <= Cardinality(Uncounted(e)')
      /\ Cardinality(Uncounted(e)) \in Nat /\ Cardinality(Uncounted(e)') \in Nat
  <2>1. Uncounted(e) \subseteq Uncounted(e)'
      BY DEF Uncounted
  <2>2. IsFiniteSet(Uncounted(e)') /\ Cardinality(Uncounted(e)') \in Nat
      BY SmallSetsNext
  <2>3. QED
      BY <2>1, <2>2, SmallSets, SubsetIsNoLarger DEF RegistrationIInv
<1>3. Cardinality(Underway(e, w)) <= Limit[e] - 1 + peak + Cardinality(Uncounted(e))
    BY DEF RegistrationIInv, UnderwayBounded
<1>4. peak \in Nat /\ peak' \in Nat /\ Limit[e] \in Nat
    BY RegistrationAssumption DEF RegistrationIInv, RegistrationTypes
<1>5. QED
    BY <1>1, <1>2, <1>3, <1>4

\* Nobody gets busy, nothing is counted, admitted or registered.
LEMMA RegistrationInitial == RegistrationInit => RegistrationIInv
<1> SUFFICES ASSUME RegistrationInit PROVE RegistrationIInv
    OBVIOUS
<1>1. RegistrationTypes
    BY DEF RegistrationInit, RegistrationTypes, FlowStep, HandlerRecord, HandlerStep,
       NoHandler
<1>2. OfTouched
    BY FS_EmptySet DEF RegistrationInit, OfTouched, Touched, NoHandler
<1>3. Sequenced
    BY DEF RegistrationInit, Sequenced, NoHandler
<1>4. Busy = {} /\ \A e : Clean(e) = {} /\ \A w : Underway(e, w) = {}
    BY DEF RegistrationInit, Busy, Counting, NoHandler, Clean, Underway
<1>5. BusyAtPeak /\ CleanAreCounted /\ UnderwayBounded
    BY <1>4, FS_EmptySet
    DEF RegistrationInit, BusyAtPeak, CleanAreCounted, UnderwayBounded, NoHandler
<1>6. QED
    BY <1>1, <1>2, <1>3, <1>5 DEF RegistrationIInv

\* What one request does to what is said of it.
LEMMA HandlerSet ==
    ASSUME RegistrationTypes, NEW k \in Key, NEW h \in HandlerRecord,
           handler' = [handler EXCEPT ![k] = h]
    PROVE  /\ handler' \in [Key -> HandlerRecord] /\ handler'[k] = h
           /\ \A j \in Key : j # k => handler'[j] = handler[j]
BY DEF RegistrationTypes

\* What a step of the flow does to the requests that were made.
LEMMA FlowSet ==
    ASSUME RegistrationTypes, OfTouched, NEW k \in Key, NEW step \in FlowStep,
           StepFlow(k, step), step # "none"
    PROVE  /\ flow' \in [Key -> FlowStep]
           /\ Touched' = Touched \cup {k} /\ IsFiniteSet(Touched')
<1>1. flow' \in [Key -> FlowStep] /\ \A j \in Key : flow'[j] = IF j = k THEN step ELSE flow[j]
    BY DEF StepFlow, RegistrationTypes
<1>2. Touched' = Touched \cup {k}
    BY <1>1 DEF Touched
<1>3. QED
    BY <1>1, <1>2, FS_AddElement DEF OfTouched

\* A step that only the app and the wallet see.
LEMMA UnseenStep ==
    ASSUME RegistrationIInv, flow' \in [Key -> FlowStep], Touched \subseteq Touched',
           IsFiniteSet(Touched'),
           \A k \in Key : flow'[k] \in {"none", "requested", "validated"} =>
               handler[k].step = "none",
           UNCHANGED <<handler, counters, window, registered, admitted, uncounted, peak>>
    PROVE  RegistrationIInv'
<1>1. RegistrationTypes' /\ OfTouched' /\ Sequenced'
    BY DEF RegistrationIInv, RegistrationTypes, OfTouched, Sequenced
<1>2. /\ Busy' = Busy /\ \A e : Clean(e)' = Clean(e) /\ Uncounted(e)' = Uncounted(e)
      /\ \A e, w : Underway(e, w)' = Underway(e, w)
    BY DEF Busy, Clean, Owed, Uncounted, Underway
<1>3. BusyAtPeak' /\ CleanAreCounted' /\ UnderwayBounded'
    BY <1>2 DEF RegistrationIInv, BusyAtPeak, CleanAreCounted, UnderwayBounded
<1>4. QED
    BY <1>1, <1>3 DEF RegistrationIInv

\* A request moves where it is not admitted, registered or counted.
LEMMA QuietHandler ==
    ASSUME RegistrationIInv, NEW k \in Key, NEW h \in HandlerRecord,
           handler' = [handler EXCEPT ![k] = h],
           flow' \in [Key -> FlowStep], Touched \subseteq Touched', IsFiniteSet(Touched'),
           \A j \in Key : flow'[j] \in {"none", "requested", "validated"} =>
               flow[j] = flow'[j] /\ j # k,
           \/ handler[k].step = "none" /\ h.step = "arriving"
           \/ handler[k].step = "arriving" /\ h.step \in {"check", "refused"}
           \/ handler[k].step \in {"answer", "refused"} /\ h.step = "over",
           peak' \in Nat, peak <= peak', Cardinality(Busy') <= peak',
           UNCHANGED <<counters, window, registered, admitted, uncounted>>
    PROVE  RegistrationIInv'
<1>1. /\ handler' \in [Key -> HandlerRecord] /\ handler'[k] = h
      /\ \A j \in Key : j # k => handler'[j] = handler[j]
    BY HandlerSet DEF RegistrationIInv
<1>2. RegistrationTypes' /\ OfTouched'
    BY <1>1 DEF RegistrationIInv, RegistrationTypes, OfTouched
<1>3. Sequenced'
    BY <1>1 DEF RegistrationIInv, RegistrationTypes, Sequenced
<1>4. \A e : Clean(e)' = Clean(e)
    BY <1>1 DEF RegistrationIInv, RegistrationTypes, Sequenced, Clean, Owed
<1>5. CleanAreCounted'
    BY <1>1, <1>4 DEF RegistrationIInv, CleanAreCounted
<1>6. \A e \in Entity, w \in Nat : Underway(e, w)' \subseteq Underway(e, w)
    BY <1>1 DEF RegistrationIInv, Sequenced, Underway
<1>7. UnderwayBounded'
    BY <1>2, <1>3, <1>6, BoundKept
<1>8. QED
    BY <1>2, <1>3, <1>5, <1>7 DEF RegistrationIInv, BusyAtPeak

\* A request that is made or validated.
LEMMA WalletSteps ==
    ASSUME RegistrationIInv, NEW k \in Key,
           \/ RequestSubCard(k)
           \/ \E genuine, answered \in BOOLEAN : ValidateRequest(k, genuine, answered)
    PROVE  RegistrationIInv'
<1>1. PICK step \in FlowStep : StepFlow(k, step) /\ step # "none"
    BY DEF RequestSubCard, ValidateRequest, FlowStep
<1>2. flow' \in [Key -> FlowStep] /\ Touched \subseteq Touched' /\ IsFiniteSet(Touched')
    BY <1>1, FlowSet DEF RegistrationIInv
<1>3. /\ UNCHANGED <<handler, counters, window, registered, admitted, uncounted, peak>>
      /\ flow[k] \in {"none", "requested"}
    BY DEF RequestSubCard, ValidateRequest, pressVars, historyVars
<1>4. \A j \in Key :
          flow'[j] \in {"none", "requested", "validated"} => handler[j].step = "none"
    BY <1>1, <1>3 DEF StepFlow, RegistrationIInv, RegistrationTypes, Sequenced
<1>5. QED
    BY <1>2, <1>3, <1>4, UnseenStep

\* A request that is under way is one of those that are busy.
LEMMA SetStepIsRecord ==
    ASSUME RegistrationTypes, NEW k \in Key, NEW step \in HandlerStep
    PROVE  /\ [handler[k] EXCEPT !.step = step] \in HandlerRecord
           /\ [handler[k] EXCEPT !.step = step].step = step
           /\ [handler[k] EXCEPT !.step = step].n = handler[k].n
           /\ [handler[k] EXCEPT !.step = step].read = handler[k].read
BY DEF RegistrationTypes, HandlerRecord

\* A step of one request makes at most that one busy.
LEMMA BusyNext ==
    ASSUME RegistrationIInv, NEW k \in Key, \A j \in Key : j # k => handler'[j] = handler[j]
    PROVE  /\ Busy' \subseteq Busy \cup {k}
           /\ handler'[k].step \notin Counting => Busy' \subseteq Busy
           /\ handler[k].step \in Counting => Busy' \subseteq Busy
           /\ \A S \in SUBSET Busy : Cardinality(S) <= peak
           /\ \A S \in SUBSET (Busy \cup {k}) : Cardinality(S) <= Cardinality(Busy) + 1
<1>1. /\ Busy' \subseteq Busy \cup {k}
      /\ handler'[k].step \notin Counting => Busy' \subseteq Busy
      /\ handler[k].step \in Counting => Busy' \subseteq Busy
    BY DEF Busy
<1>2. IsFiniteSet(Busy) /\ Cardinality(Busy) \in Nat
    BY SmallSets DEF RegistrationIInv
<1>3. ASSUME NEW S \in SUBSET Busy PROVE Cardinality(S) <= peak
  <2>1. Cardinality(S) <= Cardinality(Busy) /\ Cardinality(S) \in Nat
      BY <1>2, FS_Subset, FS_CardinalityType
  <2>2. QED
      BY <1>2, <2>1 DEF RegistrationIInv, BusyAtPeak, RegistrationTypes
<1>4. ASSUME NEW S \in SUBSET (Busy \cup {k}) PROVE Cardinality(S) <= Cardinality(Busy) + 1
  <2>1. IsFiniteSet(Busy \cup {k}) /\ Cardinality(Busy \cup {k}) <= Cardinality(Busy) + 1
    <3>1. CASE k \in Busy
      <4>1. Busy \cup {k} = Busy
          BY <3>1
      <4>2. QED
          BY <1>2, <4>1
    <3>2. CASE k \notin Busy
      <4>1. /\ IsFiniteSet(Busy \cup {k})
            /\ Cardinality(Busy \cup {k}) = IF k \in Busy THEN Cardinality(Busy)
                                             ELSE Cardinality(Busy) + 1
          BY <1>2, FS_AddElement
      <4>2. QED
          BY <1>2, <3>2, <4>1
    <3>3. QED
        BY <3>1, <3>2
  <2>2. /\ Cardinality(S) <= Cardinality(Busy \cup {k}) /\ Cardinality(S) \in Nat
        /\ Cardinality(Busy \cup {k}) \in Nat
      BY <2>1, FS_Subset, FS_CardinalityType
  <2>3. QED
      BY <1>2, <2>1, <2>2
<1>5. QED
    BY <1>1, <1>3, <1>4

\* The holder agrees or declines.
LEMMA Deciding ==
    ASSUME RegistrationIInv, NEW k \in Key, NEW exact \in BOOLEAN, Decide(k, exact)
    PROVE  RegistrationIInv'
<1>1. /\ UNCHANGED <<counters, window, registered, admitted, uncounted, peak>>
      /\ flow[k] = "validated" /\ handler[k].step = "none"
    BY DEF Decide, historyVars, RegistrationIInv, Sequenced
<1>2. PICK step \in FlowStep : StepFlow(k, step) /\ step \in {"posted", "declined"}
    BY DEF Decide, FlowStep
<1>3. flow' \in [Key -> FlowStep] /\ Touched \subseteq Touched' /\ IsFiniteSet(Touched')
    BY <1>2, FlowSet DEF RegistrationIInv
<1>4. \A j \in Key : flow'[j] \in {"none", "requested", "validated"} =>
          flow[j] = flow'[j] /\ j # k
    BY <1>2 DEF StepFlow, RegistrationIInv, RegistrationTypes
<1>5. CASE exact
  <2> DEFINE h == [handler[k] EXCEPT !.step = "arriving"]
  <2>1. handler' = [handler EXCEPT ![k] = h] /\ h \in HandlerRecord /\ h.step = "arriving"
      BY <1>5, SetStepIsRecord DEF Decide, HandlerStep, RegistrationIInv
  <2> HIDE DEF h
  <2>2. Cardinality(Busy') <= peak' /\ peak' \in Nat /\ peak <= peak'
    <3>1. handler'[k].step \notin Counting /\ \A j \in Key : j # k => handler'[j] = handler[j]
        BY <2>1 DEF RegistrationIInv, RegistrationTypes, Counting
    <3>2. QED
        BY <1>1, <3>1, BusyNext DEF RegistrationIInv, RegistrationTypes
  <2>3. QED
      BY <1>1, <1>3, <1>4, <2>1, <2>2, QuietHandler
<1>6. CASE ~exact
  <2>1. handler' = handler
      BY <1>6 DEF Decide, RegistrationIInv, RegistrationTypes, HandlerRecord
  <2>2. QED
      BY <1>1, <1>3, <1>4, <2>1, UnseenStep DEF RegistrationIInv, Sequenced
<1>7. QED
    BY <1>5, <1>6

\* A request is let in to the checks, and the peak follows.
LEMMA VerifyingApp ==
    ASSUME RegistrationIInv, NEW k \in Key, NEW answered \in BOOLEAN, VerifyApp(k, answered)
    PROVE  RegistrationIInv'
<1> DEFINE passed == press = "ready" /\ answered /\ appGood
           step == IF passed THEN "check" ELSE "refused"
           h == [handler[k] EXCEPT !.step = step]
<1>1. /\ handler[k].step = "arriving" /\ handler' = [handler EXCEPT ![k] = h]
      /\ peak' = IF passed /\ Cardinality(Busy) >= peak THEN Cardinality(Busy) + 1 ELSE peak
      /\ UNCHANGED <<flow, counters, window, registered, admitted, uncounted>>
    BY DEF VerifyApp, StepHandler, walletVars
<1>0. step \in HandlerStep /\ step \in {"check", "refused"}
    BY DEF HandlerStep, Counting
<1>2. h \in HandlerRecord /\ h.step = step
  <2> HIDE DEF step
  <2>1. QED
      BY <1>0, SetStepIsRecord DEF RegistrationIInv
<1> HIDE DEF h
<1>3. /\ handler'[k] = h /\ \A j \in Key : j # k => handler'[j] = handler[j]
    BY <1>1, <1>2, HandlerSet DEF RegistrationIInv
<1>4. Cardinality(Busy) \in Nat /\ peak \in Nat /\ IsFiniteSet(Busy)
    BY SmallSets DEF RegistrationIInv, RegistrationTypes
<1>5. Cardinality(Busy') <= peak' /\ peak' \in Nat /\ peak <= peak'
  <2>1. CASE passed
    <3>1. Cardinality(Busy') <= Cardinality(Busy) + 1
        BY <1>3, BusyNext
    <3>2. Cardinality(Busy') \in Nat
      <4>1. Busy' \subseteq Busy \cup {k} /\ IsFiniteSet(Busy \cup {k})
          BY <1>3, <1>4, BusyNext, FS_AddElement
      <4>2. QED
          BY <4>1, FS_Subset, FS_CardinalityType
    <3>3. QED
        BY <1>1, <1>4, <2>1, <3>1, <3>2
  <2>2. CASE ~passed
    <3>1. Cardinality(Busy') <= peak
        BY <1>2, <1>3, <2>2, BusyNext DEF Counting
    <3>2. QED
        BY <1>1, <1>4, <2>2, <3>1
  <2>3. QED
      BY <2>1, <2>2
<1>6. \A j \in Key : flow'[j] \in {"none", "requested", "validated"} =>
          flow[j] = flow'[j] /\ j # k
    BY <1>1 DEF RegistrationIInv, Sequenced
<1>7. /\ flow' \in [Key -> FlowStep] /\ Touched \subseteq Touched' /\ IsFiniteSet(Touched')
    BY <1>1 DEF RegistrationIInv, RegistrationTypes, OfTouched, Touched
<1> HIDE DEF step
<1>8. QED
    BY <1>0, <1>1, <1>2, <1>5, <1>6, <1>7, QuietHandler

\* The answer, which may be lost.
LEMMA Answering ==
    ASSUME RegistrationIInv, NEW k \in Key, NEW arrives \in BOOLEAN, Answer(k, arrives)
    PROVE  RegistrationIInv'
<1> DEFINE h == [handler[k] EXCEPT !.step = "over"]
<1>1. /\ handler[k].step \in {"answer", "refused"} /\ handler' = [handler EXCEPT ![k] = h]
      /\ UNCHANGED <<counters, window, registered, admitted, uncounted, peak>>
    BY DEF Answer, StepHandler, historyVars
<1>2. h \in HandlerRecord /\ h.step = "over"
    BY SetStepIsRecord DEF HandlerStep, RegistrationIInv
<1> HIDE DEF h
<1>3. PICK step \in FlowStep : StepFlow(k, step) /\ step \in {"registered", "not registered"}
    BY DEF Answer, FlowStep
<1>4. flow' \in [Key -> FlowStep] /\ Touched \subseteq Touched' /\ IsFiniteSet(Touched')
    BY <1>3, FlowSet DEF RegistrationIInv
<1>5. \A j \in Key : flow'[j] \in {"none", "requested", "validated"} =>
          flow[j] = flow'[j] /\ j # k
    BY <1>3 DEF StepFlow, RegistrationIInv, RegistrationTypes
<1>6. Cardinality(Busy') <= peak' /\ peak' \in Nat /\ peak <= peak'
  <2>1. handler'[k].step \notin Counting /\ \A j \in Key : j # k => handler'[j] = handler[j]
      BY <1>1, <1>2, HandlerSet DEF RegistrationIInv, Counting
  <2>2. QED
      BY <1>1, <2>1, BusyNext DEF RegistrationIInv, RegistrationTypes
<1>7. QED
    BY <1>1, <1>2, <1>4, <1>5, <1>6, QuietHandler

\* A request that stays busy, or ends, leaves the peak where it is.
LEMMA StaysUnderPeak ==
    ASSUME RegistrationIInv, NEW k \in Key, handler[k].step \in Counting,
           \A j \in Key : j # k => handler'[j] = handler[j], peak' = peak
    PROVE  BusyAtPeak'
<1>1. Busy' \subseteq Busy
    BY BusyNext
<1>2. Cardinality(Busy') <= peak
    BY <1>1, BusyNext
<1>3. QED
    BY <1>2 DEF BusyAtPeak

\* The value read is not behind what is counted for good.
LEMMA ReadingCount ==
    ASSUME RegistrationIInv, NEW k \in Key, ReadCount(k)
    PROVE  RegistrationIInv'
<1> DEFINE e == Counted(k)[handler[k].n]
           h == [handler[k] EXCEPT !.step = "write", !.read = counters[e]]
<1>1. /\ handler[k].step = "read"
      /\ UNCHANGED <<flow, counters, window, registered, admitted, uncounted, peak>>
    BY DEF ReadCount, walletVars, historyVars
<1>2. handler[k] \in HandlerRecord /\ handler[k].n \in 1..4 /\ e \in Entity
    BY RegistrationAssumption
    DEF RegistrationIInv, RegistrationTypes, HandlerRecord, Counted
<1>3. counters[e] \in Nat
    BY <1>2 DEF RegistrationIInv, RegistrationTypes
<1>4. handler' = [handler EXCEPT ![k] = h]
    BY DEF ReadCount, RegistrationIInv, RegistrationTypes
<1>5. /\ h \in HandlerRecord /\ h.step = "write" /\ h.n = handler[k].n
      /\ h.read = counters[e]
    BY <1>2, <1>3 DEF HandlerRecord, HandlerStep, Counting
<1> HIDE DEF h
<1>6. /\ handler' \in [Key -> HandlerRecord] /\ handler'[k] = h
      /\ \A j \in Key : j # k => handler'[j] = handler[j]
    BY <1>4, <1>5, HandlerSet DEF RegistrationIInv
<1>7. RegistrationTypes' /\ OfTouched' /\ Sequenced'
    BY <1>1, <1>5, <1>6, SMTT(30)
    DEF RegistrationIInv, RegistrationTypes, OfTouched, Touched, Sequenced
<1>8. BusyAtPeak'
    BY <1>1, <1>6, StaysUnderPeak DEF Counting
<1>9. \A x : Clean(x)' = Clean(x)
  <2>1. \A x : \A j \in Key : Owed(j, x)' <=> Owed(j, x)
      BY <1>1, <1>5, <1>6 DEF Owed, Counted
  <2>2. registered \subseteq Key
      BY DEF RegistrationIInv, RegistrationTypes
  <2>3. QED
      BY <1>1, <2>1, <2>2 DEF Clean
<1>10. CleanAreCounted'
  <2> SUFFICES ASSUME NEW x \in Entity \ {Policy}
               PROVE  /\ Cardinality(Clean(x)) <= counters[x]
                      /\ \A j \in Key :
                            handler'[j].step = "write" /\ Counted(j)[handler'[j].n] = x =>
                                Cardinality(Clean(x)) <= handler'[j].read
      BY <1>1, <1>9 DEF CleanAreCounted, Counted
  <2>1. Cardinality(Clean(x)) <= counters[x]
      BY DEF RegistrationIInv, CleanAreCounted
  <2>2. ASSUME NEW j \in Key, handler'[j].step = "write", Counted(j)[handler'[j].n] = x
        PROVE  Cardinality(Clean(x)) <= handler'[j].read
    <3>1. CASE j = k
        BY <1>5, <1>6, <2>1, <2>2, <3>1
    <3>2. CASE j # k
        BY <1>6, <2>2, <3>2 DEF RegistrationIInv, CleanAreCounted
    <3>3. QED
        BY <3>1, <3>2
  <2>3. QED
      BY <2>1, <2>2
<1>11. \A x \in Entity, w \in Nat : Underway(x, w)' \subseteq Underway(x, w)
    BY <1>1, <1>5, <1>6 DEF Underway
<1>12. UnderwayBounded'
  <2>1. peak <= peak'
      BY <1>1 DEF RegistrationIInv, RegistrationTypes
  <2>2. QED
      BY <1>1, <1>7, <1>11, <2>1, BoundKept
<1>13. QED
    BY <1>7, <1>8, <1>10, <1>12 DEF RegistrationIInv

\* A write counts, or is noted as one that overlapped.
LEMMA WritingCount ==
    ASSUME RegistrationIInv, NEW k \in Key, WriteCount(k)
    PROVE  RegistrationIInv'
<1> DEFINE n == handler[k].n
           e == Counted(k)[n]
           h == IF n < 4 THEN [step |-> "read", n |-> n + 1, read |-> 0]
                ELSE [handler[k] EXCEPT !.step = "answer"]
<1>1. /\ handler[k].step = "write" /\ UNCHANGED <<flow, window, registered, admitted, peak>>
      /\ counters' = [counters EXCEPT ![e] = handler[k].read + 1]
      /\ uncounted' = IF Overlapping(k, e) = {} THEN uncounted
                      ELSE uncounted \cup {<<j, e>> : j \in Overlapping(k, e) \cup {k}}
    BY DEF WriteCount, walletVars
<1>2. /\ handler[k] \in HandlerRecord /\ n \in 1..4 /\ handler[k].read \in Nat
      /\ e \in Entity
    BY RegistrationAssumption
    DEF RegistrationIInv, RegistrationTypes, HandlerRecord, Counted
<1>3. handler' = [handler EXCEPT ![k] = h]
    BY DEF WriteCount, RegistrationIInv, RegistrationTypes
<1>4. /\ h \in HandlerRecord /\ h.step \in {"read", "answer"}
      /\ h.step = "read" => h.n = n + 1
      /\ h.step = "answer" => n = 4
    BY <1>2 DEF HandlerRecord, HandlerStep, Counting
<1> HIDE DEF h
<1>5. /\ handler' \in [Key -> HandlerRecord] /\ handler'[k] = h
      /\ \A j \in Key : j # k => handler'[j] = handler[j]
    BY <1>3, <1>4, HandlerSet DEF RegistrationIInv
<1>6. /\ counters' \in [Entity -> Nat] /\ counters'[e] = handler[k].read + 1
      /\ \A x \in Entity : x # e => counters'[x] = counters[x]
    BY <1>1, <1>2 DEF RegistrationIInv, RegistrationTypes
<1>7. /\ uncounted \subseteq uncounted' /\ uncounted' \subseteq Key \X Entity
      /\ \A j \in Key, x \in Entity : <<j, x>> \in uncounted' =>
            <<j, x>> \in uncounted \/ j = k \/ handler[j].step = "write"
      /\ Overlapping(k, e) # {} => <<k, e>> \in uncounted'
    BY <1>1, <1>2 DEF Overlapping, RegistrationIInv, RegistrationTypes
<1>8. RegistrationTypes' /\ OfTouched' /\ Sequenced'
  <2>1. RegistrationTypes'
      BY <1>1, <1>5, <1>6, <1>7 DEF RegistrationIInv, RegistrationTypes
  <2>2. Sequenced'
    <3>1. /\ handler'[k].step \in {"read", "answer"}
          /\ \A j \in Key : j # k => handler'[j].step = handler[j].step
        BY <1>4, <1>5
    <3>2. flow[k] \notin {"none", "requested", "validated"}
        BY <1>1 DEF RegistrationIInv, Sequenced
    <3> HIDE DEF e, n
    <3>3. \A j \in registered' :
              handler'[j].step \in {"read", "write", "answer", "refused", "over"}
        BY <1>1, <3>1 DEF RegistrationIInv, RegistrationTypes, Sequenced
    <3>4. \A j \in Key, x \in Entity, w \in Nat : <<j, x, w>> \in admitted' =>
              /\ w <= window' /\ x \in {HolderOf[j], AppOf[j], Policy}
              /\ handler'[j].step \notin {"none", "arriving"}
        BY <1>1, <3>1 DEF RegistrationIInv, Sequenced
    <3>5. \A j \in Key : flow'[j] \in {"none", "requested", "validated"} =>
              handler'[j].step = "none"
        BY <1>1, <3>1, <3>2 DEF RegistrationIInv, Sequenced
    <3>6. QED
        BY <3>3, <3>4, <3>5 DEF Sequenced
  <2>3. OfTouched'
    <3>1. \A j \in Key : j = k \/ handler[j].step = "write" => j \in Touched
        BY <1>1 DEF Touched, RegistrationIInv, Sequenced
    <3>2. Touched' = Touched /\ registered' = registered
        BY <1>1 DEF Touched
    <3>3. QED
        BY <1>7, <3>1, <3>2 DEF RegistrationIInv, OfTouched
  <2>4. QED
      BY <2>1, <2>2, <2>3
<1>9. BusyAtPeak'
    BY <1>1, <1>5, StaysUnderPeak DEF Counting
<1>10. /\ \A x : x # e => Clean(x)' \subseteq Clean(x)
       /\ \A x : x = e => Clean(x)' \subseteq Clean(x) \cup {k}
       /\ \A x : x = e /\ Overlapping(k, e) # {} => Clean(x)' \subseteq Clean(x)
  <2>1. registered \subseteq Key
      BY DEF RegistrationIInv, RegistrationTypes
  <2>2. \A x : \A j \in Key : j # k => (Owed(j, x)' <=> Owed(j, x))
      BY <1>5 DEF Owed, Counted
  <2>3. \A x : x # e /\ Owed(k, x) => Owed(k, x)'
    <3> SUFFICES ASSUME NEW x, x # e, Owed(k, x) PROVE Owed(k, x)'
        OBVIOUS
    <3>1. PICK i \in n..4 : Counted(k)[i] = x
        BY DEF Owed
    <3>2. i # n
        BY <3>1
    <3>3. i \in (n + 1)..4
        BY <1>2, <3>1, <3>2
    <3>4. h.step = "read" /\ h.n = n + 1
        BY <1>2, <1>4, <3>3
    <3>5. QED
        BY <1>5, <3>1, <3>3, <3>4 DEF Owed, Counted
  <2>4. ASSUME NEW x, NEW j \in Clean(x)', j # k PROVE j \in Clean(x)
      BY <1>1, <1>7, <2>1, <2>2, <2>4 DEF Clean
  <2>5. ASSUME NEW x, x # e, k \in Clean(x)' PROVE k \in Clean(x)
      BY <1>1, <1>7, <2>1, <2>3, <2>5 DEF Clean
  <2>6. ASSUME NEW x, x = e, Overlapping(k, e) # {} PROVE k \notin Clean(x)'
      BY <1>7, <2>6 DEF Clean
  <2>7. QED
      BY <2>4, <2>5, <2>6
<1>11. CleanAreCounted'
  <2> SUFFICES ASSUME NEW x \in Entity \ {Policy}
               PROVE  /\ Cardinality(Clean(x)') <= counters'[x]
                      /\ \A j \in Key :
                            handler'[j].step = "write" /\ Counted(j)[handler'[j].n] = x =>
                                Cardinality(Clean(x)') <= handler'[j].read
      BY DEF CleanAreCounted, Counted
  <2>1. /\ IsFiniteSet(Clean(x)) /\ Cardinality(Clean(x)) \in Nat
        /\ IsFiniteSet(Clean(x)') /\ Cardinality(Clean(x)') \in Nat
      BY <1>8, SmallSets, SmallSetsNext DEF RegistrationIInv
  <2>2. \A j \in Key : handler'[j].step = "write" =>
            j # k /\ handler'[j] = handler[j]
      BY <1>4, <1>5
  <2>3. /\ Cardinality(Clean(x)) <= counters[x]
        /\ \A j \in Key : handler[j].step = "write" /\ Counted(j)[handler[j].n] = x =>
              Cardinality(Clean(x)) <= handler[j].read
      BY DEF RegistrationIInv, CleanAreCounted
  <2>4. counters[x] \in Nat /\ counters'[x] \in Nat
      BY <1>6 DEF RegistrationIInv, RegistrationTypes
  <2>5. \A j \in Key : handler[j].read \in Nat
      BY DEF RegistrationIInv, RegistrationTypes, HandlerRecord
  <2>6. CASE x # e
    <3>1. Cardinality(Clean(x)') <= Cardinality(Clean(x))
        BY <1>10, <2>1, <2>6, SubsetIsNoLarger
    <3>2. counters'[x] = counters[x]
        BY <1>6, <2>6
    <3>3. QED
        BY <2>1, <2>2, <2>3, <2>4, <2>5, <3>1, <3>2
  <2>7. CASE x = e /\ Overlapping(k, e) # {}
    <3>1. Cardinality(Clean(x)') <= Cardinality(Clean(x))
        BY <1>10, <2>1, <2>7, SubsetIsNoLarger
    <3>2. Cardinality(Clean(x)) <= handler[k].read
        BY <1>1, <2>3, <2>7
    <3>3. counters'[x] = handler[k].read + 1
        BY <1>6, <2>7
    <3>4. QED
        BY <1>2, <2>1, <2>2, <2>3, <2>5, <3>1, <3>2, <3>3
  <2>8. CASE x = e /\ Overlapping(k, e) = {}
    <3>1. Cardinality(Clean(x)') <= Cardinality(Clean(x)) + 1
      <4>1. IsFiniteSet(Clean(x) \cup {k})
            /\ Cardinality(Clean(x) \cup {k}) \in Nat
            /\ Cardinality(Clean(x) \cup {k}) <= Cardinality(Clean(x)) + 1
        <5>1. /\ IsFiniteSet(Clean(x) \cup {k})
              /\ Cardinality(Clean(x) \cup {k}) =
                    IF k \in Clean(x) THEN Cardinality(Clean(x))
                    ELSE Cardinality(Clean(x)) + 1
            BY <2>1, FS_AddElement
        <5>2. CASE k \in Clean(x)
            BY <2>1, <5>1, <5>2
        <5>3. CASE k \notin Clean(x)
            BY <2>1, <5>1, <5>3
        <5>4. QED
            BY <5>2, <5>3
      <4>2. Cardinality(Clean(x)') <= Cardinality(Clean(x) \cup {k})
          BY <1>10, <2>8, <4>1, SubsetIsNoLarger
      <4>3. QED
          BY <2>1, <4>1, <4>2
    <3>2. Cardinality(Clean(x)) <= handler[k].read
        BY <1>1, <2>3, <2>8
    <3>3. counters'[x] = handler[k].read + 1
        BY <1>6, <2>8
    <3>4. \A j \in Key :
              ~(handler'[j].step = "write" /\ Counted(j)[handler'[j].n] = x)
        BY <2>2, <2>8 DEF Overlapping
    <3>5. QED
        BY <1>2, <2>1, <3>1, <3>2, <3>3, <3>4
  <2>9. QED
      BY <2>6, <2>7, <2>8
<1>12. \A x \in Entity, w \in Nat : Underway(x, w)' \subseteq Underway(x, w)
    BY <1>1, <1>4, <1>5 DEF Underway
<1>13. UnderwayBounded'
  <2>1. peak <= peak'
      BY <1>1 DEF RegistrationIInv, RegistrationTypes
  <2>2. QED
      BY <1>7, <1>8, <1>12, <2>1, BoundKept
<1>14. QED
    BY <1>8, <1>9, <1>11, <1>13 DEF RegistrationIInv

\* One check of a request: it passes and goes on, or is refused.
LEMMA CheckingLimit ==
    ASSUME RegistrationIInv, NEW k \in Key, CheckLimit(k)
    PROVE  RegistrationIInv'
<1> DEFINE n == handler[k].n
           e == Counted(k)[n]
           h == IF ~BelowLimit(e) THEN [handler[k] EXCEPT !.step = "refused"]
                ELSE IF n < 4 THEN [handler[k] EXCEPT !.n = n + 1]
                ELSE [handler[k] EXCEPT !.step = "register"]
<1>1. /\ handler[k].step = "check"
      /\ UNCHANGED <<flow, counters, window, registered, uncounted, peak>>
      /\ admitted' = IF BelowLimit(e) THEN admitted \cup {<<k, e, window>>} ELSE admitted
    BY DEF CheckLimit, walletVars
<1>2. /\ handler[k] \in HandlerRecord /\ n \in 1..4
      /\ e \in Entity /\ e \in {HolderOf[k], AppOf[k], Policy}
    BY RegistrationAssumption
    DEF RegistrationIInv, RegistrationTypes, HandlerRecord, Counted
<1>3. handler' = [handler EXCEPT ![k] = h]
    BY DEF CheckLimit, RegistrationIInv, RegistrationTypes
<1>4. /\ h \in HandlerRecord /\ h.step \in {"check", "register", "refused"}
      /\ ~BelowLimit(e) => h.step = "refused"
    BY <1>1, <1>2 DEF HandlerRecord, HandlerStep, Counting
<1> HIDE DEF h
<1>5. /\ handler' \in [Key -> HandlerRecord] /\ handler'[k] = h
      /\ \A j \in Key : j # k => handler'[j] = handler[j]
    BY <1>3, <1>4, HandlerSet DEF RegistrationIInv
<1>6. window \in Nat /\ window' = window /\ registered \subseteq Key /\ k \notin registered
    BY <1>1 DEF RegistrationIInv, RegistrationTypes, Sequenced
<1>7. RegistrationTypes' /\ OfTouched' /\ Sequenced'
  <2>1. RegistrationTypes'
      BY <1>1, <1>2, <1>5, <1>6 DEF RegistrationIInv, RegistrationTypes
  <2>2. OfTouched'
      BY <1>1 DEF RegistrationIInv, OfTouched, Touched
  <2>3. Sequenced'
    <3> HIDE DEF e, n
    <3>1. /\ handler'[k].step \in {"check", "register", "refused"}
          /\ \A j \in Key : j # k => handler'[j].step = handler[j].step
        BY <1>4, <1>5
    <3>2. \A j \in registered' :
              handler'[j].step \in {"read", "write", "answer", "refused", "over"}
        BY <1>1, <1>6, <3>1 DEF RegistrationIInv, Sequenced
    <3>3. ASSUME NEW j \in Key, NEW x \in Entity, NEW w \in Nat, <<j, x, w>> \in admitted'
          PROVE  /\ w <= window' /\ x \in {HolderOf[j], AppOf[j], Policy}
                 /\ handler'[j].step \notin {"none", "arriving"}
      <4>1. CASE <<j, x, w>> \in admitted
          BY <1>6, <3>1, <4>1 DEF RegistrationIInv, Sequenced
      <4>2. CASE j = k /\ x = e /\ w = window
          BY <1>2, <1>6, <3>1, <4>2
      <4>3. QED
          BY <1>1, <3>3, <4>1, <4>2
    <3>4. \A j \in Key : flow'[j] \in {"none", "requested", "validated"} =>
              handler'[j].step = "none"
        BY <1>1, <3>1 DEF RegistrationIInv, Sequenced
    <3>5. QED
        BY <3>2, <3>3, <3>4 DEF Sequenced
  <2>4. QED
      BY <2>1, <2>2, <2>3
<1>8. BusyAtPeak'
    BY <1>1, <1>5, StaysUnderPeak DEF Counting
<1>9. \A x : Clean(x)' = Clean(x)
  <2>1. \A x : \A j \in registered : Owed(j, x)' <=> Owed(j, x)
      BY <1>5, <1>6 DEF Owed, Counted
  <2>2. \A x, w : \A j \in registered : <<j, x, w>> \in admitted' <=> <<j, x, w>> \in admitted
      BY <1>1, <1>6
  <2>3. QED
      BY <1>1, <2>1, <2>2 DEF Clean
<1>10. CleanAreCounted'
  <2>1. \A j \in Key : handler'[j].step = "write" => handler'[j] = handler[j]
      BY <1>4, <1>5
  <2>2. QED
      BY <1>1, <1>9, <2>1 DEF RegistrationIInv, CleanAreCounted, Counted
<1>11. UnderwayBounded'
  <2> SUFFICES ASSUME NEW x \in Entity \ {Policy}, NEW w \in Nat, Underway(x, w)' # {}
               PROVE  Cardinality(Underway(x, w)') <=
                          Limit[x] - 1 + peak + Cardinality(Uncounted(x))
      BY <1>1 DEF UnderwayBounded, Uncounted
  <2>1. CASE x = e /\ w = window /\ BelowLimit(e)
    <3>1. Underway(x, w)' \subseteq Busy \cup Clean(x) \cup Uncounted(x)
      <4> SUFFICES ASSUME NEW j \in Underway(x, w)', j \notin Busy, j \notin Uncounted(x)
                   PROVE  j \in Clean(x)
          OBVIOUS
      <4>1. j # k /\ j \in Key /\ handler'[j] = handler[j]
          BY <1>1, <1>5 DEF Underway, Busy, Counting
      <4>2. <<j, x, w>> \in admitted /\ j \in registered
          BY <1>1, <4>1 DEF Underway, Busy, Counting
      <4>3. ~Owed(j, x) /\ <<j, x>> \notin uncounted
          BY <4>1 DEF Owed, Busy, Counting, Uncounted
      <4>4. QED
          BY <2>1, <4>2, <4>3 DEF Clean
    <3>2. /\ IsFiniteSet(Busy) /\ Cardinality(Busy) \in Nat
          /\ IsFiniteSet(Clean(x)) /\ Cardinality(Clean(x)) \in Nat
          /\ IsFiniteSet(Uncounted(x)) /\ Cardinality(Uncounted(x)) \in Nat
          /\ Cardinality(Underway(x, w)') \in Nat
        BY <1>7, SmallSets, SmallSetsNext DEF RegistrationIInv
    <3>3. Cardinality(Underway(x, w)') <=
              Cardinality(Busy) + Cardinality(Clean(x)) + Cardinality(Uncounted(x))
        BY <3>1, <3>2, ThreeSets
    <3>4. Cardinality(Busy) <= peak /\ peak \in Nat
        BY DEF RegistrationIInv, BusyAtPeak, RegistrationTypes
    <3>5. Cardinality(Clean(x)) <= Limit[x] - 1
      <4>1. Cardinality(Clean(x)) <= counters[x] /\ counters[x] \in Nat
          BY DEF RegistrationIInv, CleanAreCounted, RegistrationTypes
      <4>2. counters[x] < Limit[x] /\ Limit[x] \in Nat
          BY <2>1, RegistrationAssumption DEF BelowLimit
      <4>3. QED
          BY <3>2, <4>1, <4>2
    <3>6. Limit[x] \in Nat
        BY RegistrationAssumption
    <3>7. QED
        BY <3>2, <3>3, <3>4, <3>5, <3>6
  <2>2. CASE ~(x = e /\ w = window /\ BelowLimit(e))
    <3>1. \A j : <<j, x, w>> \in admitted' => <<j, x, w>> \in admitted
        BY <1>1, <2>2
    <3>2. Underway(x, w)' \subseteq Underway(x, w)
        BY <1>1, <1>5, <1>6, <3>1 DEF Underway
    <3>3. /\ Cardinality(Underway(x, w)') <= Cardinality(Underway(x, w))
          /\ Cardinality(Underway(x, w)') \in Nat /\ Cardinality(Underway(x, w)) \in Nat
          /\ Cardinality(Uncounted(x)) \in Nat
        BY <1>7, <3>2, SmallSets, SmallSetsNext, SubsetIsNoLarger DEF RegistrationIInv
    <3>4. Cardinality(Underway(x, w)) <= Limit[x] - 1 + peak + Cardinality(Uncounted(x))
        BY <3>2 DEF RegistrationIInv, UnderwayBounded
    <3>5. Limit[x] \in Nat /\ peak \in Nat
        BY RegistrationAssumption DEF RegistrationIInv, RegistrationTypes
    <3>6. QED
        BY <3>3, <3>4, <3>5
  <2>3. QED
      BY <2>1, <2>2
<1>12. QED
    BY <1>7, <1>8, <1>10, <1>11 DEF RegistrationIInv

\* A transaction is sent or not; one whose receipt is not seen may not count.
LEMMA RegisteringKey ==
    ASSUME RegistrationIInv, NEW k \in Key, NEW enough \in BOOLEAN, NEW waited \in BOOLEAN,
           Register(k, enough, waited)
    PROVE  RegistrationIInv'
<1> DEFINE h == [step |-> IF enough /\ waited THEN "read" ELSE "refused", n |-> 1, read |-> 0]
<1>1. /\ handler[k].step = "register" /\ handler' = [handler EXCEPT ![k] = h]
      /\ UNCHANGED <<flow, counters, window, admitted, peak>>
      /\ registered' = IF enough THEN registered \cup {k} ELSE registered
      /\ uncounted' = IF enough /\ ~waited
                      THEN uncounted \cup {<<k, x>> : x \in Entity} ELSE uncounted
    BY DEF Register, walletVars
<1>2. /\ h \in HandlerRecord /\ h.n = 1
      /\ h.step = IF enough /\ waited THEN "read" ELSE "refused"
    BY DEF HandlerRecord, HandlerStep, Counting
<1> HIDE DEF h
<1>3. /\ handler' \in [Key -> HandlerRecord] /\ handler'[k] = h
      /\ \A j \in Key : j # k => handler'[j] = handler[j]
    BY <1>1, <1>2, HandlerSet DEF RegistrationIInv
<1>4. /\ k \in Touched /\ k \notin registered /\ registered \subseteq Key
      /\ flow[k] \notin {"none", "requested", "validated"}
    BY <1>1 DEF RegistrationIInv, RegistrationTypes, Touched, Sequenced
<1>5. /\ uncounted \subseteq uncounted' /\ uncounted' \subseteq Key \X Entity
      /\ \A j \in Key, x \in Entity : <<j, x>> \in uncounted' =>
            <<j, x>> \in uncounted \/ j = k
    BY <1>1 DEF RegistrationIInv, RegistrationTypes
<1>6. RegistrationTypes' /\ OfTouched' /\ Sequenced'
  <2>1. RegistrationTypes'
      BY <1>1, <1>3, <1>5 DEF RegistrationIInv, RegistrationTypes
  <2>2. OfTouched'
      BY <1>1, <1>4, <1>5 DEF RegistrationIInv, OfTouched, Touched
  <2>3. /\ handler'[k].step \in {"read", "refused"}
        /\ \A j \in Key : j # k => handler'[j].step = handler[j].step
      BY <1>2, <1>3
  <2>4. \A j \in registered' :
            handler'[j].step \in {"read", "write", "answer", "refused", "over"}
      BY <1>1, <1>4, <2>3 DEF RegistrationIInv, Sequenced
  <2>5. \A j \in Key, x \in Entity, w \in Nat : <<j, x, w>> \in admitted' =>
              /\ w <= window' /\ x \in {HolderOf[j], AppOf[j], Policy}
              /\ handler'[j].step \notin {"none", "arriving"}
      BY <1>1, <2>3 DEF RegistrationIInv, Sequenced
  <2>6. \A j \in Key : flow'[j] \in {"none", "requested", "validated"} =>
            handler'[j].step = "none"
      BY <1>1, <1>4, <2>3 DEF RegistrationIInv, Sequenced
  <2>7. QED
      BY <2>1, <2>2, <2>4, <2>5, <2>6 DEF Sequenced
<1>7. BusyAtPeak'
    BY <1>1, <1>3, StaysUnderPeak DEF Counting
<1>8. \A x \in Entity : Clean(x)' \subseteq Clean(x)
  <2> SUFFICES ASSUME NEW x \in Entity, NEW j \in Clean(x)' PROVE j \in Clean(x)
      OBVIOUS
  <2>1. CASE j # k
      BY <1>1, <1>3, <1>4, <1>5, <2>1 DEF Clean, Owed, Counted
  <2>2. CASE j = k
    <3>1. k \in registered' /\ <<k, x, window>> \in admitted /\ <<k, x>> \notin uncounted'
        BY <1>1, <2>2 DEF Clean
    <3>2. enough /\ waited
        BY <1>1, <1>4, <3>1
    <3>3. x \in {HolderOf[k], AppOf[k], Policy}
        BY <3>1 DEF RegistrationIInv, RegistrationTypes, Sequenced
    <3>4. \E i \in 1..4 : Counted(k)[i] = x
        BY <3>3 DEF Counted
    <3>5. Owed(k, x)'
        BY <1>2, <1>3, <3>2, <3>4 DEF Owed, Counted
    <3>6. QED
        BY <2>2, <3>5 DEF Clean
  <2>3. QED
      BY <2>1, <2>2
<1>9. CleanAreCounted'
  <2>1. \A j \in Key : handler'[j].step = "write" => handler'[j] = handler[j]
      BY <1>2, <1>3
  <2>2. \A j \in Key : handler[j].read \in Nat
      BY DEF RegistrationIInv, RegistrationTypes, HandlerRecord
  <2>3. QED
      BY <1>1, <1>6, <1>8, <2>1, <2>2, CountedStays
<1>10. \A x \in Entity, w \in Nat : Underway(x, w)' \subseteq Underway(x, w)
    BY <1>1, <1>2, <1>3, <1>4 DEF Underway
<1>11. UnderwayBounded'
  <2>1. peak <= peak'
      BY <1>1 DEF RegistrationIInv, RegistrationTypes
  <2>2. QED
      BY <1>5, <1>6, <1>10, <2>1, BoundKept
<1>12. QED
    BY <1>6, <1>7, <1>9, <1>11 DEF RegistrationIInv

\* Requests that are lost count no more; the registered ones among them never may.
LEMMA Crashing ==
    ASSUME RegistrationIInv, Crash
    PROVE  RegistrationIInv'
<1> DEFINE lost == {k \in Key : handler[k].step \notin {"none", "over"}}
           gone == [NoHandler EXCEPT !.step = "over"]
<1>1. /\ UNCHANGED <<counters, window, registered, admitted, peak>>
      /\ handler' = [k \in Key |-> IF k \in lost THEN gone ELSE handler[k]]
      /\ flow' = [k \in Key |-> IF k \in lost THEN "not registered" ELSE flow[k]]
      /\ uncounted' = uncounted \cup ((lost \cap registered) \X Entity)
    BY DEF Crash
<1>0. peak' = peak /\ peak \in Nat
    BY DEF Crash, RegistrationIInv, RegistrationTypes
<1>2. gone \in HandlerRecord /\ gone.step = "over"
    BY DEF NoHandler, HandlerRecord, HandlerStep
<1> HIDE DEF gone
<1>3. /\ handler' \in [Key -> HandlerRecord] /\ flow' \in [Key -> FlowStep]
      /\ \A k \in Key :
            /\ handler'[k].step \in {"none", "over"}
            /\ k \notin lost => handler'[k] = handler[k] /\ flow'[k] = flow[k]
            /\ k \in lost => handler'[k].step = "over" /\ flow'[k] = "not registered"
    BY <1>1, <1>2 DEF RegistrationIInv, RegistrationTypes, FlowStep
<1>4. \A k \in lost : flow[k] # "none"
    BY DEF RegistrationIInv, Sequenced
<1>5. Touched' = Touched
    BY <1>3, <1>4 DEF Touched
<1>6. /\ uncounted \subseteq uncounted' /\ uncounted' \subseteq Key \X Entity
      /\ \A j \in Key, x \in Entity : <<j, x>> \in uncounted' =>
            <<j, x>> \in uncounted \/ j \in registered
    BY <1>1 DEF RegistrationIInv, RegistrationTypes
<1>7. RegistrationTypes' /\ OfTouched' /\ Sequenced'
  <2>1. RegistrationTypes'
      BY <1>1, <1>3, <1>6 DEF RegistrationIInv, RegistrationTypes
  <2>2. OfTouched'
      BY <1>1, <1>5, <1>6 DEF RegistrationIInv, OfTouched
  <2>3. Sequenced'
      BY <1>1, <1>3 DEF RegistrationIInv, RegistrationTypes, Sequenced
  <2>4. QED
      BY <2>1, <2>2, <2>3
<1>8. BusyAtPeak'
  <2>1. Busy' = {}
      BY <1>3 DEF Busy, Counting
  <2>2. QED
      BY <1>0, <2>1, FS_EmptySet DEF BusyAtPeak
<1>9. \A x \in Entity : Clean(x)' \subseteq Clean(x)
  <2> SUFFICES ASSUME NEW x \in Entity, NEW j \in Clean(x)' PROVE j \in Clean(x)
      OBVIOUS
  <2>1. /\ j \in registered /\ j \in Key /\ <<j, x, window>> \in admitted
        /\ <<j, x>> \notin uncounted'
      BY <1>1 DEF Clean, RegistrationIInv, RegistrationTypes
  <2>2. j \notin lost
      BY <1>1, <2>1
  <2>3. QED
      BY <1>6, <2>1, <2>2 DEF Clean, Owed
<1>10. CleanAreCounted'
  <2>1. \A j \in Key : handler'[j].step # "write"
      BY <1>3
  <2>2. QED
      BY <1>1, <1>7, <1>9, <2>1, CountedStays
<1>11. \A x \in Entity, w \in Nat : Underway(x, w)' \subseteq Underway(x, w)
    BY <1>1, <1>3 DEF Underway
<1>12. UnderwayBounded'
  <2>1. peak <= peak'
      BY <1>0
  <2>2. QED
      BY <1>6, <1>7, <1>11, <2>1, BoundKept
<1>13. QED
    BY <1>7, <1>8, <1>10, <1>12 DEF RegistrationIInv

\* Nobody has been admitted in a window that begins.
LEMMA WindowBegins ==
    ASSUME RegistrationIInv, NextWindow
    PROVE  RegistrationIInv'
<1>1. /\ UNCHANGED <<flow, handler, registered, admitted, uncounted, peak>>
      /\ window' = window + 1 /\ counters' = [x \in Entity |-> 0] /\ window \in Nat
    BY DEF NextWindow, walletVars, historyVars, RegistrationIInv, RegistrationTypes
<1>2. RegistrationTypes' /\ OfTouched'
    BY <1>1 DEF RegistrationIInv, RegistrationTypes, OfTouched, Touched
<1>3. Sequenced'
  <2>1. \A w \in Nat : w <= window => w <= window'
      BY <1>1
  <2>2. QED
      BY <1>1, <2>1 DEF RegistrationIInv, Sequenced
<1>4. BusyAtPeak'
    BY <1>1 DEF RegistrationIInv, BusyAtPeak, Busy
<1>5. \A x \in Entity : Clean(x)' = {}
  <2> SUFFICES ASSUME NEW x \in Entity, NEW j \in Clean(x)' PROVE FALSE
      OBVIOUS
  <2>1. j \in Key /\ <<j, x, window + 1>> \in admitted
      BY <1>1 DEF Clean, RegistrationIInv, RegistrationTypes
  <2>2. window + 1 <= window
      BY <1>1, <2>1 DEF RegistrationIInv, Sequenced
  <2>3. QED
      BY <1>1, <2>2
<1>6. CleanAreCounted'
  <2>1. \A j \in Key : handler[j].read \in Nat
      BY DEF RegistrationIInv, RegistrationTypes, HandlerRecord
  <2>2. \A x \in Entity : Cardinality(Clean(x)') = 0
      BY <1>5, FS_EmptySet
  <2>3. QED
      BY <1>1, <2>1, <2>2 DEF CleanAreCounted
<1>7. \A x \in Entity, w \in Nat : Underway(x, w)' \subseteq Underway(x, w)
    BY <1>1 DEF Underway
<1>8. UnderwayBounded'
  <2>1. peak <= peak' /\ uncounted \subseteq uncounted'
      BY <1>1 DEF RegistrationIInv, RegistrationTypes
  <2>2. QED
      BY <1>2, <1>3, <1>7, <2>1, BoundKept
<1>9. QED
    BY <1>2, <1>3, <1>4, <1>6, <1>8 DEF RegistrationIInv

\* Every step of the app, the wallet, the press and the time.
LEMMA RegistrationStep ==
    RegistrationIInv /\ [RegistrationNext]_registrationVars => RegistrationIInv'
<1> SUFFICES ASSUME RegistrationIInv, [RegistrationNext]_registrationVars
             PROVE  RegistrationIInv'
    OBVIOUS
<1>1. flow \in [Key -> FlowStep] /\ IsFiniteSet(Touched)
    BY DEF RegistrationIInv, RegistrationTypes, OfTouched
<1>2. \A k \in Key : flow[k] \in {"none", "requested", "validated"} =>
          handler[k].step = "none"
    BY DEF RegistrationIInv, Sequenced
<1>3. CASE \/ UNCHANGED registrationVars \/ RevokeApp
           \/ \E ok \in BOOLEAN : StartUp(ok)
  <2>1. UNCHANGED <<flow, handler, counters, window, registered, admitted, uncounted, peak>>
      BY <1>3
      DEF registrationVars, walletVars, pressVars, historyVars, RevokeApp, StartUp
  <2>2. Touched' = Touched
      BY <2>1 DEF Touched
  <2>3. QED
      BY <1>1, <1>2, <2>1, <2>2, UnseenStep
<1>4. CASE \E k \in Key : Serve(k)
    BY <1>4, WalletSteps, Deciding, VerifyingApp, CheckingLimit, RegisteringKey,
       ReadingCount,
       WritingCount, Answering
    DEF Serve
<1>5. CASE Crash \/ NextWindow
    BY <1>5, Crashing, WindowBegins
<1>6. QED
    BY <1>3, <1>4, <1>5 DEF RegistrationNext

\* No more sub-cards of a holder or an app are registered in a window than the limit, plus
\* the most requests that were at once between their checks and their last count, plus
\* those whose count was lost or overlapped another (checkRateLimits, recordWrite).
THEOREM RegistrationsAreLimited == RegistrationSpec => []RateLimited
<1>1. RegistrationIInv => RateLimited
  <2> SUFFICES ASSUME RegistrationIInv, NEW e \in Entity \ {Policy}, NEW w \in 0..window,
                      Admitted(e, w) # {}
               PROVE  Cardinality(Admitted(e, w)) <=
                          Limit[e] - 1 + peak + Cardinality(Uncounted(e))
      BY DEF RateLimited, Uncounted
  <2>1. Admitted(e, w) \subseteq Underway(e, w) /\ w \in Nat
      BY DEF Admitted, Underway, RegistrationIInv, RegistrationTypes
  <2>2. Cardinality(Underway(e, w)) <= Limit[e] - 1 + peak + Cardinality(Uncounted(e))
      BY <2>1 DEF RegistrationIInv, UnderwayBounded
  <2>3. /\ Cardinality(Admitted(e, w)) <= Cardinality(Underway(e, w))
        /\ Cardinality(Admitted(e, w)) \in Nat
        /\ Cardinality(Underway(e, w)) \in Nat /\ Cardinality(Uncounted(e)) \in Nat
    <3>1. IsFiniteSet(Underway(e, w))
        BY SmallSets DEF RegistrationIInv
    <3>2. QED
        BY <2>1, <3>1, SmallSets, SubsetIsNoLarger, FS_Subset, FS_CardinalityType
        DEF RegistrationIInv
  <2>4. Limit[e] \in Nat /\ peak \in Nat
      BY RegistrationAssumption DEF RegistrationIInv, RegistrationTypes
  <2>5. QED
      BY <2>2, <2>3, <2>4
<1>2. QED
    BY <1>1, RegistrationInitial, RegistrationStep, PTL DEF RegistrationSpec

-----------------------------------------------------------------------------
(* SubCardDirectory                                                         *)

Pending(u) == updates[u].step \in {"posted", "append", "late"}

\* A copy that waits to be posted is right about every device, except those whose update
\* has landed since and those whose update was undone.
CopiesAgree ==
    \A u \in Update : Pending(u) =>
        \A d \in Device \ (undone \cup updates[u].since) :
            d \in updates[u].copy <=> d \in directory
UpdateRecord == [step : {"none", "posted", "append", "late", "over"}, code : {510, 511},
                 device : Device \cup {0}, copy : SUBSET Device, head : Nat,
                 since : SUBSET Device]
UpdatesAreRecords == updates \in [Update -> UpdateRecord]
DirectoryTypes ==
    /\ UpdatesAreRecords
    /\ \A u \in Update : Pending(u) => updates[u].device \in Device
    /\ directory \subseteq Device /\ head \in Nat
DirectoryIInv == DirectoryTypes /\ CopiesAgree /\ DirectoryKeepsUpdates

\* Nothing has been added.
LEMMA DirectoryInitial == DirectoryInit => DirectoryIInv
BY DEF DirectoryInit, DirectoryIInv, DirectoryTypes, UpdatesAreRecords, Pending,
   CopiesAgree,
   DirectoryKeepsUpdates, NoUpdate, UpdateRecord

\* An update on its way leaves the directory alone.
LEMMA Waiting ==
    ASSUME DirectoryIInv, NEW u \in Update,
           ReadHead(u) \/ RefuseStale(u) \/ AnswerEarly(u)
    PROVE  DirectoryIInv'
<1>1. UNCHANGED <<directory, head, intended, undone>> /\ Pending(u)
    BY DEF ReadHead, RefuseStale, AnswerEarly, Pending
<1>2. PICK r : /\ updates' = [updates EXCEPT ![u] = r]
               /\ \/ r = [updates[u] EXCEPT !.step = "append", !.head = head]
                  \/ r = [updates[u] EXCEPT !.step = "over"]
                  \/ r = [updates[u] EXCEPT !.step = "late"]
  <2>1. CASE ReadHead(u)
    <3>1. updates' = [updates EXCEPT ![u] = [updates[u] EXCEPT !.step = "append", !.head = head]]
        BY <2>1 DEF ReadHead, DirectoryIInv, DirectoryTypes, UpdatesAreRecords
    <3>2. QED
        BY <3>1
  <2>2. CASE RefuseStale(u)
      BY <2>2 DEF RefuseStale, StepUpdate
  <2>3. CASE AnswerEarly(u)
      BY <2>3 DEF AnswerEarly, StepUpdate
  <2>4. QED
      BY <2>1, <2>2, <2>3
<1>3. /\ UpdatesAreRecords'
      /\ \A v \in Update : /\ updates'[v].copy = updates[v].copy
                           /\ updates'[v].since = updates[v].since
                           /\ updates'[v].device = updates[v].device
                           /\ Pending(v)' => Pending(v)
  <2>1. /\ updates[u] \in UpdateRecord /\ head \in Nat
        /\ updates \in [Update -> UpdateRecord]
      BY DEF DirectoryIInv, DirectoryTypes, UpdatesAreRecords
  <2>2. /\ r \in UpdateRecord /\ r.copy = updates[u].copy /\ r.since = updates[u].since
        /\ r.device = updates[u].device
    <3>1. CASE r = [updates[u] EXCEPT !.step = "append", !.head = head]
      <4> DEFINE q == [updates[u] EXCEPT !.step = "append"]
      <4>1. q \in UpdateRecord /\ q.copy = updates[u].copy /\ q.since = updates[u].since
            /\ q.device = updates[u].device /\ r = [q EXCEPT !.head = head]
          BY <2>1, <3>1 DEF UpdateRecord
      <4> HIDE DEF q
      <4>2. QED
          BY <2>1, <4>1 DEF UpdateRecord
    <3>2. CASE r = [updates[u] EXCEPT !.step = "over"]
        BY <2>1, <3>2 DEF UpdateRecord
    <3>3. CASE r = [updates[u] EXCEPT !.step = "late"]
        BY <2>1, <3>3 DEF UpdateRecord
    <3>4. QED
        BY <1>2, <3>1, <3>2, <3>3
  <2>3. \A v \in Update : updates'[v] = IF v = u THEN r ELSE updates[v]
      BY <1>2, <2>1
  <2>4. updates' \in [Update -> UpdateRecord]
      BY <1>2, <2>1, <2>2
  <2>5. QED
      BY <1>1, <2>2, <2>3, <2>4 DEF UpdatesAreRecords, Pending
<1>4. QED
    BY <1>1, <1>3 DEF DirectoryIInv, DirectoryTypes, CopiesAgree, DirectoryKeepsUpdates

\* A copy is right when it is made.
LEMMA Reading ==
    ASSUME DirectoryIInv, NEW u \in Update, NEW code \in {510, 511}, NEW d \in Device,
           ReadDirectory(u, code, d)
    PROVE  DirectoryIInv'
<1> DEFINE r == [NoUpdate EXCEPT !.step = "posted", !.code = code, !.device = d,
                                 !.copy = directory]
<1>1. /\ updates' = [updates EXCEPT ![u] = r]
      /\ UNCHANGED <<directory, head, intended, undone>>
    BY DEF ReadDirectory
<1>2. r \in UpdateRecord /\ r.copy = directory /\ r.device = d
    BY ZenonT(60) DEF NoUpdate, UpdateRecord, DirectoryIInv, DirectoryTypes
<1> HIDE DEF r
<1>3. UpdatesAreRecords' /\ \A v \in Update : updates'[v] = IF v = u THEN r ELSE updates[v]
    BY <1>1, <1>2 DEF DirectoryIInv, DirectoryTypes, UpdatesAreRecords
<1>4. QED
    BY <1>1, <1>2, <1>3
    DEF DirectoryIInv, DirectoryTypes, CopiesAgree, DirectoryKeepsUpdates, Pending

\* An update that lands replaces the whole directory.
LEMMA Landing ==
    ASSUME DirectoryIInv, NEW u \in Update, AppendLogEntry(u)
    PROVE  DirectoryIInv'
<1> DEFINE d == updates[u].device
<1>1. /\ Pending(u) /\ d \in Device /\ head' = head + 1
      /\ directory' = Filtered(u)
      /\ intended' = IF updates[u].code = 510 THEN intended \cup {d} ELSE intended \ {d}
      /\ undone' = (undone \cup updates[u].since) \ {d}
    BY DEF AppendLogEntry, Land, Pending, DirectoryIInv, DirectoryTypes
<1>2. updates' = [v \in Update |->
          IF v = u THEN [updates[u] EXCEPT !.step = "over"]
          ELSE IF updates[v].step = "none" THEN updates[v]
          ELSE [updates[v] EXCEPT !.since = @ \cup {d}]]
    BY DEF AppendLogEntry, Land
<1>3. UpdatesAreRecords'
    BY <1>1, <1>2, SMTT(30) DEF DirectoryIInv, DirectoryTypes, UpdatesAreRecords, UpdateRecord
<1>4. \A v \in Update : Pending(v)' =>
          /\ Pending(v) /\ updates'[v].copy = updates[v].copy
          /\ updates'[v].since = updates[v].since \cup {d}
          /\ updates'[v].device = updates[v].device
    BY <1>2 DEF Pending, DirectoryIInv, DirectoryTypes, UpdatesAreRecords, UpdateRecord
<1>5. /\ d \in directory' <=> updates[u].code = 510
      /\ d \in intended' <=> updates[u].code = 510
    BY <1>1 DEF Filtered
<1>6. \A x \in Device \ {d} : /\ x \in directory' <=> x \in updates[u].copy
                              /\ x \in intended' <=> x \in intended
    BY <1>1 DEF Filtered
<1>7. ASSUME NEW x \in Device \ {d}, x \notin undone'
      PROVE  /\ x \in directory' <=> x \in directory
             /\ x \notin undone
    BY <1>1, <1>6, <1>7 DEF DirectoryIInv, CopiesAgree
<1>8. DirectoryKeepsUpdates'
    BY <1>5, <1>6, <1>7 DEF DirectoryIInv, DirectoryKeepsUpdates
<1>9. CopiesAgree'
  <2> SUFFICES ASSUME NEW v \in Update, Pending(v)',
                      NEW x \in Device, x \notin undone', x \notin updates'[v].since
               PROVE  x \in updates'[v].copy <=> x \in directory'
      BY DEF CopiesAgree
  <2>1. x # d /\ x \notin updates[v].since
      BY <1>4
  <2>2. QED
      BY <1>4, <1>7, <2>1 DEF DirectoryIInv, CopiesAgree
<1>10. directory' \subseteq Device /\ head' \in Nat
  <2>1. updates[u].copy \subseteq Device
      BY DEF DirectoryIInv, DirectoryTypes, UpdatesAreRecords, UpdateRecord
  <2>2. QED
      BY <1>1, <2>1 DEF Filtered, DirectoryIInv, DirectoryTypes
<1>11. QED
    BY <1>3, <1>4, <1>8, <1>9, <1>10 DEF DirectoryIInv, DirectoryTypes

\* Every step keeps the invariant.
LEMMA DirectoryStep == DirectoryIInv /\ [DirectoryNext]_directoryVars => DirectoryIInv'
<1> SUFFICES ASSUME DirectoryIInv, [DirectoryNext]_directoryVars PROVE DirectoryIInv'
    OBVIOUS
<1>1. CASE UNCHANGED directoryVars
    BY <1>1 DEF directoryVars, DirectoryIInv, DirectoryTypes, UpdatesAreRecords, Pending,
                CopiesAgree, DirectoryKeepsUpdates
<1>2. CASE DirectoryNext
    BY <1>2, Waiting, Reading, Landing DEF DirectoryNext
<1>3. QED
    BY <1>1, <1>2

\* The directory has every update that landed, unless one that was made of an older copy
\* followed (postSubCardAddedToDirectory, postSubCardRemovedFromDirectory).
THEOREM DirectoryIsKept == DirectorySpec => []DirectoryKeepsUpdates
<1>1. DirectoryIInv => DirectoryKeepsUpdates
    BY DEF DirectoryIInv
<1>2. QED
    BY <1>1, DirectoryInitial, DirectoryStep, PTL DEF DirectorySpec

-----------------------------------------------------------------------------
(* PressJobs                                                                *)

JobStep == {"idle", "end", "pin"} \cup Kind
TaskRecord == [step : JobStep, from : Nat, cursor : Nat, latest : Nat, cids : SUBSET Cid,
               failed : BOOLEAN]
JobTypes ==
    /\ block \in Nat /\ checkpoint \in Nat \cup {Nil} /\ firstBlock \in Nat
    /\ logged \subseteq [block : Nat, kind : Kind, cid : Cid]
    /\ task \in TaskRecord
LoggedByNow == \A e \in logged : e.block <= block
CheckpointByNow == checkpoint # Nil => checkpoint <= block

Running == task.step # "idle"
\* A run goes on from the checkpoint it found.
RunsOn ==
    Running => /\ checkpoint # Nil => task.from = checkpoint + 1
               /\ task.from <= task.cursor /\ task.cursor <= task.latest + 1
               /\ task.latest <= block
               /\ IF task.step = "end" THEN task.cursor = task.latest + 1
                                       ELSE task.cursor <= task.latest
\* What a run that has not failed has passed is pinned.
PassedIsPinned ==
    Running /\ ~task.failed =>
        \A e \in logged : e.block >= task.from /\ e.block < task.cursor => e.cid \in pinned
\* What it has read of the batch is pinned or about to be.
Read(kind) ==
    \/ task.step = "pin"
    \/ task.step = "CardHeadUpdated" /\ kind = "CardRegistered"
ReadIsKept ==
    Running /\ ~task.failed =>
        \A e \in logged : Read(e.kind) /\ e.block \in task.cursor..ToBlock =>
            e.cid \in pinned \cup task.cids
JobsIInv ==
    /\ JobTypes /\ LoggedByNow /\ CheckpointByNow /\ RunsOn /\ PassedIsPinned /\ ReadIsKept
    /\ NothingSkipped

\* Nothing has been logged.
LEMMA JobsInitial == JobsInit => JobsIInv
BY JobsAssumption
DEF JobsInit, JobsIInv, JobTypes, TaskRecord, JobStep, NoTask, LoggedByNow, CheckpointByNow,
    Running, RunsOn, PassedIsPinned, ReadIsKept, NothingSkipped

\* A run that is over, whether it was stopped or not, leaves the rest as it is.
LEMMA RunOver ==
    ASSUME JobsIInv, task' = NoTask,
           UNCHANGED <<block, logged, checkpoint, firstBlock, pinned>>
    PROVE  JobsIInv'
<1>1. NoTask \in TaskRecord /\ NoTask.step = "idle"
    BY DEF NoTask, TaskRecord, JobStep
<1>2. QED
    BY <1>1
    DEF JobsIInv, JobTypes, LoggedByNow, CheckpointByNow, Running, RunsOn, PassedIsPinned,
                ReadIsKept, NothingSkipped

\* A batch ends at the latest block the run saw.
LEMMA ToBlockBound ==
    ASSUME JobsIInv, Running, task.step # "end"
    PROVE  ToBlock \in Nat /\ task.cursor <= ToBlock /\ ToBlock <= task.latest
BY JobsAssumption DEF JobsIInv, JobTypes, TaskRecord, RunsOn, ToBlock, Smaller

\* A block that is mined lies after everything seen.
LEMMA Mining ==
    ASSUME JobsIInv, NEW kind \in Kind, NEW cid \in Cid, Mine(kind, cid)
    PROVE  JobsIInv'
<1> DEFINE e == [block |-> block + 1, kind |-> kind, cid |-> cid]
<1>1. /\ block' = block + 1 /\ logged' = logged \cup {e}
      /\ UNCHANGED <<checkpoint, task, firstBlock, pinned>>
    BY DEF Mine
<1>2. e \in [block : Nat, kind : Kind, cid : Cid] /\ e.block = block + 1 /\ block \in Nat
    BY DEF JobsIInv, JobTypes
<1> HIDE DEF e
<1>3. JobTypes' /\ LoggedByNow' /\ CheckpointByNow' /\ RunsOn'
    BY <1>1, <1>2
    DEF JobsIInv, JobTypes, LoggedByNow, CheckpointByNow, RunsOn, Running, TaskRecord
<1>4. NothingSkipped'
    BY <1>1, <1>2 DEF JobsIInv, JobTypes, CheckpointByNow, NothingSkipped
<1>5. Running => ToBlock <= block /\ ToBlock \in Int /\ task.cursor <= block + 1
  <2>1. task.latest \in Nat /\ task.cursor \in Nat
      BY DEF JobsIInv, JobTypes, TaskRecord
  <2>2. ToBlock \in Int /\ ToBlock <= task.latest
      BY <2>1, JobsAssumption DEF ToBlock, Smaller
  <2>3. QED
      BY <1>2, <2>1, <2>2 DEF JobsIInv, RunsOn
<1>6. PassedIsPinned'
    BY <1>1, <1>2, <1>5 DEF JobsIInv, JobTypes, TaskRecord, PassedIsPinned, Running
<1>7. ReadIsKept'
  <2>1. Running => task.cursor \in Nat /\ e.block \notin task.cursor..ToBlock
      BY <1>2, <1>5 DEF JobsIInv, JobTypes, TaskRecord
  <2>2. ToBlock' = ToBlock
      BY <1>1 DEF ToBlock
  <2>3. QED
      BY <1>1, <2>1, <2>2 DEF JobsIInv, ReadIsKept, Running, Read
<1>8. QED
    BY <1>3, <1>4, <1>6, <1>7 DEF JobsIInv

\* A run goes on after the checkpoint.
LEMMA Starting ==
    ASSUME JobsIInv, StartRun
    PROVE  JobsIInv'
<1> DEFINE t == [NoTask EXCEPT !.step = "CardRegistered", !.from = From(block),
                               !.cursor = From(block), !.latest = block]
<1>1. /\ task' = t /\ From(block) <= block
      /\ UNCHANGED <<block, logged, checkpoint, firstBlock, pinned>>
    BY DEF StartRun
<1>2. From(block) \in Nat /\ (checkpoint # Nil => From(block) = checkpoint + 1)
    BY DEF From, JobsIInv, JobTypes
<1>3. /\ t \in TaskRecord /\ t.step = "CardRegistered" /\ t.from = From(block)
      /\ t.cursor = From(block) /\ t.latest = block
    BY <1>2 DEF NoTask, TaskRecord, JobStep, Kind, JobsIInv, JobTypes
<1> HIDE DEF t
<1>4. JobTypes' /\ LoggedByNow' /\ CheckpointByNow' /\ NothingSkipped'
    BY <1>1, <1>3 DEF JobsIInv, JobTypes, LoggedByNow, CheckpointByNow, NothingSkipped
<1>5. RunsOn'
    BY <1>1, <1>2, <1>3 DEF RunsOn, Running, JobsIInv, JobTypes
<1>6. PassedIsPinned' /\ ReadIsKept'
    BY <1>1, <1>2, <1>3 DEF PassedIsPinned, ReadIsKept, Read, Running, JobsIInv, JobTypes
<1>7. QED
    BY <1>4, <1>5, <1>6 DEF JobsIInv

\* The logs of a batch are kept until they are pinned.
LEMMA GettingLogs ==
    ASSUME JobsIInv, GetLogs(TRUE)
    PROVE  JobsIInv'
<1> DEFINE t == [task EXCEPT !.cids = @ \cup Found(task.step),
                             !.step = IF @ = "CardRegistered" THEN "CardHeadUpdated" ELSE "pin"]
<1>1. /\ task' = t /\ task.step \in Kind
      /\ UNCHANGED <<block, logged, checkpoint, firstBlock, pinned>>
    BY DEF GetLogs
<1>2. Found(task.step) \subseteq Cid
    BY DEF Found, JobsIInv, JobTypes
<1>3. /\ t \in TaskRecord
      /\ t.step = IF task.step = "CardRegistered" THEN "CardHeadUpdated" ELSE "pin"
      /\ t.cids = task.cids \cup Found(task.step) /\ t.failed = task.failed
      /\ t.from = task.from /\ t.cursor = task.cursor /\ t.latest = task.latest
    BY <1>2 DEF JobsIInv, JobTypes, TaskRecord, JobStep, Kind
<1> HIDE DEF t
<1>4. JobTypes' /\ LoggedByNow' /\ CheckpointByNow' /\ NothingSkipped'
    BY <1>1, <1>3 DEF JobsIInv, JobTypes, LoggedByNow, CheckpointByNow, NothingSkipped
<1>5. RunsOn' /\ PassedIsPinned'
    BY <1>1, <1>3 DEF JobsIInv, RunsOn, PassedIsPinned, Running, Kind
<1>6. ReadIsKept'
  <2> SUFFICES ASSUME ~task.failed, NEW e \in logged, Read(e.kind)',
                      e.block \in task.cursor..ToBlock
               PROVE  e.cid \in pinned \cup t.cids
      BY <1>1, <1>3 DEF ReadIsKept, ToBlock
  <2>1. e.kind = task.step \/ Read(e.kind)
      BY <1>1, <1>3 DEF Read, Kind, JobsIInv, JobTypes
  <2>2. CASE e.kind = task.step
      BY <1>3, <2>2 DEF Found
  <2>3. CASE Read(e.kind)
      BY <1>1, <1>3, <2>3 DEF JobsIInv, ReadIsKept, Running, Kind
  <2>4. QED
      BY <2>1, <2>2, <2>3
<1>7. QED
    BY <1>4, <1>5, <1>6 DEF JobsIInv

\* A batch that is pinned moves the run on, and the checkpoint at its end.
LEMMA Pinning ==
    ASSUME JobsIInv, NEW cid \in Cid, NEW ok \in BOOLEAN, PinCid(cid, ok)
    PROVE  JobsIInv'
<1> DEFINE t == [task EXCEPT !.cids = @ \ {cid}, !.failed = @ \/ ~ok]
<1>1. /\ task' = t /\ task.step = "pin"
      /\ pinned' = IF ok THEN pinned \cup {cid} ELSE pinned
      /\ UNCHANGED <<block, logged, checkpoint, firstBlock>>
    BY DEF PinCid
<1>2. /\ t \in TaskRecord /\ t.step = "pin" /\ t.cids = task.cids \ {cid}
      /\ t.failed <=> (task.failed \/ ~ok)
      /\ t.from = task.from /\ t.cursor = task.cursor /\ t.latest = task.latest
    BY <1>1 DEF JobsIInv, JobTypes, TaskRecord
<1> HIDE DEF t
<1>3. pinned \subseteq pinned'
    BY <1>1
<1>4. JobTypes' /\ LoggedByNow' /\ CheckpointByNow' /\ NothingSkipped'
    BY <1>1, <1>2, <1>3 DEF JobsIInv, JobTypes, LoggedByNow, CheckpointByNow, NothingSkipped
<1>5. RunsOn' /\ PassedIsPinned'
    BY <1>1, <1>2, <1>3 DEF JobsIInv, RunsOn, PassedIsPinned, Running
<1>6. ToBlock' = ToBlock
    BY <1>1, <1>2 DEF ToBlock
<1>7. ReadIsKept'
    BY <1>1, <1>2, <1>3, <1>6 DEF JobsIInv, ReadIsKept, Running, Read
<1>8. QED
    BY <1>4, <1>5, <1>7 DEF JobsIInv

\* Both kinds have been read and nothing is left to pin: the batch has been passed.
LEMMA EndingBatch ==
    ASSUME JobsIInv, EndBatch
    PROVE  JobsIInv'
<1> DEFINE step == IF ToBlock < task.latest THEN "CardRegistered" ELSE "end"
           t == [task EXCEPT !.cursor = ToBlock + 1, !.step = step]
<1>1. /\ task' = t /\ task.step = "pin" /\ task.cids = {}
      /\ UNCHANGED <<block, logged, checkpoint, firstBlock, pinned>>
    BY DEF EndBatch
<1>2. /\ ToBlock \in Nat /\ task.cursor <= ToBlock /\ ToBlock <= task.latest
    BY <1>1, ToBlockBound DEF Running
<1>3. /\ t \in TaskRecord /\ t.step = step
      /\ t.cursor = ToBlock + 1 /\ t.cids = task.cids /\ t.failed = task.failed
      /\ t.from = task.from /\ t.latest = task.latest
  <2>1. step \in JobStep
      BY DEF JobStep, Kind
  <2>2. task \in TaskRecord /\ ToBlock + 1 \in Nat
      BY <1>2 DEF JobsIInv, JobTypes
  <2> HIDE DEF step
  <2>3. QED
      BY <2>1, <2>2 DEF TaskRecord
<1>4. task.from \in Nat /\ task.cursor \in Nat /\ task.latest \in Nat
    BY DEF JobsIInv, JobTypes, TaskRecord
<1> HIDE DEF t
<1>5. JobTypes' /\ LoggedByNow' /\ CheckpointByNow' /\ NothingSkipped'
    BY <1>1, <1>3 DEF JobsIInv, JobTypes, LoggedByNow, CheckpointByNow, NothingSkipped
<1>6. RunsOn'
    BY <1>1, <1>2, <1>3, <1>4 DEF JobsIInv, RunsOn, Running
<1>7. PassedIsPinned'
  <2> SUFFICES ASSUME ~task.failed, NEW e \in logged, e.block >= task.from,
                      e.block < ToBlock + 1
               PROVE  e.cid \in pinned
      BY <1>1, <1>3 DEF PassedIsPinned
  <2>1. e.block \in Nat
      BY DEF JobsIInv, JobTypes
  <2>2. CASE e.block < task.cursor
      BY <1>1, <2>2 DEF JobsIInv, PassedIsPinned, Running
  <2>3. CASE e.block >= task.cursor
    <3>1. e.block \in task.cursor..ToBlock
        BY <1>2, <1>4, <2>1, <2>3
    <3>2. QED
        BY <1>1, <3>1 DEF JobsIInv, ReadIsKept, Running, Read
  <2>4. QED
      BY <1>4, <2>1, <2>2, <2>3
<1>8. ReadIsKept'
    BY <1>1, <1>3 DEF ReadIsKept, Read
<1>9. QED
    BY <1>5, <1>6, <1>7, <1>8 DEF JobsIInv

\* The checkpoint moves on when all up to it is pinned.
LEMMA EndingRun ==
    ASSUME JobsIInv, EndRun
    PROVE  JobsIInv'
<1>1. /\ checkpoint' = Advanced /\ task' = NoTask /\ Running
      /\ task.from \in Nat /\ task.latest \in Nat /\ task.cursor = task.latest + 1
      /\ firstBlock' = IF checkpoint = Nil THEN task.from ELSE firstBlock
      /\ UNCHANGED <<block, logged, pinned>>
    BY DEF EndRun, Running, JobsIInv, RunsOn, JobTypes, TaskRecord
<1>2. NoTask \in TaskRecord /\ NoTask.step = "idle"
    BY DEF NoTask, TaskRecord, JobStep
<1>3. JobTypes' /\ LoggedByNow' /\ CheckpointByNow'
    BY <1>1, <1>2
    DEF JobsIInv, JobTypes, LoggedByNow, CheckpointByNow, Advanced, RunsOn, Running
<1>4. RunsOn' /\ PassedIsPinned' /\ ReadIsKept'
    BY <1>1, <1>2 DEF RunsOn, PassedIsPinned, ReadIsKept, Running
<1>5. NothingSkipped'
  <2>1. CASE task.failed
      BY <1>1, <2>1 DEF Advanced, JobsIInv, NothingSkipped
  <2>2. CASE ~task.failed
    <3> SUFFICES ASSUME NEW e \in logged, e.block \in firstBlock'..task.latest
                 PROVE  e.cid \in pinned
        BY <1>1, <2>2 DEF Advanced, NothingSkipped
    <3>1. e.block \in Nat /\ firstBlock \in Nat
        BY DEF JobsIInv, JobTypes
    <3>2. CASE e.block >= task.from
        BY <1>1, <2>2, <3>1, <3>2 DEF JobsIInv, PassedIsPinned
    <3>3. CASE e.block < task.from
      <4>1. checkpoint # Nil /\ task.from = checkpoint + 1 /\ checkpoint \in Nat
          BY <1>1, <3>1, <3>3 DEF JobsIInv, JobTypes, RunsOn
      <4>2. QED
          BY <1>1, <3>1, <3>3, <4>1 DEF JobsIInv, NothingSkipped
    <3>4. QED
        BY <1>1, <3>1, <3>2, <3>3
  <2>3. QED
      BY <2>1, <2>2
<1>6. QED
    BY <1>3, <1>4, <1>5 DEF JobsIInv

\* Every step keeps the invariant.
LEMMA JobsNextStep == JobsIInv /\ [JobsNext]_jobVars => JobsIInv'
<1> SUFFICES ASSUME JobsIInv, [JobsNext]_jobVars PROVE JobsIInv'
    OBVIOUS
<1>1. CASE UNCHANGED jobVars
    BY <1>1 DEF jobVars, JobsIInv, JobTypes, LoggedByNow, CheckpointByNow, Running, RunsOn,
                PassedIsPinned, ReadIsKept, Read, ToBlock, NothingSkipped
<1>2. ASSUME NEW ok \in BOOLEAN, GetLogs(ok) PROVE JobsIInv'
  <2>1. CASE ok
      BY <1>2, <2>1, GettingLogs
  <2>2. CASE ~ok
      BY <1>2, <2>2, RunOver DEF GetLogs
  <2>3. QED
      BY <2>1, <2>2
<1>3. CASE KillTask
    BY <1>3, RunOver DEF KillTask
<1>4. CASE JobsNext
    BY <1>2, <1>3, <1>4, Mining, Starting, Pinning, EndingBatch, EndingRun DEF JobsNext
<1>5. QED
    BY <1>1, <1>4

\* No block is passed over for good, whatever fails and whenever the task is stopped
\* (reconcile-cids.ts).
THEOREM NoBlockIsSkipped == JobsSpec => []NothingSkipped
<1>1. JobsIInv => NothingSkipped
    BY DEF JobsIInv
<1>2. QED
    BY <1>1, JobsInitial, JobsNextStep, PTL DEF JobsSpec
-----------------------------------------------------------------------------
(* RoomPolicy: what the room policy module remembers of chains                *)

\* Whatever a room may ask of this chain, that of the card satisfied once.
Known(c, chain) == \A d \in Document : Satisfies(d, chain) => <<d, c>> \in qualified
Gated(r, c) == <<rooms[r].policy, c>> \in qualified

QualifiersKnown == \A d \in Document, c \in Card : Qualifies(d, c) => <<d, c>> \in qualified
CachedKnown == \A c \in Card : cache[c] # None => Known(c, cache[c].chain)
CallKnown(r, c) ==
    calls[<<r, c>>] # None =>
        /\ rooms[r] # None
        /\ calls[<<r, c>>].kind \in {"walking", "join", "creator"} => Known(c, calls[<<r, c>>].walk.chain)
        /\ calls[<<r, c>>].kind \in {"join", "joining", "accepted"} => Gated(r, c)
CallsKnown == \A r \in Room, c \in Card : CallKnown(r, c)
MembersKnown ==
    \A r \in Room, c \in Card :
        c \in joined[r] => rooms[r] # None /\ (rooms[r].creator # c => Gated(r, c))
\* A room is indexed, and a request about to do so, only when it exists.
RoomsExist ==
    /\ \A r \in Room : index[r] # None => rooms[r] # None
    /\ \A c \in Card : creating[c] # None =>
          /\ "room" \in DOMAIN creating[c] => rooms[creating[c].room] # None
          /\ "stage" \in DOMAIN creating[c] => c \in accounts
RoomIInv ==
    TypeOK /\ QualifiersKnown /\ CachedKnown /\ CallsKnown /\ MembersKnown /\ RoomsExist

\* What a walk adds is a link of the chain as it is when it is read, so that what was
\* known of the links before stays known, whatever the chain has become since.
LEMMA WalkGoesOn ==
    ASSUME TypeOK, QualifiersKnown, NEW c \in Card, NEW w \in Entry, Known(c, w.chain),
           NEW k \in DOMAIN ChainOf[c]
    PROVE  WalkTo(w, ChainOf[c][k]) \in Entry /\ Known(c, WalkTo(w, ChainOf[c][k]).chain)
<1>1. ChainOf[c] \in Seq(Address) /\ ChainOf[c][k] \in Address
    BY RoomAssumption
<1>2. WalkTo(w, ChainOf[c][k]) \in Entry
    BY <1>1 DEF WalkTo, LinkTo, Entry, Link, TypeOK, MembershipTypeOK
<1>3. ASSUME NEW d \in Document, Satisfies(d, WalkTo(w, ChainOf[c][k]).chain)
      PROVE  <<d, c>> \in qualified
    <2>1. PICK entry \in Entries[d], link \in w.chain \cup {LinkTo(ChainOf[c][k])} :
              Matches(entry, link)
        BY <1>3 DEF Satisfies, WalkTo
    <2>2. CASE link \in w.chain
        BY <2>1, <2>2 DEF Known, Satisfies
    <2>3. CASE link = LinkTo(ChainOf[c][k])
        BY <2>1, <2>3 DEF Matches, LinkTo, Qualifies, QualifiersKnown
    <2>4. QED BY <2>1, <2>2, <2>3
<1>4. QED BY <1>2, <1>3 DEF Known

LEMMA WalkStarts == NoWalk \in Entry /\ \A c : Known(c, NoWalk.chain)
BY DEF NoWalk, Entry, Known, Satisfies

LEMMA WalkEnds ==
    ASSUME NEW w \in Entry, NEW complete \in BOOLEAN, NEW v \in Outcomes(w, complete)
    PROVE  v \in Entry /\ v.chain = w.chain
BY DEF Outcomes, Entry

LEMMA RoomsInitial == Init => RoomIInv
<1> SUFFICES ASSUME Init PROVE RoomIInv
    OBVIOUS
<1>1. TypeOK
    <2>1. MembershipTypeOK /\ RoomsTypeOK
        BY RoomAssumption DEF Init, MembershipInit, RoomsInit, MembershipTypeOK, RoomsTypeOK
    <2>2. QED BY <2>1, RestartAssumption DEF Init, TypeOK, Loop, Member
<1>2. QualifiersKnown
    BY DEF Init, QualifiersKnown
<1>3. CachedKnown
    BY DEF Init, MembershipInit, CachedKnown, Address
<1>4. CallsKnown
    BY DEF Init, CallsKnown, CallKnown, Member
<1>5. MembersKnown /\ RoomsExist
    BY DEF Init, RoomsInit, MembersKnown, RoomsExist
<1>6. QED BY <1>1, <1>2, <1>3, <1>4, <1>5 DEF RoomIInv

\* What was known stays known.
LEMMA KnownStays ==
    ASSUME qualified \subseteq qualified', NEW c, NEW chain, Known(c, chain)
    PROVE  Known(c, chain)'
BY DEF Known, Satisfies, Matches

-----------------------------------------------------------------------------
(* Types                                                                     *)

LEMMA MembersTyped ==
    ASSUME TypeOK, UNCHANGED <<cardVars, roomVars>>
    PROVE  /\ revoked' = revoked /\ field' = field /\ RoomsTypeOK'
BY DEF TypeOK, RoomsTypeOK, roomVars, cardVars

LEMMA RefreshTyped ==
    ASSUME TypeOK, NEW a \in Address, NEW status \in BOOLEAN
    PROVE  /\ Refreshed(a, status) \in Entry
           /\ Refresh(a, status) => cache' \in [Address -> {None} \cup Entry]
<1>1. Refreshed(a, status) \in Entry
    BY DEF TypeOK, MembershipTypeOK, Refreshed, Entry
<1>2. QED BY <1>1 DEF Refresh, TypeOK, MembershipTypeOK

LEMMA StatusTyped == ASSUME NEW a PROVE Statuses(a) \subseteq BOOLEAN
BY DEF Statuses

LEMMA HandleTyped ==
    ASSUME TypeOK, NEW l \in Loop, NEW a \in Address, Handle(l, a)
    PROVE  watcher' \in [Loop -> {None} \cup Handling]
<1>1. CASE a \in Watched
    <2>1. PICK status \in BOOLEAN :
              watcher' = [watcher EXCEPT ![l] =
                  [stage |-> "refreshing", address |-> a, revoked |-> status]]
        BY <1>1, StatusTyped DEF Handle
    <2>2. QED BY <2>1 DEF TypeOK, Handling
<1>2. CASE a \notin Watched
    BY <1>2 DEF Handle, TypeOK
<1>3. QED BY <1>1, <1>2

LEMMA PartAllTyped ==
    ASSUME NEW a \in Address, NEW todo \in SUBSET Member
    PROVE  PartAll(a, todo) \in {None} \cup Handling
BY DEF PartAll, Handling

LEMMA HooksTyped ==
    ASSUME TypeOK, Hooks
    PROVE  /\ MembershipTypeOK' /\ RoomsTypeOK' /\ calls' \in [Member -> {None} \cup Call]
           /\ UNCHANGED <<feed, walk, alive, watcher, restarts>>
<1>1. ASSUME NEW m \in Member, EndCall(m)
      PROVE  /\ MembershipTypeOK' /\ RoomsTypeOK' /\ calls' \in [Member -> {None} \cup Call]
             /\ UNCHANGED <<feed, walk, alive, watcher, restarts>>
    <2>1. calls' \in [Member -> {None} \cup Call]
        BY <1>1 DEF EndCall, Reply, TypeOK
    <2>2. QED BY <1>1, <2>1 DEF EndCall, TypeOK, MembershipTypeOK, RoomsTypeOK, cardVars,
        memberVars, roomVars
<1>2. ASSUME NEW r \in Room, NEW c \in Card,
             \/ Ask(r, c) \/ ReadAncestor(r, c) \/ EndWalk(r, c) \/ AllowJoin(r, c)
             \/ RegisterCreator(r, c) \/ PersistJoin(r, c)
             \/ Leave(r, c) \/ AskPost(r, c) \/ RefreshForPost(r, c)
      PROVE  /\ MembershipTypeOK' /\ RoomsTypeOK' /\ calls' \in [Member -> {None} \cup Call]
             /\ UNCHANGED <<feed, walk, alive, watcher, restarts>>
    <2> <<r, c>> \in Member /\ c \in Address
        BY DEF Member, Address
    <2> calls \in [Member -> {None} \cup Call]
        BY DEF TypeOK
    <2>1. CASE Ask(r, c)
        <3>1. PICK asked \in {"join", "creator"} : StartWalk(r, c, asked)
            BY <2>1 DEF Ask, JoinRoom, AskCreator
        <3>2. [kind |-> "walking", asked |-> asked, walk |-> NoWalk, read |-> 0] \in Call
            BY WalkStarts DEF Call
        <3>3. calls' \in [Member -> {None} \cup Call]
            BY <3>1, <3>2 DEF StartWalk
        <3>4. QED BY <2>1, <3>3 DEF Ask, TypeOK, MembershipTypeOK, RoomsTypeOK, cardVars,
            memberVars, roomVars
    <2>10. CASE ReadAncestor(r, c)
        <3>1. PICK w \in Entry, asked \in {"join", "creator"}, n \in Nat :
                  /\ calls[<<r, c>>].walk = w /\ calls[<<r, c>>].asked = asked
                  /\ calls[<<r, c>>].read = n /\ n < Len(ChainOf[c])
            BY <2>10 DEF ReadAncestor, In, Call
        <3>2. ChainOf[c] \in Seq(Address) /\ n + 1 \in DOMAIN ChainOf[c]
            BY <3>1, RoomAssumption
        <3>3. WalkTo(w, ChainOf[c][n + 1]) \in Entry
            BY <3>2 DEF WalkTo, LinkTo, Entry, Link, TypeOK, MembershipTypeOK
        <3>4. [kind |-> "walking", asked |-> asked, walk |-> WalkTo(w, ChainOf[c][n + 1]),
               read |-> n + 1] \in Call
            BY <3>3 DEF Call
        <3>5. calls' \in [Member -> {None} \cup Call]
            BY <2>10, <3>1, <3>4 DEF ReadAncestor
        <3>6. QED BY <2>10, <3>5 DEF ReadAncestor, TypeOK, MembershipTypeOK, RoomsTypeOK, cardVars,
            memberVars, roomVars
    <2>11. CASE EndWalk(r, c)
        <3>1. PICK w \in Entry, asked \in {"join", "creator"} :
                  calls[<<r, c>>].walk = w /\ calls[<<r, c>>].asked = asked
            BY <2>11 DEF EndWalk, In, Call
        <3>2. PICK complete \in BOOLEAN : complete = (calls[<<r, c>>].read = Len(ChainOf[c]))
            OBVIOUS
        <3>3. PICK v \in Outcomes(w, complete) :
                  calls' = [calls EXCEPT ![<<r, c>>] = [kind |-> asked, walk |-> v]]
            BY <2>11, <3>1, <3>2 DEF EndWalk
        <3>4. [kind |-> asked, walk |-> v] \in Call
            BY WalkEnds DEF Call
        <3>5. calls' \in [Member -> {None} \cup Call]
            BY <3>3, <3>4
        <3>6. QED BY <2>11, <3>5 DEF EndWalk, TypeOK, MembershipTypeOK, RoomsTypeOK, cardVars,
            memberVars, roomVars
    <2>2. CASE Admit(r, c) /\ (In(<<r, c>>, "join") \/ In(<<r, c>>, "creator"))
               /\ UNCHANGED <<cardVars, roomVars, feed, walk, alive, watcher, restarts>>
               /\ \E x \in {None} \cup Call : calls' = [calls EXCEPT ![<<r, c>>] = x]
        <3>1. PICK w \in Entry : w = calls[<<r, c>>].walk
            BY <2>2 DEF In, Call
        <3>2. w.chain \subseteq Link /\ WatchedBy(c, w.chain) \subseteq Address
            BY <3>1 DEF Entry, Link, WatchedBy
        <3>3. registry' \in [Room \X Card -> {None} \cup SUBSET Address]
            BY <2>2, <3>1, <3>2 DEF Admit, RegisterMembership, TypeOK, MembershipTypeOK
        <3>4. cache' \in [Address -> {None} \cup Entry]
            BY <2>2, <3>1 DEF Admit, SeedFromJoin, TypeOK, MembershipTypeOK
        <3>5. calls' \in [Member -> {None} \cup Call]
            BY <2>2
        <3>6. QED BY <2>2, <3>3, <3>4, <3>5 DEF TypeOK, MembershipTypeOK, RoomsTypeOK, cardVars,
            roomVars
    <2>3. CASE AllowJoin(r, c)
        <3>1. [kind |-> "joining"] \in Call
            BY DEF Call
        <3>2. QED BY <2>2, <2>3, <3>1 DEF AllowJoin
    <2>4. CASE RegisterCreator(r, c)
        BY <2>2, <2>4 DEF RegisterCreator, Reply
    <2>5. CASE PersistJoin(r, c)
        <3>1. calls' \in [Member -> {None} \cup Call]
            BY <2>5 DEF PersistJoin, Reply
        <3>2. QED BY <2>5, <3>1 DEF PersistJoin, TypeOK, MembershipTypeOK, RoomsTypeOK,
            cardVars, memberVars
    <2>6. CASE Leave(r, c)
        BY <2>6 DEF Leave, TypeOK, MembershipTypeOK, RoomsTypeOK, cardVars, memberVars, moduleVars
    <2>7. CASE AskPost(r, c)
        <3>1. /\ \A status \in Statuses(c) : [kind |-> "refreshing", revoked |-> status] \in Call
              /\ [kind |-> "accepted"] \in Call
            BY StatusTyped DEF Call
        <3>2. calls' \in [Member -> {None} \cup Call]
            BY <2>7, <3>1 DEF AskPost
        <3>3. QED BY <2>7, <3>2 DEF AskPost, TypeOK, MembershipTypeOK, RoomsTypeOK, cardVars,
            memberVars, roomVars
    <2>8. CASE RefreshForPost(r, c)
        <3>1. PICK status \in BOOLEAN : status = calls[<<r, c>>].revoked
            BY <2>8 DEF RefreshForPost, In, Call
        <3>2. cache' \in [Address -> {None} \cup Entry]
            BY <2>8, <3>1, RefreshTyped DEF RefreshForPost
        <3>3. calls' \in [Member -> {None} \cup Call]
            <4>1. [kind |-> "accepted"] \in Call
                BY DEF Call
            <4>2. QED BY <2>8, <4>1 DEF RefreshForPost
        <3>4. QED BY <2>8, <3>2, <3>3 DEF RefreshForPost, TypeOK, MembershipTypeOK, RoomsTypeOK,
            cardVars, roomVars
    <2>9. QED BY <1>2, <2>1, <2>3, <2>4, <2>5, <2>6, <2>7, <2>8, <2>10, <2>11
<1>3. QED BY <1>1, <1>2 DEF Hooks

LEMMA WatcherTyped ==
    ASSUME TypeOK, NEW l \in Loop, WatcherStep(l)
    PROVE  /\ MembershipTypeOK' /\ RoomsTypeOK' /\ watcher' \in [Loop -> {None} \cup Handling]
           /\ UNCHANGED <<calls, feed, walk, alive, restarts>>
<1> watcher \in [Loop -> {None} \cup Handling]
    BY DEF TypeOK
<1>1. CASE WatchedRefreshed(l)
    <2>1. watcher[l] \in [stage : {"refreshing"}, address : Address, revoked : BOOLEAN]
        BY <1>1 DEF WatchedRefreshed, Handling
    <2>2. PICK a \in Address, status \in BOOLEAN :
          a = watcher[l].address /\ status = watcher[l].revoked
        BY <2>1
    <2>3. PICK todo \in SUBSET Member : todo = IF status THEN MembershipsFor(a) ELSE {}
        BY DEF MembershipsFor, Member
    <2>4. watcher' = [watcher EXCEPT ![l] = PartAll(a, todo)]
        BY <1>1, <2>2, <2>3 DEF WatchedRefreshed
    <2>5. watcher' \in [Loop -> {None} \cup Handling]
        BY <2>4, PartAllTyped
    <2>6. cache' \in [Address -> {None} \cup Entry]
        BY <1>1, <2>2, RefreshTyped DEF WatchedRefreshed
    <2>7. QED BY <1>1, <2>5, <2>6 DEF WatchedRefreshed, TypeOK, MembershipTypeOK, RoomsTypeOK,
        cardVars, roomVars
<1>2. CASE Parted(l)
    <2>1. watcher[l] \in [stage : {"parted"}, address : Address, todo : SUBSET Member,
        member : Member]
        BY <1>2 DEF Parted, Handling
    <2>2. PICK a \in Address, todo \in SUBSET Member, m \in Member :
              a = watcher[l].address /\ todo = watcher[l].todo /\ m = watcher[l].member
        BY <2>1
    <2>3. watcher' = [watcher EXCEPT ![l] = PartAll(a, todo)]
        BY <1>2, <2>2 DEF Parted
    <2>4. watcher' \in [Loop -> {None} \cup Handling]
        BY <2>3, PartAllTyped
    <2>5. registry' \in [Room \X Card -> {None} \cup SUBSET Address]
        BY <1>2, <2>2 DEF Parted, RemoveMembership, TypeOK, MembershipTypeOK
    <2>6. cache' = cache \/ cache' = [cache EXCEPT ![a] = None]
        BY <1>2, <2>2 DEF Parted, Drop
    <2>7. cache' \in [Address -> {None} \cup Entry]
        BY <2>6 DEF TypeOK, MembershipTypeOK
    <2>8. QED BY <1>2, <2>4, <2>5, <2>7 DEF Parted, TypeOK, MembershipTypeOK, RoomsTypeOK,
        cardVars, roomVars
<1>3. ASSUME NEW m \in Member, ForcePart(l, m) \/ GiveUp(l, m)
      PROVE  /\ MembershipTypeOK' /\ RoomsTypeOK' /\ watcher' \in [Loop -> {None} \cup Handling]
             /\ UNCHANGED <<calls, feed, walk, alive, restarts>>
    <2>1. watcher[l] \in [stage : {"parting"}, address : Address, todo : SUBSET Member]
        BY <1>3 DEF ForcePart, GiveUp, Parting, Handling
    <2>2. PICK a \in Address, todo \in SUBSET Member :
          a = watcher[l].address /\ todo = watcher[l].todo \ {m}
        BY <2>1
    <2>3. CASE ForcePart(l, m)
        <3>1. watcher' = [watcher EXCEPT ![l] = [stage |-> "parted", address |-> a,
            todo |-> todo, member |-> m]]
            BY <2>2, <2>3 DEF ForcePart
        <3>2. watcher' \in [Loop -> {None} \cup Handling]
            BY <3>1 DEF Handling
        <3>3. m[1] \in Room
            BY DEF Member
        <3>4. joined' \in [Room -> SUBSET Card]
            BY <2>3, <3>3 DEF ForcePart, TypeOK, RoomsTypeOK
        <3>5. QED BY <2>3, <3>2, <3>4 DEF ForcePart, TypeOK, MembershipTypeOK, RoomsTypeOK,
            cardVars, memberVars
    <2>4. CASE GiveUp(l, m)
        <3>1. watcher' = [watcher EXCEPT ![l] = PartAll(a, todo)]
            BY <2>2, <2>4 DEF GiveUp
        <3>2. watcher' \in [Loop -> {None} \cup Handling]
            BY <3>1, PartAllTyped
        <3>3. QED BY <2>4, <3>2 DEF GiveUp, TypeOK, MembershipTypeOK, RoomsTypeOK, cardVars,
            memberVars, roomVars
    <2>5. QED BY <1>3, <2>3, <2>4
<1>4. QED BY <1>1, <1>2, <1>3 DEF WatcherStep

LEMMA WatchedTyped == ASSUME TypeOK PROVE Watched \subseteq Address
BY DEF Watched, WatchedIn, TypeOK, MembershipTypeOK

LEMMA CreationTyped ==
    ASSUME TypeOK, RoomsExist, Creation
    PROVE  RoomsTypeOK'
<1> creating \in [Card -> {None} \cup [policy : Document, stage : {"provisioned", "minted"}]
                             \cup [policy : Document, room : Room]]
    BY DEF TypeOK, RoomsTypeOK
<1>1. ASSUME NEW c \in Card, NEW p \in Document, ProvisionShadowAccount(c, p) PROVE RoomsTypeOK'
    BY <1>1 DEF ProvisionShadowAccount, TypeOK, RoomsTypeOK
<1>2. ASSUME NEW c \in Card, NEW r \in Room, CreateRoom(c, r) PROVE RoomsTypeOK'
    <2>1. creating[c] \in [policy : Document, stage : {"provisioned", "minted"}]
        BY <1>2 DEF CreateRoom, At
    <2>2. PICK p \in Document : p = creating[c].policy
        BY <2>1
    <2>3. rooms' \in [Room -> {None} \cup [creator : Card, policy : Document]]
        BY <1>2, <2>2 DEF CreateRoom, TypeOK, RoomsTypeOK
    <2>4. joined' \in [Room -> SUBSET Card]
        BY <1>2 DEF CreateRoom, TypeOK, RoomsTypeOK
    <2>5. creating' \in [Card -> {None} \cup [policy : Document, stage : {"provisioned", "minted"}]
                                     \cup [policy : Document, room : Room]]
        BY <1>2, <2>2 DEF CreateRoom
    <2>6. QED BY <1>2, <2>3, <2>4, <2>5 DEF CreateRoom, TypeOK, RoomsTypeOK
<1>3. ASSUME NEW c \in Card, MintToken(c) PROVE RoomsTypeOK'
    <2>1. creating[c] \in [policy : Document, stage :
          {"provisioned", "minted"}] /\ creating[c] # None
        BY <1>3 DEF MintToken, At
    <2>2. c \in accounts
        BY <2>1 DEF RoomsExist
    <2>3. creating' \in [Card -> {None} \cup [policy : Document, stage : {"provisioned", "minted"}]
                                     \cup [policy : Document, room : Room]]
        BY <1>3, <2>1 DEF MintToken
    <2>4. QED BY <1>3, <2>2, <2>3 DEF MintToken, TypeOK, RoomsTypeOK
<1>4. ASSUME NEW c \in Card, IndexRoom(c) PROVE RoomsTypeOK'
    <2>1. creating[c] \in [policy : Document, room : Room]
        BY <1>4 DEF IndexRoom
    <2>2. PICK p \in Document, r \in Room : p = creating[c].policy /\ r = creating[c].room
        BY <2>1
    <2>3. index' = [index EXCEPT ![r] = IF @ = None THEN p ELSE @]
        BY <1>4, <2>2 DEF IndexRoom
    <2>4. index' \in [Room -> {None} \cup Document]
        BY <2>3 DEF TypeOK, RoomsTypeOK
    <2>5. QED BY <1>4, <2>4 DEF IndexRoom, TypeOK, RoomsTypeOK
<1>5. ASSUME NEW c \in Card, CreationFails(c) PROVE RoomsTypeOK'
    BY <1>5 DEF CreationFails, TypeOK, RoomsTypeOK
<1>6. QED BY <1>1, <1>2, <1>3, <1>4, <1>5 DEF Creation

LEMMA RoomTypesKept ==
    ASSUME TypeOK, RoomsExist, [Next]_vars
    PROVE  TypeOK'
<1>1. CASE UNCHANGED vars
    BY <1>1 DEF vars, cardVars, memberVars, roomVars, moduleVars, TypeOK, MembershipTypeOK,
        RoomsTypeOK
<1>2. CASE Next
    <2>1. qualified' \subseteq Document \X Card
        BY <1>2 DEF Next, Observe, TypeOK
    <2>2. CASE Hooks
        BY <2>1, <2>2, HooksTyped DEF TypeOK
    <2>3. ASSUME NEW l \in Loop, WatcherStep(l) PROVE TypeOK'
        BY <2>1, <2>3, WatcherTyped DEF TypeOK
    <2>4. ASSUME NEW l \in Loop, LoopEnds(l) PROVE TypeOK'
        BY <2>1, <2>4 DEF LoopEnds, TypeOK, MembershipTypeOK, RoomsTypeOK, cardVars, memberVars,
            roomVars
    <2>5. CASE TakeEvent
        <3>1. PICK a \in feed : feed' = feed \ {a} /\ Handle("subscription", a)
            BY <2>5 DEF TakeEvent
        <3>2. watcher' \in [Loop -> {None} \cup Handling] /\ feed' \subseteq Address
            BY <3>1, HandleTyped DEF TypeOK, Loop
        <3>3. QED BY <2>1, <2>5, <3>2 DEF TakeEvent, TypeOK, MembershipTypeOK, RoomsTypeOK,
            cardVars, memberVars, roomVars
    <2>6. CASE Backstop
        <3>1. CASE StartRound
            BY <2>1, <3>1, WatchedTyped DEF StartRound, TypeOK, MembershipTypeOK, RoomsTypeOK,
                cardVars, memberVars, roomVars
        <3>2. ASSUME NEW a \in Address, LookAt(a) PROVE TypeOK'
            <4>1. watcher' \in [Loop -> {None} \cup Handling] /\ walk' \subseteq Address
                BY <3>2, HandleTyped DEF LookAt, TypeOK, Loop
            <4>2. QED BY <2>1, <3>2, <4>1 DEF LookAt, TypeOK, MembershipTypeOK, RoomsTypeOK,
                cardVars, memberVars, roomVars
        <3>3. QED BY <2>6, <3>1, <3>2 DEF Backstop
    <2>7. CASE Restart
        <3>1. restarts' \in 0..MaxRestarts
            BY <2>7, RestartAssumption DEF Restart, TypeOK
        <3>2. QED BY <2>1, <2>7, <3>1 DEF Restart, TypeOK, MembershipTypeOK, RoomsTypeOK,
            cardVars, roomVars
    <2>8. CASE Chain
        <3>1. PICK a \in Address : Revoke(a) \/ \E v \in Field : UpdateField(a, v)
            BY <2>8 DEF Chain
        <3>2. feed' \subseteq Address
            BY <3>1 DEF Revoke, UpdateField, Announce, TypeOK
        <3>3. revoked' \subseteq Address /\ field' \in [Address -> Field]
            BY <3>1 DEF Revoke, UpdateField, TypeOK, MembershipTypeOK
        <3>4. QED BY <2>1, <3>1, <3>2, <3>3 DEF Revoke, UpdateField, TypeOK, MembershipTypeOK,
            RoomsTypeOK, memberVars, roomVars
    <2>9. CASE CreateRooms
        BY <2>1, <2>9, CreationTyped DEF CreateRooms, TypeOK, MembershipTypeOK, cardVars,
            memberVars, moduleVars
    <2>10. QED BY <1>2, <2>2, <2>3, <2>4, <2>5, <2>6, <2>7, <2>8, <2>9 DEF Next
<1>3. QED BY <1>1, <1>2

-----------------------------------------------------------------------------
(* What is known                                                             *)

\* A step leaves what it does not touch, and a card qualifies for good.
LEMMA QualifiedGrows ==
    ASSUME Next
    PROVE  qualified \subseteq qualified' /\ QualifiersKnown'
BY DEF Next, Observe, QualifiersKnown

\* Steps that leave the rooms, their members and the requests alone.
LEMMA RoomsRest ==
    ASSUME RoomIInv, qualified \subseteq qualified', UNCHANGED roomVars
    PROVE  MembersKnown' /\ RoomsExist' /\ \A r \in Room, c \in Card : Gated(r, c) => Gated(r, c)'
BY DEF RoomIInv, MembersKnown, RoomsExist, roomVars, Gated

LEMMA CallsRest ==
    ASSUME RoomIInv, qualified \subseteq qualified', UNCHANGED <<calls, rooms>>
    PROVE  CallsKnown'
<1> SUFFICES ASSUME NEW r \in Room, NEW c \in Card, calls[<<r, c>>] # None
             PROVE  CallKnown(r, c)'
    BY DEF CallsKnown, CallKnown
<1>1. CallKnown(r, c)
    BY DEF RoomIInv, CallsKnown
<1>2. ASSUME Known(c, calls[<<r, c>>].walk.chain) PROVE Known(c, calls[<<r, c>>].walk.chain)'
    BY <1>2 DEF Known, Satisfies, Matches
<1>3. QED BY <1>1, <1>2 DEF CallKnown, Gated

LEMMA CacheRests ==
    ASSUME RoomIInv, qualified \subseteq qualified', UNCHANGED cache
    PROVE  CachedKnown'
BY DEF RoomIInv, CachedKnown, Known, Satisfies, Matches

\* A refreshed entry has the chain of the old one, or none.
LEMMA RefreshKnown ==
    ASSUME RoomIInv, qualified \subseteq qualified', NEW a \in Address, NEW status \in BOOLEAN
    PROVE  /\ Refresh(a, status) => CachedKnown'
           /\ a \in Card => Known(a, Refreshed(a, status).chain)
<1>1. \A c \in Card : c \in Address
    BY DEF Address
<1>2. a \in Card => Known(a, Refreshed(a, status).chain)
    BY DEF RoomIInv, CachedKnown, Refreshed, Known, Satisfies
<1>3. ASSUME Refresh(a, status) PROVE CachedKnown'
    <2>1. /\ cache' = [cache EXCEPT ![a] = Refreshed(a, status)]
          /\ cache \in [Address -> {None} \cup Entry]
        BY <1>3 DEF Refresh, RoomIInv, TypeOK, MembershipTypeOK
    <2>2. SUFFICES ASSUME NEW c \in Card, cache'[c] # None, NEW d \in Document,
                          Satisfies(d, cache'[c].chain)
                   PROVE  <<d, c>> \in qualified'
        BY DEF CachedKnown, Known, Satisfies, Matches
    <2>3. CASE c = a
        BY <1>1, <1>2, <2>1, <2>2, <2>3 DEF Known
    <2>4. CASE c # a
        BY <1>1, <2>1, <2>2, <2>4 DEF RoomIInv, CachedKnown, Known
    <2>5. QED BY <2>3, <2>4
<1>4. QED BY <1>2, <1>3

\* A request is made, goes on or ends: what it carries is known.
LEMMA CallChanges ==
    ASSUME RoomIInv, qualified \subseteq qualified', UNCHANGED rooms,
           NEW r \in Room, NEW c \in Card, NEW call, rooms[r] # None,
           call = None \/ \/ call.kind \in {"walking", "join", "creator"} /\ Known(c, call.walk.chain)
                             /\ (call.kind = "join" => Gated(r, c))
                          \/ call.kind \in {"joining", "accepted"} /\ Gated(r, c)
                          \/ call.kind = "refreshing",
           calls' = [calls EXCEPT ![<<r, c>>] = call]
    PROVE  CallsKnown'
<1> SUFFICES ASSUME NEW r1 \in Room, NEW c1 \in Card, calls'[<<r1, c1>>] # None
             PROVE  CallKnown(r1, c1)'
    BY DEF CallsKnown, CallKnown
<1>1. calls \in [Member -> {None} \cup Call] /\ <<r1, c1>> \in Member
    BY DEF RoomIInv, TypeOK, Member
<1>2. CASE r1 = r /\ c1 = c
    <2>1. calls'[<<r1, c1>>] = call
        BY <1>1, <1>2
    <2>2. ASSUME Known(c, call.walk.chain) PROVE Known(c1, calls[<<r1, c1>>].walk.chain)'
        BY <1>2, <2>1, <2>2 DEF Known, Satisfies, Matches
    <2>3. Gated(r, c) => Gated(r1, c1)'
        BY <1>2 DEF Gated
    <2>4. QED BY <1>2, <2>1, <2>2, <2>3 DEF CallKnown
<1>3. CASE ~(r1 = r /\ c1 = c)
    <2>1. calls'[<<r1, c1>>] = calls[<<r1, c1>>]
        BY <1>1, <1>3
    <2>2. CallKnown(r1, c1) /\ calls[<<r1, c1>>] # None
        BY <2>1 DEF RoomIInv, CallsKnown
    <2>3. ASSUME Known(c1, calls[<<r1, c1>>].walk.chain)
          PROVE  Known(c1, calls[<<r1, c1>>].walk.chain)'
        BY <2>1, <2>3 DEF Known, Satisfies, Matches
    <2>4. Gated(r1, c1) => Gated(r1, c1)'
        BY DEF Gated
    <2>5. QED BY <2>1, <2>2, <2>3, <2>4 DEF CallKnown
<1>4. QED BY <1>2, <1>3

LEMMA AdmitKnown ==
    ASSUME RoomIInv, qualified \subseteq qualified', NEW r \in Room, NEW c \in Card, Admit(r, c),
           Known(c, calls[<<r, c>>].walk.chain)
    PROVE  CachedKnown'
<1>1. /\ cache' = [cache EXCEPT ![c] = calls[<<r, c>>].walk]
      /\ cache \in [Address -> {None} \cup Entry]
    BY DEF Admit, SeedFromJoin, RoomIInv, TypeOK, MembershipTypeOK
<1>2. SUFFICES ASSUME NEW c1 \in Card, cache'[c1] # None, NEW d \in Document,
                      Satisfies(d, cache'[c1].chain)
               PROVE  <<d, c1>> \in qualified'
    BY DEF CachedKnown, Known, Satisfies, Matches
<1>3. c1 \in Address
    BY DEF Address
<1>4. CASE c1 = c
    BY <1>1, <1>2, <1>3, <1>4 DEF Known
<1>5. CASE c1 # c
    BY <1>1, <1>2, <1>3, <1>5 DEF RoomIInv, CachedKnown, Known
<1>6. QED BY <1>4, <1>5

\* A card of a room, or with a request in one, is of a room that exists.
LEMMA HooksKnown ==
    ASSUME RoomIInv, Hooks, qualified \subseteq qualified'
    PROVE  CachedKnown' /\ CallsKnown' /\ MembersKnown' /\ RoomsExist'
<1>1. ASSUME NEW m \in Member, EndCall(m)
      PROVE  CachedKnown' /\ CallsKnown' /\ MembersKnown' /\ RoomsExist'
    <2>1. PICK r \in Room, c \in Card : m = <<r, c>>
        BY DEF Member
    <2>2. rooms[r] # None
        BY <1>1, <2>1 DEF EndCall, RoomIInv, CallsKnown, CallKnown
    <2>3. CallsKnown'
        BY <1>1, <2>1, <2>2, CallChanges DEF EndCall, Reply, roomVars
    <2>4. QED BY <1>1, <2>3, CacheRests, RoomsRest DEF EndCall, memberVars
<1>2. ASSUME NEW r \in Room, NEW c \in Card,
             \/ Ask(r, c) \/ ReadAncestor(r, c) \/ EndWalk(r, c) \/ AllowJoin(r, c)
             \/ RegisterCreator(r, c) \/ PersistJoin(r, c)
             \/ Leave(r, c) \/ AskPost(r, c) \/ RefreshForPost(r, c)
      PROVE  CachedKnown' /\ CallsKnown' /\ MembersKnown' /\ RoomsExist'
    <2> CallKnown(r, c)
        BY DEF RoomIInv, CallsKnown
    <2>1. CASE Ask(r, c)
        <3>1. PICK asked \in {"join", "creator"} : StartWalk(r, c, asked)
            BY <2>1 DEF Ask, JoinRoom, AskCreator
        <3>2. rooms[r] # None
            BY <2>1 DEF Ask, JoinRoom, AskCreator, DiscoverRooms, RoomIndex, RoomIInv, RoomsExist
        <3>3. PICK call : call = [kind |-> "walking", asked |-> asked, walk |-> NoWalk, read |-> 0]
            OBVIOUS
        <3>4. /\ call.kind = "walking" /\ Known(c, call.walk.chain)
              /\ calls' = [calls EXCEPT ![<<r, c>>] = call]
            BY <3>1, <3>3, WalkStarts DEF StartWalk
        <3>5. CallsKnown'
            BY <2>1, <3>2, <3>4, CallChanges DEF Ask, roomVars
        <3>6. QED BY <2>1, <3>5, CacheRests, RoomsRest DEF Ask, memberVars
    <2>9. CASE ReadAncestor(r, c)
        <3>1. /\ calls[<<r, c>>] \in [kind : {"walking"}, asked : {"join", "creator"},
                                      walk : Entry, read : Nat]
              /\ calls[<<r, c>>].read < Len(ChainOf[c])
            BY <2>9 DEF ReadAncestor, In, Call, RoomIInv, TypeOK, Member
        <3>2. PICK w \in Entry, n \in Nat :
                  calls[<<r, c>>].walk = w /\ calls[<<r, c>>].read = n /\ n < Len(ChainOf[c])
            BY <3>1
        <3>3. rooms[r] # None /\ Known(c, w.chain)
            BY <2>9, <3>1, <3>2 DEF ReadAncestor, In, CallKnown
        <3>4. n + 1 \in DOMAIN ChainOf[c]
            BY <3>2, RoomAssumption
        <3>5. Known(c, WalkTo(w, ChainOf[c][n + 1]).chain)
            BY <3>2, <3>3, <3>4, WalkGoesOn DEF RoomIInv
        <3>6. PICK call : call = [kind |-> "walking", asked |-> calls[<<r, c>>].asked,
                                  walk |-> WalkTo(w, ChainOf[c][n + 1]), read |-> n + 1]
            OBVIOUS
        <3>7. /\ call.kind = "walking" /\ Known(c, call.walk.chain)
              /\ calls' = [calls EXCEPT ![<<r, c>>] = call]
            BY <2>9, <3>2, <3>5, <3>6 DEF ReadAncestor
        <3>8. CallsKnown'
            BY <2>9, <3>3, <3>7, CallChanges DEF ReadAncestor, roomVars
        <3>9. QED BY <2>9, <3>8, CacheRests, RoomsRest DEF ReadAncestor, memberVars
    <2>10. CASE EndWalk(r, c)
        <3>1. calls[<<r, c>>] \in [kind : {"walking"}, asked : {"join", "creator"},
                                   walk : Entry, read : Nat]
            BY <2>10 DEF EndWalk, In, Call, RoomIInv, TypeOK, Member
        <3>2. PICK w \in Entry, asked \in {"join", "creator"}, complete \in BOOLEAN :
                  /\ calls[<<r, c>>].walk = w /\ calls[<<r, c>>].asked = asked
                  /\ complete = (calls[<<r, c>>].read = Len(ChainOf[c]))
            BY <3>1
        <3>3. rooms[r] # None /\ Known(c, w.chain)
            BY <2>10, <3>1, <3>2 DEF EndWalk, In, CallKnown
        <3>4. asked = "join" => Gated(r, c)
            <4>1. rooms[r].policy \in Document
                BY <3>3 DEF RoomIInv, TypeOK, RoomsTypeOK
            <4>2. QED BY <2>10, <3>2, <3>3, <4>1 DEF EndWalk, PolicyOfRoom, Known, Gated
        <3>5. PICK v \in Outcomes(w, complete) :
                  calls' = [calls EXCEPT ![<<r, c>>] = [kind |-> asked, walk |-> v]]
            BY <2>10, <3>2 DEF EndWalk
        <3>6. PICK call : call = [kind |-> asked, walk |-> v]
            OBVIOUS
        <3>7. /\ call.kind = asked /\ Known(c, call.walk.chain)
              /\ calls' = [calls EXCEPT ![<<r, c>>] = call]
            BY <3>3, <3>5, <3>6, WalkEnds
        <3>8. CallsKnown'
            BY <2>10, <3>3, <3>4, <3>7, CallChanges DEF EndWalk, roomVars
        <3>9. QED BY <2>10, <3>8, CacheRests, RoomsRest DEF EndWalk, memberVars
    <2>2. CASE AllowJoin(r, c)
        <3>1. rooms[r] # None /\ Known(c, calls[<<r, c>>].walk.chain) /\ Gated(r, c)
            BY <2>2 DEF AllowJoin, In, CallKnown
        <3>2. CachedKnown'
            BY <2>2, <3>1, AdmitKnown DEF AllowJoin
        <3>3. PICK call : call = [kind |-> "joining"]
            OBVIOUS
        <3>4. CallsKnown'
            BY <2>2, <3>1, <3>3, CallChanges DEF AllowJoin, roomVars
        <3>5. QED BY <2>2, <3>2, <3>4, RoomsRest DEF AllowJoin
    <2>3. CASE RegisterCreator(r, c)
        <3>1. rooms[r] # None /\ Known(c, calls[<<r, c>>].walk.chain)
            BY <2>3 DEF RegisterCreator, In, CallKnown
        <3>2. CachedKnown'
            BY <2>3, <3>1, AdmitKnown DEF RegisterCreator
        <3>3. CallsKnown'
            BY <2>3, <3>1, CallChanges DEF RegisterCreator, Reply, roomVars
        <3>4. QED BY <2>3, <3>2, <3>3, RoomsRest DEF RegisterCreator
    <2>4. CASE PersistJoin(r, c)
        <3>1. rooms[r] # None /\ Gated(r, c)
            BY <2>4 DEF PersistJoin, In, CallKnown
        <3>2. CallsKnown'
            BY <2>4, <3>1, CallChanges DEF PersistJoin, Reply
        <3>3. MembersKnown'
            BY <2>4, <3>1 DEF PersistJoin, RoomIInv, MembersKnown, Gated, TypeOK, RoomsTypeOK
        <3>4. RoomsExist'
            BY <2>4 DEF PersistJoin, RoomIInv, RoomsExist
        <3>5. QED BY <2>4, <3>2, <3>3, <3>4, CacheRests DEF PersistJoin, memberVars
    <2>5. CASE Leave(r, c)
        <3>1. MembersKnown'
            BY <2>5 DEF Leave, RoomIInv, MembersKnown, Gated, TypeOK, RoomsTypeOK
        <3>2. RoomsExist'
            BY <2>5 DEF Leave, RoomIInv, RoomsExist
        <3>3. QED BY <2>5, <3>1, <3>2, CacheRests, CallsRest DEF Leave, memberVars, moduleVars
    <2>6. CASE AskPost(r, c)
        <3>1. rooms[r] # None
            BY <2>6 DEF AskPost, RoomIInv, MembersKnown
        <3>2. rooms[r].policy \in Document
            BY <3>1 DEF RoomIInv, TypeOK, RoomsTypeOK
        <3>3. CASE cache[c] = None
            <4>1. PICK call :
                      /\ call.kind = "refreshing"
                      /\ calls' = [calls EXCEPT ![<<r, c>>] = call]
                <5>1. PICK status \in Statuses(c) :
                        calls' = [calls EXCEPT ![<<r, c>>] =
                                    [kind |-> "refreshing", revoked |-> status]]
                    BY <2>6, <3>3 DEF AskPost
                <5>2. QED BY <5>1
            <4>2. /\ call.kind = "refreshing"
                  /\ calls' = [calls EXCEPT ![<<r, c>>] = call]
                  /\ UNCHANGED rooms
                BY <2>6, <3>3, <4>1 DEF AskPost, roomVars
            <4>3. CallsKnown'
                BY <3>1, <4>2, CallChanges
            <4>4. QED BY <2>6, <4>3, CacheRests, RoomsRest DEF AskPost, memberVars
        <3>4. CASE cache[c] # None
            <4>1. Gated(r, c)
                BY <2>6, <3>2, <3>4 DEF AskPost, Passes, PolicyOfRoom, RoomIInv, CachedKnown,
                    Known, Gated
            <4>2. PICK call : call = [kind |-> "accepted"]
                OBVIOUS
            <4>3. /\ call.kind = "accepted"
                  /\ calls' = [calls EXCEPT ![<<r, c>>] = call]
                  /\ UNCHANGED rooms
                BY <2>6, <3>4, <4>2 DEF AskPost, roomVars
            <4>4. CallsKnown'
                BY <3>1, <4>1, <4>3, CallChanges
            <4>5. QED BY <2>6, <4>4, CacheRests, RoomsRest DEF AskPost, memberVars
        <3>5. QED BY <3>3, <3>4
    <2>7. CASE RefreshForPost(r, c)
        <3>1. PICK status \in BOOLEAN : status = calls[<<r, c>>].revoked
            BY <2>7 DEF RefreshForPost, In, Call, RoomIInv, TypeOK, Member
        <3>2. rooms[r] # None /\ c \in Address
            BY <2>7 DEF RefreshForPost, In, CallKnown, Address
        <3>3. rooms[r].policy \in Document
            BY <3>2 DEF RoomIInv, TypeOK, RoomsTypeOK
        <3>4. CachedKnown' /\ Known(c, Refreshed(c, status).chain)
            BY <2>7, <3>1, <3>2, RefreshKnown DEF RefreshForPost
        <3>5. Passes(r, Refreshed(c, status)) => Gated(r, c)
            BY <3>3, <3>4 DEF Passes, PolicyOfRoom, Known, Gated
        <3>6. ASSUME Passes(r, Refreshed(c, status)) PROVE CallsKnown'
            <4>1. PICK call : call = [kind |-> "accepted"]
                OBVIOUS
            <4>2. /\ call.kind = "accepted"
                  /\ calls' = [calls EXCEPT ![<<r, c>>] = call]
                  /\ UNCHANGED rooms
                BY <2>7, <3>1, <3>6, <4>1 DEF RefreshForPost, roomVars
            <4>3. QED BY <3>2, <3>5, <3>6, <4>2, CallChanges
        <3>7. ASSUME ~Passes(r, Refreshed(c, status)) PROVE CallsKnown'
            <4>1. calls' = [calls EXCEPT ![<<r, c>>] = None] /\ UNCHANGED rooms
                BY <2>7, <3>1, <3>7 DEF RefreshForPost, roomVars
            <4>2. QED BY <3>2, <4>1, CallChanges
        <3>8. CallsKnown'
            BY <3>6, <3>7
        <3>9. QED BY <2>7, <3>4, <3>8, RoomsRest DEF RefreshForPost
    <2>8. QED BY <1>2, <2>1, <2>2, <2>3, <2>4, <2>5, <2>6, <2>7, <2>9, <2>10
<1>3. QED BY <1>1, <1>2 DEF Hooks

LEMMA WatcherKnown ==
    ASSUME RoomIInv, NEW l \in Loop, WatcherStep(l), qualified \subseteq qualified'
    PROVE  CachedKnown' /\ CallsKnown' /\ MembersKnown' /\ RoomsExist'
<1>1. CASE WatchedRefreshed(l)
    <2>1. PICK a \in Address, status \in BOOLEAN :
          a = watcher[l].address /\ status = watcher[l].revoked
        BY <1>1 DEF WatchedRefreshed, Handling, RoomIInv, TypeOK
    <2>2. CachedKnown'
        BY <1>1, <2>1, RefreshKnown DEF WatchedRefreshed
    <2>3. QED BY <1>1, <2>2, CallsRest, RoomsRest DEF WatchedRefreshed, roomVars
<1>2. CASE Parted(l)
    <2>1. CachedKnown'
        <3>1. \A c \in Card : cache'[c] = cache[c] \/ cache'[c] = None
            BY <1>2 DEF Parted, Drop, RoomIInv, TypeOK, MembershipTypeOK, Address
        <3>2. QED BY <3>1 DEF RoomIInv, CachedKnown, Known, Satisfies, Matches
    <2>2. QED BY <1>2, <2>1, CallsRest, RoomsRest DEF Parted, roomVars
<1>3. ASSUME NEW m \in Member, ForcePart(l, m)
      PROVE  CachedKnown' /\ CallsKnown' /\ MembersKnown' /\ RoomsExist'
    <2>1. \A r \in Room : joined'[r] \subseteq joined[r]
        BY <1>3 DEF ForcePart, RoomIInv, TypeOK, RoomsTypeOK, Member
    <2>2. MembersKnown'
        BY <1>3, <2>1 DEF ForcePart, RoomIInv, MembersKnown, Gated
    <2>3. RoomsExist'
        BY <1>3 DEF ForcePart, RoomIInv, RoomsExist
    <2>4. QED BY <1>3, <2>2, <2>3, CacheRests, CallsRest DEF ForcePart, memberVars
<1>4. ASSUME NEW m \in Member, GiveUp(l, m)
      PROVE  CachedKnown' /\ CallsKnown' /\ MembersKnown' /\ RoomsExist'
    BY <1>4, CacheRests, CallsRest, RoomsRest DEF GiveUp, memberVars, roomVars
<1>5. QED BY <1>1, <1>2, <1>3, <1>4 DEF WatcherStep

LEMMA CreationKnown ==
    ASSUME RoomIInv, CreateRooms, qualified \subseteq qualified'
    PROVE  CachedKnown' /\ CallsKnown' /\ MembersKnown' /\ RoomsExist'
<1>1. CachedKnown' /\ UNCHANGED calls
    BY CacheRests DEF CreateRooms, memberVars, moduleVars
<1> creating \in [Card -> {None} \cup [policy : Document, stage : {"provisioned", "minted"}]
                             \cup [policy : Document, room : Room]]
    BY DEF RoomIInv, TypeOK, RoomsTypeOK
<1>2. ASSUME NEW c \in Card, NEW p \in Document, ProvisionShadowAccount(c, p)
      PROVE  CallsKnown' /\ MembersKnown' /\ RoomsExist'
    <2>1. CallsKnown'
        BY <1>1, <1>2, CallsRest DEF ProvisionShadowAccount
    <2>2. MembersKnown'
        BY <1>2 DEF ProvisionShadowAccount, RoomIInv, MembersKnown, Gated
    <2>3. RoomsExist'
        BY <1>2 DEF ProvisionShadowAccount, RoomIInv, RoomsExist
    <2>4. QED BY <2>1, <2>2, <2>3
<1>3. ASSUME NEW c \in Card, MintToken(c)
      PROVE  CallsKnown' /\ MembersKnown' /\ RoomsExist'
    <2>1. CallsKnown'
        BY <1>1, <1>3, CallsRest DEF MintToken
    <2>2. MembersKnown'
        BY <1>3 DEF MintToken, RoomIInv, MembersKnown, Gated
    <2>3. creating[c] \in [policy : Document, stage :
          {"provisioned", "minted"}] /\ creating[c] # None
        BY <1>3 DEF MintToken, At
    <2>4. DOMAIN creating'[c] = {"policy", "stage"} /\ c \in accounts
        BY <1>3, <2>3 DEF MintToken, RoomIInv, RoomsExist
    <2>5. RoomsExist'
        BY <1>3, <2>4 DEF MintToken, RoomIInv, RoomsExist
    <2>6. QED BY <2>1, <2>2, <2>5
<1>4. ASSUME NEW c \in Card, NEW r \in Room, CreateRoom(c, r)
      PROVE  CallsKnown' /\ MembersKnown' /\ RoomsExist'
    <2>1. creating[c] \in [policy : Document, stage : {"provisioned", "minted"}]
        BY <1>4 DEF CreateRoom, At
    <2>2. PICK p \in Document : p = creating[c].policy
        BY <2>1
    <2>3. PICK room \in [creator : Card, policy : Document] :
              room.creator = c /\ rooms' = [rooms EXCEPT ![r] = room] /\ room # None
        <3>1. PICK room : room = [creator |-> c, policy |-> p]
            OBVIOUS
        <3>2. room \in [creator : Card, policy : Document] /\ room.creator = c
            BY <3>1
        <3>3. rooms' = [rooms EXCEPT ![r] = room]
            BY <1>4, <2>2, <3>1 DEF CreateRoom
        <3>4. QED BY <3>2, <3>3, NoneIsNoRoom
    <2>4. rooms'[r] = room /\ \A r1 \in Room \ {r} : rooms'[r1] = rooms[r1]
        BY <2>3 DEF RoomIInv, TypeOK, RoomsTypeOK
    <2>5. rooms[r] = None
        BY <1>4 DEF CreateRoom
    <2>6. \A r1 \in Room : rooms[r1] # None => rooms'[r1] = rooms[r1] /\ rooms'[r1] # None
        BY <2>4, <2>5
    <2>7. CallsKnown'
        <3> SUFFICES ASSUME NEW r1 \in Room, NEW c1 \in Card, calls[<<r1, c1>>] # None
                     PROVE  CallKnown(r1, c1)'
            BY <1>1 DEF CallsKnown, CallKnown
        <3>1. CallKnown(r1, c1)
            BY DEF RoomIInv, CallsKnown
        <3>2. rooms'[r1] = rooms[r1] /\ rooms'[r1] # None
            BY <2>6, <3>1 DEF CallKnown
        <3>3. ASSUME Known(c1, calls[<<r1, c1>>].walk.chain)
              PROVE  Known(c1, calls[<<r1, c1>>].walk.chain)'
            BY <1>1, <3>3 DEF Known, Satisfies, Matches
        <3>4. QED BY <1>1, <3>1, <3>2, <3>3 DEF CallKnown, Gated
    <2>8. MembersKnown'
        <3>1. joined' = [joined EXCEPT ![r] = {c}] /\ joined \in [Room -> SUBSET Card]
            BY <1>4 DEF CreateRoom, RoomIInv, TypeOK, RoomsTypeOK
        <3>2. SUFFICES ASSUME NEW r1 \in Room, NEW c1 \in Card, c1 \in joined'[r1]
                       PROVE  rooms'[r1] # None /\ (rooms'[r1].creator # c1 => Gated(r1, c1)')
            BY DEF MembersKnown
        <3>3. CASE r1 = r
            BY <2>3, <2>4, <3>1, <3>2, <3>3
        <3>4. CASE r1 # r
            BY <2>6, <3>1, <3>2, <3>4 DEF RoomIInv, MembersKnown, Gated
        <3>5. QED BY <3>3, <3>4
    <2>9. RoomsExist'
        <3>1. /\ creating' = [creating EXCEPT ![c] = [policy |-> p, room |-> r]]
              /\ UNCHANGED <<index, accounts>>
            BY <1>4, <2>2 DEF CreateRoom
        <3>2. \A r1 \in Room : index'[r1] # None => rooms'[r1] # None
            BY <2>6, <3>1 DEF RoomIInv, RoomsExist
        <3>3. ASSUME NEW c1 \in Card, creating'[c1] # None
              PROVE  /\ "room" \in DOMAIN creating'[c1] => rooms'[creating'[c1].room] # None
                     /\ "stage" \in DOMAIN creating'[c1] => c1 \in accounts'
            <4>1. CASE c1 = c
                BY <2>3, <2>4, <3>1, <4>1
            <4>2. CASE c1 # c
                <5>1. creating'[c1] = creating[c1]
                    BY <3>1, <4>2
                <5>2. "room" \in DOMAIN creating[c1] => creating[c1].room \in Room
                    BY <3>3, <5>1
                <5>3. QED BY <2>6, <3>1, <3>3, <5>1, <5>2 DEF RoomIInv, RoomsExist
            <4>3. QED BY <4>1, <4>2
        <3>4. QED BY <3>2, <3>3 DEF RoomsExist
    <2>10. QED BY <2>7, <2>8, <2>9
<1>5. ASSUME NEW c \in Card, IndexRoom(c)
      PROVE  CallsKnown' /\ MembersKnown' /\ RoomsExist'
    <2>1. CallsKnown'
        BY <1>1, <1>5, CallsRest DEF IndexRoom
    <2>2. MembersKnown'
        BY <1>5 DEF IndexRoom, RoomIInv, MembersKnown, Gated
    <2>3. PICK r : r = creating[c].room /\ rooms[r] # None
        BY <1>5 DEF IndexRoom, RoomIInv, RoomsExist
    <2>4. \A r1 \in Room : index'[r1] # None => rooms[r1] # None
        BY <1>5, <2>3 DEF IndexRoom, RoomIInv, RoomsExist, TypeOK, RoomsTypeOK
    <2>5. \A c1 \in Card : creating'[c1] # None => creating'[c1] = creating[c1]
        BY <1>5 DEF IndexRoom
    <2>6. RoomsExist'
        BY <1>5, <2>4, <2>5 DEF IndexRoom, RoomIInv, RoomsExist
    <2>7. QED BY <2>1, <2>2, <2>6
<1>6. ASSUME NEW c \in Card, CreationFails(c)
      PROVE  CallsKnown' /\ MembersKnown' /\ RoomsExist'
    <2>1. CallsKnown'
        BY <1>1, <1>6, CallsRest DEF CreationFails
    <2>2. MembersKnown'
        BY <1>6 DEF CreationFails, RoomIInv, MembersKnown, Gated
    <2>3. \A c1 \in Card : creating'[c1] # None => creating'[c1] = creating[c1]
        BY <1>6 DEF CreationFails
    <2>4. RoomsExist'
        BY <1>6, <2>3 DEF CreationFails, RoomIInv, RoomsExist
    <2>5. QED BY <2>1, <2>2, <2>4
<1>7. QED BY <1>1, <1>2, <1>3, <1>4, <1>5, <1>6 DEF CreateRooms, Creation

LEMMA RoomStep == RoomIInv /\ [Next]_vars => RoomIInv'
<1> SUFFICES ASSUME RoomIInv, [Next]_vars PROVE RoomIInv'
    OBVIOUS
<1>1. TypeOK'
    BY RoomTypesKept DEF RoomIInv
<1>2. CASE UNCHANGED vars
    <2>1. QualifiersKnown'
        BY <1>2 DEF RoomIInv, QualifiersKnown, Qualifies, vars, cardVars
    <2>2. qualified \subseteq qualified' /\ UNCHANGED <<roomVars, calls, rooms, cache>>
        BY <1>2 DEF vars, roomVars, moduleVars, memberVars
    <2>3. QED BY <1>1, <2>1, <2>2, CacheRests, CallsRest, RoomsRest DEF RoomIInv
<1>3. CASE Next
    <2>1. qualified \subseteq qualified' /\ QualifiersKnown'
        BY <1>3, QualifiedGrows
    <2>2. CASE Hooks
        BY <1>1, <2>1, <2>2, HooksKnown DEF RoomIInv
    <2>3. ASSUME NEW l \in Loop, WatcherStep(l) PROVE RoomIInv'
        BY <1>1, <2>1, <2>3, WatcherKnown DEF RoomIInv
    <2>4. CASE CreateRooms
        BY <1>1, <2>1, <2>4, CreationKnown DEF RoomIInv
    <2>5. CASE Restart
        <3>1. CallsKnown' /\ CachedKnown'
            BY <2>5 DEF Restart, CallsKnown, CallKnown, CachedKnown, Member, Address
        <3>2. QED BY <1>1, <2>1, <2>5, <3>1, RoomsRest DEF Restart, RoomIInv
    <2>6. CASE UNCHANGED <<roomVars, calls, cache>>
        <3>1. UNCHANGED rooms
            BY <2>6 DEF roomVars
        <3>2. QED BY <1>1, <2>1, <2>6, <3>1, CacheRests, CallsRest, RoomsRest DEF RoomIInv
    <2>7. ASSUME TakeEvent \/ Backstop \/ Chain \/ \E l \in Loop : LoopEnds(l)
          PROVE  UNCHANGED <<roomVars, calls, cache>>
        BY <2>7 DEF TakeEvent, Backstop, StartRound, LookAt, Chain, Revoke, UpdateField,
            LoopEnds, memberVars
    <2>8. QED BY <1>3, <2>2, <2>3, <2>4, <2>5, <2>6, <2>7 DEF Next
<1>4. QED BY <1>2, <1>3

\* The policy module keeps to the shapes of its state, whatever happens to rooms and cards.
THEOREM RoomsTypeCorrect == Spec => []TypeOK
<1>1. RoomIInv => TypeOK
    BY DEF RoomIInv
<1>2. QED BY <1>1, RoomsInitial, RoomStep, PTL DEF Spec

\* Nobody but its creator is in a room, and no post is accepted, for a card whose chain
\* never satisfied the policy of the room (module.py, predicates.py).
THEOREM MembersAreQualified == Spec => []MembersQualify
<1>1. RoomIInv => MembersQualify
    BY DEF RoomIInv, MembersQualify, Accepted, In, CallsKnown, CallKnown, MembersKnown, Gated,
        PolicyOfRoom
<1>2. QED BY <1>1, RoomsInitial, RoomStep, PTL DEF Spec
-----------------------------------------------------------------------------
(* Discovery: a room of the index has the policy that the index tells.  A retried      *)
(* request makes another room, and never indexes one it did not make.           *)

IndexIsTrue ==
    /\ \A r \in Room : index[r] # None => rooms[r] # None /\ rooms[r].policy = index[r]
    /\ \A c \in Card :
        creating[c] # None /\ "room" \in DOMAIN creating[c] =>
            /\ rooms[creating[c].room] # None
            /\ rooms[creating[c].room].policy = creating[c].policy

LEMMA IndexRests ==
    ASSUME IndexIsTrue, UNCHANGED <<rooms, creating, index>>
    PROVE  IndexIsTrue'
BY DEF IndexIsTrue

LEMMA CreationIndexes ==
    ASSUME TypeOK, IndexIsTrue, Creation
    PROVE  IndexIsTrue'
<1> USE DEF IndexIsTrue
<1>1. ASSUME NEW c \in Card, NEW p \in Document, ProvisionShadowAccount(c, p)
      PROVE  IndexIsTrue'
    BY <1>1 DEF ProvisionShadowAccount, TypeOK, RoomsTypeOK
<1>2. ASSUME NEW c \in Card, NEW r \in Room, CreateRoom(c, r)
      PROVE  IndexIsTrue'
    <2>1. creating[c] \in [policy : Document, stage : {"provisioned", "minted"}]
        BY <1>2 DEF CreateRoom, At, TypeOK, RoomsTypeOK
    <2>2. PICK p \in Document : p = creating[c].policy
        BY <2>1
    <2>3. PICK room \in [creator : Card, policy : Document] :
              room.policy = p /\ rooms' = [rooms EXCEPT ![r] = room] /\ room # None
        <3>1. PICK room : room = [creator |-> c, policy |-> p]
            OBVIOUS
        <3>2. room \in [creator : Card, policy : Document] /\ room.policy = p
            BY <3>1
        <3>3. rooms' = [rooms EXCEPT ![r] = room]
            BY <1>2, <2>2, <3>1 DEF CreateRoom
        <3>4. QED BY <3>2, <3>3, NoneIsNoRoom
    <2>4. PICK request \in [policy : Document, room : Room] :
              request.policy = p /\ request.room = r /\ creating' = [creating EXCEPT ![c] = request]
        <3>1. PICK request : request = [policy |-> p, room |-> r]
            OBVIOUS
        <3>2. request \in [policy : Document, room : Room] /\ request.policy = p /\ request.room = r
            BY <3>1
        <3>3. creating' = [creating EXCEPT ![c] = request]
            BY <1>2, <2>2, <3>1 DEF CreateRoom
        <3>4. QED BY <3>2, <3>3
    <2>5. rooms[r] = None /\ index' = index
        BY <1>2 DEF CreateRoom
    <2>6. rooms'[r] = room /\ \A r1 \in Room \ {r} : rooms'[r1] = rooms[r1]
        BY <2>3 DEF TypeOK, RoomsTypeOK
    <2>7. \A r1 \in Room : rooms[r1] # None => rooms'[r1] = rooms[r1]
        BY <2>5, <2>6
    <2>8. creating'[c] = request /\ \A c1 \in Card \ {c} : creating'[c1] = creating[c1]
        BY <2>4 DEF TypeOK, RoomsTypeOK
    <2>9. ASSUME NEW c1 \in Card, creating'[c1] # None, "room" \in DOMAIN creating'[c1]
          PROVE  /\ rooms'[creating'[c1].room] # None
                 /\ rooms'[creating'[c1].room].policy = creating'[c1].policy
        <3>1. CASE c1 = c
            BY <2>3, <2>4, <2>6, <2>8, <3>1
        <3>2. CASE c1 # c
            <4>1. creating[c1] \in [policy : Document, room : Room]
                BY <2>8, <2>9, <3>2 DEF TypeOK, RoomsTypeOK
            <4>2. creating[c1].room \in Room
                BY <4>1
            <4>3. QED BY <2>7, <2>8, <2>9, <3>2, <4>2
        <3>3. QED BY <3>1, <3>2
    <2>10. \A r1 \in Room : index'[r1] # None =>
               rooms'[r1] # None /\ rooms'[r1].policy = index'[r1]
        BY <2>5, <2>7
    <2>11. QED BY <2>9, <2>10
<1>3. ASSUME NEW c \in Card, MintToken(c)
      PROVE  IndexIsTrue'
    <2>1. creating[c] \in [policy : Document, stage : {"provisioned", "minted"}]
        BY <1>3 DEF MintToken, At, TypeOK, RoomsTypeOK
    <2>2. /\ UNCHANGED <<rooms, index>>
          /\ \A c1 \in Card \ {c} : creating'[c1] = creating[c1]
          /\ "room" \notin DOMAIN creating'[c]
        BY <1>3, <2>1 DEF MintToken, TypeOK, RoomsTypeOK
    <2>3. QED BY <2>2
<1>4. ASSUME NEW c \in Card, IndexRoom(c)
      PROVE  IndexIsTrue'
    <2>1. creating[c] \in [policy : Document, room : Room]
        BY <1>4 DEF IndexRoom, TypeOK, RoomsTypeOK
    <2>2. PICK r \in Room : r = creating[c].room
        BY <2>1
    <2>3. rooms[r] # None /\ rooms[r].policy = creating[c].policy
        BY <1>4, <2>2 DEF IndexRoom
    <2>4. /\ \A r1 \in Room \ {r} : index'[r1] = index[r1]
          /\ index'[r] = IF index[r] = None THEN creating[c].policy ELSE index[r]
          /\ rooms' = rooms
        BY <1>4, <2>2 DEF IndexRoom, TypeOK, RoomsTypeOK
    <2>5. creating'[c] = None /\ \A c1 \in Card \ {c} : creating'[c1] = creating[c1]
        BY <1>4 DEF IndexRoom, TypeOK, RoomsTypeOK
    <2>6. \A r1 \in Room : index'[r1] # None =>
              rooms'[r1] # None /\ rooms'[r1].policy = index'[r1]
        BY <2>3, <2>4
    <2>7. QED BY <2>4, <2>5, <2>6
<1>5. ASSUME NEW c \in Card, CreationFails(c)
      PROVE  IndexIsTrue'
    BY <1>5 DEF CreationFails, TypeOK, RoomsTypeOK
<1>6. QED BY <1>1, <1>2, <1>3, <1>4, <1>5 DEF Creation

LEMMA IndexStep ==
    ASSUME RoomIInv, IndexIsTrue, [Next]_vars
    PROVE  IndexIsTrue'
<1>1. CASE Creation
    BY <1>1, CreationIndexes DEF RoomIInv
<1>2. CASE UNCHANGED <<rooms, creating, index>>
    BY <1>2, IndexRests
<1>3. ASSUME Hooks PROVE UNCHANGED <<rooms, creating, index>>
    <2>1. ASSUME NEW r \in Room, NEW c \in Card, Ask(r, c) \/ AllowJoin(r, c)
          PROVE  UNCHANGED <<rooms, creating, index>>
        BY <2>1 DEF Ask, AllowJoin, roomVars
    <2>2. ASSUME NEW r \in Room, NEW c \in Card, RegisterCreator(r, c) \/ PersistJoin(r, c)
          PROVE  UNCHANGED <<rooms, creating, index>>
        BY <2>2 DEF RegisterCreator, PersistJoin, roomVars
    <2>3. ASSUME NEW r \in Room, NEW c \in Card, Leave(r, c) \/ AskPost(r, c)
          PROVE  UNCHANGED <<rooms, creating, index>>
        BY <2>3 DEF Leave, AskPost, roomVars
    <2>4. ASSUME NEW r \in Room, NEW c \in Card, RefreshForPost(r, c)
          PROVE  UNCHANGED <<rooms, creating, index>>
        BY <2>4 DEF RefreshForPost, roomVars
    <2>5. ASSUME NEW m \in Member, EndCall(m) PROVE UNCHANGED <<rooms, creating, index>>
        BY <2>5 DEF EndCall, roomVars
    <2>6. ASSUME NEW r \in Room, NEW c \in Card, ReadAncestor(r, c) \/ EndWalk(r, c)
          PROVE  UNCHANGED <<rooms, creating, index>>
        BY <2>6 DEF ReadAncestor, EndWalk, roomVars
    <2>7. QED BY <1>3, <2>1, <2>2, <2>3, <2>4, <2>5, <2>6, Zenon DEF Hooks
<1>4. ASSUME NEW l \in Loop, WatcherStep(l) \/ LoopEnds(l)
      PROVE  UNCHANGED <<rooms, creating, index>>
    <2>1. CASE WatchedRefreshed(l) \/ Parted(l)
        BY <2>1 DEF WatchedRefreshed, Parted, roomVars
    <2>2. ASSUME NEW m \in Member, ForcePart(l, m) \/ GiveUp(l, m)
          PROVE  UNCHANGED <<rooms, creating, index>>
        BY <2>2 DEF ForcePart, GiveUp, roomVars
    <2>3. CASE LoopEnds(l)
        BY <2>3 DEF LoopEnds, roomVars
    <2>4. QED BY <1>4, <2>1, <2>2, <2>3, Zenon DEF WatcherStep
<1>5. ASSUME TakeEvent \/ Backstop \/ Restart \/ Chain
      PROVE  UNCHANGED <<rooms, creating, index>>
    <2>1. CASE TakeEvent \/ Restart
        BY <2>1 DEF TakeEvent, Restart, roomVars
    <2>2. CASE Backstop
        BY <2>2 DEF Backstop, StartRound, LookAt, roomVars
    <2>3. CASE Chain
        BY <2>3 DEF Chain, Revoke, UpdateField, roomVars
    <2>4. QED BY <1>5, <2>1, <2>2, <2>3
<1>6. ASSUME UNCHANGED vars PROVE UNCHANGED <<rooms, creating, index>>
    BY <1>6 DEF vars, roomVars
<1>7. QED BY <1>1, <1>2, <1>3, <1>4, <1>5, <1>6, Zenon DEF Next, CreateRooms

\* A room that discovery finds for a chain is one that the module admits that chain to:
\* what the public index tells of a room and what Synapse keeps of it agree, however
\* requests to create rooms failed or were tried again (rooms/index.post.ts, discovery.ts).
FoundIsAdmitted ==
    \A r \in Room, chain \in SUBSET Link :
        r \in DiscoverRooms(chain) => rooms[r] # None /\ Satisfies(PolicyOfRoom(r), chain)

(* Discovery and admission agree (discovery.ts of the SDK, rooms/index.post.ts, module.py). *)
THEOREM DiscoveryIsTrue == Spec => []FoundIsAdmitted
<1>1. Init => IndexIsTrue
    BY DEF Init, RoomsInit, IndexIsTrue
<1>2. RoomIInv /\ IndexIsTrue /\ [Next]_vars => IndexIsTrue'
    BY IndexStep
<1>3. IndexIsTrue => FoundIsAdmitted
    BY DEF IndexIsTrue, FoundIsAdmitted, DiscoverRooms, RoomIndex, Eligible, PolicyOfRoom
<1>4. QED BY <1>1, <1>2, <1>3, RoomsInitial, RoomStep, PTL DEF Spec
=============================================================================
