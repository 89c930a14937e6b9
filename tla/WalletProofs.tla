---------------------------- MODULE WalletProofs ----------------------------
(***************************************************************************)
(* What is proved of a wallet: that a cancelled recovery never releases its    *)
(* key, that every backup opens and that a rotation ends the sessions before it *)
(* (WalletRecovery), and that the key of a card stays in the keyring            *)
(* (OfferAcceptance).                                                       *)
(***************************************************************************)
EXTENDS WalletRecovery, OfferAcceptance, TLAPS

-----------------------------------------------------------------------------
(* WalletRecovery: windows                                                  *)

WindowsTyped ==
    /\ now \in 0..MaxTime
    /\ windows \in [Window -> {Nil} \cup WindowRow]
    /\ asking \in [Asker -> {Nil} \cup [backup : Backup, window : Window \cup {Nil}]]
\* A window is cancelled, released after its time, or neither; it never changes again.
WindowsEnd ==
    /\ \A w \in confirmed : windows[w] # Nil /\ windows[w].status = "cancelled"
    /\ \A w \in served : windows[w] # Nil /\ windows[w].status = "released"
    /\ \A w \in Window :
          windows[w] # Nil /\ windows[w].status = "released" => windows[w].expires < now
WindowsIInv == WindowsTyped /\ served \subseteq Window /\ confirmed \subseteq Window /\ WindowsEnd

\* A recovery that waits knows its window.
Waits ==
    /\ flow \in [Flow -> Stage] /\ window \in [Recovery -> Window \cup {Nil}]
    /\ \A f \in Recovery : flow[f] = "waiting" => window[f] \in Window

LEMMA WindowsInitial == Init => WindowsIInv /\ Waits
BY WindowAssumption
DEF Init, WindowInit, WindowsIInv, WindowsTyped, WindowsEnd, Waits, Stage, Flow

\* A flow moves on, and does not wait then.
LEMMA DoesNotWait ==
    ASSUME Waits, NEW f \in Flow, NEW stage \in Stage, stage # "waiting",
           flow' = [flow EXCEPT ![f] = stage], window' = window
    PROVE  Waits'
BY DEF Waits

LEMMA WaitsStep == WindowsIInv /\ Waits /\ [Next]_vars => Waits'
<1> SUFFICES ASSUME WindowsIInv, Waits, [Next]_vars PROVE Waits'
    OBVIOUS
<1> USE DEF Goes
<1>1. CASE UNCHANGED <<flow, window>>
    BY <1>1 DEF Waits
<1>2. ASSUME NEW f \in Flow, Serve(f) \/ Advance(f) \/ GiveUp(f) PROVE Waits'
  <2>1. CASE Serve(f)
      BY <1>1, <2>1 DEF Serve, flowVars
  <2>2. CASE Advance(f) \/ GiveUp(f)
    <3>1. window' = window /\ \E stage \in Stage :
              stage # "waiting" /\ flow' = [flow EXCEPT ![f] = stage]
        BY <2>2
        DEF Advance, GiveUp, RequestChallenge, InstallProvisional, Installed, InstallFinal,
            Finalized, Stage
    <3>2. QED
        BY <3>1, DoesNotWait
  <2>3. QED
      BY <1>2, <2>1, <2>2
<1>3. CASE RegisterDevice \/ FinishSetup
  <2>1. Setup \in Flow /\ window' = window /\ \E stage \in Stage :
            stage # "waiting" /\ flow' = [flow EXCEPT ![Setup] = stage]
      BY <1>3 DEF RegisterDevice, FinishSetup, Flow, Stage
  <2>2. QED
      BY <2>1, DoesNotWait
<1>4. CASE \/ Login \/ AskSecret \/ AnswerSecret \/ Background \/ Tick \/ UNCHANGED vars
           \/ \E b \in Backup : RegisterBackup(b)
    BY <1>1, <1>4
    DEF Login, AskSecret, AnswerSecret, Background, Tick, RegisterBackup, flowVars, vars
<1>5. ASSUME NEW f \in Recovery, Recover(f) PROVE Waits'
  <2>0. f \in Asker /\ f \in Flow
      BY AccountAssumption DEF Flow
  <2>1. CASE AskRecovery(f)
    <3>1. CASE Goes(f, "start", "asking") /\ UNCHANGED window
        BY <2>0, <3>1, DoesNotWait DEF Stage
    <3>2. CASE /\ Goes(f, "start", "waiting")
               /\ \E w \in ActiveWindows(BackupOf[f]) : window' = [window EXCEPT ![f] = w]
        BY <2>0, <3>2 DEF Waits, ActiveWindows, Stage
    <3>3. QED
        BY <2>1, <3>1, <3>2 DEF AskRecovery
  <2>2. CASE RecoveryAsked(f)
    <3>1. /\ flow' = [flow EXCEPT ![f] = "waiting"]
          /\ window' = [window EXCEPT ![f] = asking[f].window]
          /\ asking[f] # Nil /\ asking[f].window # Nil
        BY <2>2 DEF RecoveryAsked, Notify
    <3>2. asking[f].window \in Window
        BY <2>0, <3>1 DEF WindowsIInv, WindowsTyped
    <3>3. QED
        BY <2>0, <3>1, <3>2 DEF Waits, Stage
  <2>3. CASE Poll(f)
    <3>1. window' = window /\ \E stage \in {"released", "over", flow[f]} :
              flow' = [flow EXCEPT ![f] = stage]
        BY <2>3 DEF Poll
    <3>2. QED
        BY <2>0, <3>1 DEF Waits, Stage
  <2>4. CASE OpenKeyring(f)
      BY <2>0, <2>4, DoesNotWait DEF OpenKeyring, Stage
  <2>5. QED
      BY <1>5, <2>1, <2>2, <2>3, <2>4 DEF Recover
<1>6. CASE Restart
  <2>1. /\ window' = window /\ flow' \in [Flow -> Stage]
        /\ \A f \in Flow : flow'[f] = "waiting" => flow[f] = "waiting"
      BY <1>6 DEF Restart, Waits, Stage
  <2>2. QED
      BY <2>1 DEF Waits, Flow
<1>7. QED
    BY <1>2, <1>3, <1>4, <1>5, <1>6 DEF Next

\* One window changes, to a row that does not contradict what was said of it.
LEMMA WindowSet ==
    ASSUME WindowsIInv, NEW w \in Window, NEW r \in WindowRow, windows' = [windows EXCEPT ![w] = r],
           asking' \in [Asker -> {Nil} \cup [backup : Backup, window : Window \cup {Nil}]],
           now' = now, confirmed' \subseteq confirmed \cup {w}, served' \subseteq served \cup {w},
           w \in confirmed' => r.status = "cancelled",
           w \in served' => r.status = "released",
           r.status = "released" => r.expires < now
    PROVE  WindowsIInv'
<1>1. /\ windows' \in [Window -> {Nil} \cup WindowRow] /\ windows'[w] = r
      /\ \A v \in Window : v # w => windows'[v] = windows[v]
    BY DEF WindowsIInv, WindowsTyped
<1>2. r # Nil
    BY NilIsNoRow
<1>3. WindowsTyped' /\ served' \subseteq Window /\ confirmed' \subseteq Window
    BY <1>1 DEF WindowsIInv, WindowsTyped
<1>4. WindowsEnd'
    BY <1>1, <1>2 DEF WindowsIInv, WindowsEnd
<1>5. QED
    BY <1>3, <1>4 DEF WindowsIInv

\* A window begins where there is none.
LEMMA WindowStarts ==
    ASSUME WindowsIInv, NEW a \in Asker, NEW w \in Window, NewWindow(a, w)
    PROVE  WindowsIInv'
<1> DEFINE r == [backup |-> asking[a].backup, expires |-> now + WindowLength,
                 status |-> "pending"]
           q == [asking[a] EXCEPT !.window = w]
<1>1. /\ windows[w] = Nil /\ asking[a] # Nil /\ windows' = [windows EXCEPT ![w] = r]
      /\ UNCHANGED <<now, served, confirmed>>
    BY DEF NewWindow
<1>2. asking[a] \in [backup : Backup, window : Window \cup {Nil}]
    BY <1>1 DEF WindowsIInv, WindowsTyped
<1>3. r \in WindowRow /\ r.status = "pending"
    BY <1>2, WindowAssumption DEF WindowRow, WindowsIInv, WindowsTyped
<1>4. q \in [backup : Backup, window : Window \cup {Nil}]
    BY <1>2
<1>5. asking' = [asking EXCEPT ![a] = q]
    BY DEF NewWindow, WindowsIInv, WindowsTyped
<1> HIDE DEF r, q
<1>6. asking' \in [Asker -> {Nil} \cup [backup : Backup, window : Window \cup {Nil}]]
    BY <1>4, <1>5 DEF WindowsIInv, WindowsTyped
<1>7. w \notin confirmed /\ w \notin served
    BY <1>1 DEF WindowsIInv, WindowsEnd
<1>8. QED
    BY <1>1, <1>3, <1>6, <1>7, WindowSet

\* Only a pending window is cancelled.
LEMMA WindowCancelled ==
    ASSUME WindowsIInv, NEW w \in Window, CancelRecovery(w)
    PROVE  WindowsIInv'
<1> DEFINE r == [windows[w] EXCEPT !.status = "cancelled"]
<1>1. /\ windows[w] # Nil /\ windows[w].status = "pending"
      /\ confirmed' = confirmed \cup {w} /\ UNCHANGED <<now, asking, served>>
    BY DEF CancelRecovery, Cancellable, Pending
<1>2. windows[w] \in WindowRow
    BY <1>1 DEF WindowsIInv, WindowsTyped
<1>3. r \in WindowRow /\ r.status = "cancelled"
    BY <1>2 DEF WindowRow
<1>4. windows' = [windows EXCEPT ![w] = r]
    BY DEF CancelRecovery, WindowsIInv, WindowsTyped
<1> HIDE DEF r
<1>5. w \notin served
    BY <1>1 DEF WindowsIInv, WindowsEnd
<1>6. QED
    BY <1>1, <1>3, <1>4, <1>5, WindowSet DEF WindowsIInv, WindowsTyped

\* The key is handed out where the window is or becomes released.
LEMMA WindowReleased ==
    ASSUME WindowsIInv, NEW w \in Window, ReleaseKey(w)
    PROVE  WindowsIInv'
<1> DEFINE r == IF Releasable(w) THEN [windows[w] EXCEPT !.status = "released"] ELSE windows[w]
<1>1. /\ windows[w] # Nil /\ UNCHANGED <<now, asking, confirmed>>
      /\ served' = IF ReleaseAnswer(w) = "released" THEN served \cup {w} ELSE served
    BY DEF ReleaseKey
<1>2. windows[w] \in WindowRow /\ now \in Int
    BY <1>1 DEF WindowsIInv, WindowsTyped
<1>3. Releasable(w) => windows[w].status = "pending" /\ windows[w].expires < now
    BY DEF Releasable, Pending
<1>4. /\ r \in WindowRow
      /\ Releasable(w) => r.status = "released" /\ r.expires < now
      /\ ~Releasable(w) => r = windows[w]
    BY <1>2, <1>3 DEF WindowRow
<1>5. windows' = [windows EXCEPT ![w] = r]
    BY DEF ReleaseKey, WindowsIInv, WindowsTyped
<1>6. ReleaseAnswer(w) = "released" => r.status = "released"
  <2>1. CASE Releasable(w)
      BY <1>4, <2>1
  <2>2. CASE ~Releasable(w) /\ windows[w].status = "released"
      BY <1>4, <2>2
  <2>3. CASE ~Releasable(w) /\ windows[w].status # "released"
    <3>1. ReleaseAnswer(w) # "released"
        BY <2>3 DEF ReleaseAnswer
    <3>2. QED
        BY <3>1
  <2>4. QED
      BY <2>1, <2>2, <2>3
<1>7. /\ w \in confirmed => r.status = "cancelled"
      /\ w \in served => r.status = "released"
      /\ r.status = "released" => r.expires < now
    BY <1>1, <1>2, <1>3, <1>4 DEF WindowsIInv, WindowsEnd
<1> HIDE DEF r
<1>8. QED
    BY <1>1, <1>4, <1>5, <1>6, <1>7, WindowSet DEF WindowsIInv, WindowsTyped

\* Time passes, and requests come and go.
LEMMA WindowsWait ==
    ASSUME WindowsIInv, now' \in now..MaxTime, UNCHANGED <<windows, served, confirmed>>,
           asking' \in [Asker -> {Nil} \cup [backup : Backup, window : Window \cup {Nil}]]
    PROVE  WindowsIInv'
<1>1. now \in Nat /\ now' \in 0..MaxTime /\ now <= now'
    BY WindowAssumption DEF WindowsIInv, WindowsTyped
<1>2. \A w \in Window : windows[w] # Nil => windows[w].expires \in Int
    BY WindowAssumption DEF WindowsIInv, WindowsTyped, WindowRow
<1>3. QED
    BY <1>1, <1>2 DEF WindowsIInv, WindowsTyped, WindowsEnd

LEMMA WindowsStep == WindowsIInv /\ Waits /\ [Next]_vars => WindowsIInv'
<1> SUFFICES ASSUME WindowsIInv, Waits, [Next]_vars PROVE WindowsIInv'
    OBVIOUS
<1> DEFINE Asking == [Asker -> {Nil} \cup [backup : Backup, window : Window \cup {Nil}]]
<1>0. /\ asking \in Asking /\ now \in now..MaxTime
      /\ \A a \in Asker : [asking EXCEPT ![a] = Nil] \in Asking
      /\ \A a \in Asker, b \in Backup :
            [asking EXCEPT ![a] = [backup |-> b, window |-> Nil]] \in Asking
      /\ [a \in Asker |-> Nil] \in Asking
    BY DEF WindowsIInv, WindowsTyped
<1>1. CASE UNCHANGED vars
    BY <1>0, <1>1, WindowsWait DEF vars, windowVars
<1>2. ASSUME NEW f \in Flow, Serve(f) \/ Advance(f) \/ GiveUp(f) PROVE WindowsIInv'
    BY <1>0, <1>2, WindowsWait
    DEF windowVars, Serve, Advance, GiveUp, RequestChallenge, InstallProvisional, Installed,
        InstallFinal, Finalized
<1>3. CASE \/ RegisterDevice \/ FinishSetup \/ Login \/ AskSecret \/ AnswerSecret
           \/ \E b \in Backup : RegisterBackup(b)
    BY <1>0, <1>3, WindowsWait
    DEF windowVars, RegisterDevice, FinishSetup, Login, AskSecret, AnswerSecret,
        RegisterBackup
<1>4. ASSUME NEW f \in Recovery, Recover(f) PROVE WindowsIInv'
  <2>0. f \in Asker /\ BackupOf[f] \in Backup
      BY AccountAssumption, FlowAssumption
  <2>1. CASE AskRecovery(f)
      BY <1>0, <2>0, <2>1, WindowsWait DEF AskRecovery, FindActive
  <2>2. CASE RecoveryAsked(f)
      BY <1>0, <2>0, <2>2, WindowsWait DEF RecoveryAsked, Notify
  <2>3. CASE Poll(f)
      BY <2>3, WindowReleased DEF Poll, Waits
  <2>4. CASE OpenKeyring(f)
      BY <1>0, <2>4, WindowsWait DEF OpenKeyring, windowVars
  <2>5. QED
      BY <1>4, <2>1, <2>2, <2>3, <2>4 DEF Recover
<1>5. CASE Background
  <2>1. CASE Sweep \/ \E j \in Window \X Kind : SendInline(j)
      BY <1>0, <2>1, WindowsWait DEF Sweep, SweepFind, SweepSend, SendInline
  <2>2. CASE \E a \in Asker, w \in Window : NewWindow(a, w)
      BY <2>2, WindowStarts
  <2>3. CASE \E w \in Window : Cancel(w)
      BY <2>3, WindowCancelled DEF Cancel
  <2>4. QED
      BY <1>5, <2>1, <2>2, <2>3 DEF Background
<1>6. CASE Restart
    BY <1>0, <1>6, WindowsWait DEF Restart, StopService
<1>7. CASE Tick
  <2>1. now' \in now..MaxTime
      BY <1>7, WindowAssumption DEF Tick, WindowsIInv, WindowsTyped
  <2>2. QED
      BY <1>0, <1>7, <2>1, WindowsWait DEF Tick, windowVars
<1>8. QED
    BY <1>1, <1>2, <1>3, <1>4, <1>5, <1>6, <1>7 DEF Next

\* A recovery that was cancelled, as the holder has been told, never releases its key, and
\* none does before its time (cancel.post.ts, release.get.ts), whatever is asked how often,
\* whenever the service stops.
THEOREM CancelledStaysCancelled == Spec => []CancelIsFinal
<1>1. WindowsIInv => CancelIsFinal
    BY DEF WindowsIInv, WindowsEnd, CancelIsFinal
<1>2. QED
    BY <1>1, WindowsInitial, WindowsStep, WaitsStep, PTL DEF Spec

-----------------------------------------------------------------------------
(* WalletRecovery: the account                                              *)

AccountsTyped ==
    /\ now \in 0..MaxTime
    /\ account \in {Nil} \cup Account
    /\ call \in [Flow -> {Nil} \cup Call]
    /\ cutoff \in {Nil} \cup 0..MaxTime
    /\ rotated \in 0..MaxTime
    /\ flow \in [Flow -> Stage] /\ secret \in [Flow -> Flow \cup {Nil}]
    /\ session \in {Nil} \cup Session
    /\ backups \in [Backup -> {Nil} \cup [keyring : Blob, key : Blob]]

\* A request knows its blob, which is stored before anything points to it; a rotation is
\* not answered before the sessions are cut at a time after its secret was in place.
CallOK(f) ==
    call[f] # Nil =>
        /\ account # Nil
        /\ call[f].step # "insert" => call[f].blob \in blobs
        /\ flow[f] = "finalizing" => call[f].blob = Final(f, secret[f])
        /\ call[f].at <= now
        /\ call[f].step = "answer" /\ call[f].rotate => cutoff # Nil /\ call[f].at <= cutoff

\* Once the final keyring is installed, the service has it for good.
SetUp == {"finalized", "device", "done"}
SetupOK == flow[Setup] \in SetUp => Final(Setup, secret[Setup]) \in blobs
CutoffOK ==
    /\ cutoff # Nil => cutoff <= now
    /\ rotated # 0 => cutoff # Nil /\ rotated <= cutoff
AccountsIInv ==
    /\ AccountsTyped
    /\ \A f \in Flow : CallOK(f)
    /\ SetupOK /\ CutoffOK /\ BackupsOpen

LEMMA AccountsInitial == Init => AccountsIInv
<1> SUFFICES ASSUME Init PROVE AccountsIInv
    OBVIOUS
<1>1. Setup \in Flow /\ \A f \in Flow : call[f] = Nil /\ flow[f] = "start" /\ secret[f] = Nil
    BY DEF Init, AccountsInit, Flow
<1>2. AccountsTyped
    BY WindowAssumption DEF AccountsTyped, Init, AccountsInit, WindowInit, Stage
<1>3. BackupsOpen /\ CutoffOK
    BY DEF Init, AccountsInit, BackupsOpen, CutoffOK
<1>4. QED
    BY <1>1, <1>2, <1>3 DEF AccountsIInv, CallOK, SetupOK, SetUp

\* What a step that sets one request leaves of the others.
LEMMA CallSetTo ==
    ASSUME AccountsTyped, NEW f \in Flow, NEW c \in {Nil} \cup Call,
           call' = [call EXCEPT ![f] = c]
    PROVE  /\ call' \in [Flow -> {Nil} \cup Call] /\ call'[f] = c
           /\ \A g \in Flow : g # f => call'[g] = call[g]
BY DEF AccountsTyped

LEMMA FlowSetTo ==
    ASSUME AccountsTyped, NEW f \in Flow, NEW stage \in Stage, flow' = [flow EXCEPT ![f] = stage]
    PROVE  /\ flow' \in [Flow -> Stage] /\ flow'[f] = stage
           /\ \A g \in Flow : g # f => flow'[g] = flow[g]
BY DEF AccountsTyped

\* A flow moves, a session begins, or time passes.
LEMMA OnlyFlows ==
    ASSUME AccountsIInv, now' \in 0..MaxTime, now <= now',
           flow' \in [Flow -> Stage], session' \in {Nil} \cup Session,
           UNCHANGED <<account, blobs, backups, cutoff, call, rotated, secret>>,
           \A f \in Flow : flow'[f] = "finalizing" => flow[f] = "finalizing",
           flow'[Setup] \in SetUp => flow[Setup] \in SetUp
    PROVE  AccountsIInv'
<1>1. AccountsTyped'
    BY DEF AccountsIInv, AccountsTyped
<1>2. now \in Nat /\ now' \in Nat /\ MaxTime \in Nat
    BY WindowAssumption DEF AccountsIInv, AccountsTyped
<1>3. SetupOK' /\ CutoffOK' /\ BackupsOpen'
  <2>1. cutoff # Nil => cutoff \in Nat
      BY DEF AccountsIInv, AccountsTyped
  <2>2. QED
      BY <1>2, <2>1 DEF AccountsIInv, SetupOK, CutoffOK, BackupsOpen
<1>4. \A f \in Flow : CallOK(f)'
  <2>1. \A f \in Flow : call[f] # Nil => call[f].at \in Nat
      BY <1>2 DEF AccountsIInv, AccountsTyped, Call
  <2>2. QED
      BY <1>2, <2>1 DEF AccountsIInv, CallOK
<1>5. QED
    BY <1>1, <1>3, <1>4 DEF AccountsIInv

\* One flow moves on.
LEMMA FlowMoves ==
    ASSUME AccountsIInv, NEW f \in Flow,
           NEW stage \in Stage \ {"finalizing"}, flow' = [flow EXCEPT ![f] = stage],
           f = Setup /\ stage \in SetUp => flow[Setup] \in SetUp,
           now' = now, session' \in {Nil} \cup Session,
           UNCHANGED <<account, blobs, backups, cutoff, call, rotated, secret>>
    PROVE  AccountsIInv'
<1>1. /\ flow' \in [Flow -> Stage] /\ flow'[f] = stage
      /\ \A g \in Flow : g # f => flow'[g] = flow[g]
    BY FlowSetTo DEF AccountsIInv
<1>2. now' \in 0..MaxTime /\ now <= now'
    BY DEF AccountsIInv, AccountsTyped
<1>3. Setup \in Flow
    BY DEF Flow
<1>4. QED
    BY <1>1, <1>2, <1>3, OnlyFlows

\* A request reaches its next step.
LEMMA CallMoves ==
    ASSUME AccountsIInv, NEW f \in Flow, NEW c \in Call, call[f] # Nil,
           call' = [call EXCEPT ![f] = c],
           c.blob = call[f].blob, c.blob \in blobs', blobs \subseteq blobs',
           c.at \in {call[f].at, now},
           c.step = "answer" /\ c.rotate => cutoff' = now,
           cutoff' \in {cutoff, now}, account' \in Account,
           UNCHANGED <<now, flow, secret, session, backups, rotated>>
    PROVE  AccountsIInv'
<1>1. /\ call' \in [Flow -> {Nil} \cup Call] /\ call'[f] = c
      /\ \A g \in Flow : g # f => call'[g] = call[g]
    BY CallSetTo DEF AccountsIInv
<1>2. /\ now \in 0..MaxTime /\ now \in Nat /\ now # Nil
      /\ cutoff # Nil => cutoff \in Nat /\ cutoff <= now
      /\ rotated \in Nat
    BY NilIsNoRow, WindowAssumption DEF AccountsIInv, AccountsTyped, CutoffOK
<1>3. AccountsTyped'
    BY <1>1, <1>2 DEF AccountsIInv, AccountsTyped
<1>4. CutoffOK'
    BY <1>2 DEF AccountsIInv, CutoffOK
<1>5. SetupOK' /\ BackupsOpen'
    BY DEF AccountsIInv, SetupOK, BackupsOpen
<1>6. account' # Nil
    BY NilIsNoAccount
<1>7. CallOK(f)'
  <2>1. call[f].at <= now /\ now <= now /\ (flow[f] = "finalizing" => c.blob = Final(f, secret[f]))
      BY <1>2 DEF AccountsIInv, CallOK
  <2>2. c.at <= now
      BY <2>1
  <2>3. QED
      BY <1>1, <1>2, <1>6, <2>1, <2>2 DEF CallOK
<1>8. ASSUME NEW g \in Flow, g # f, call[g] # Nil PROVE CallOK(g)'
  <2>1. CallOK(g) /\ call'[g] = call[g] /\ call[g].at \in Nat
      BY <1>1, <1>8 DEF AccountsIInv, AccountsTyped, Call
  <2>2. cutoff # Nil /\ call[g].at <= cutoff => cutoff' # Nil /\ call[g].at <= cutoff'
      BY <1>2, <2>1
  <2>3. QED
      BY <1>6, <2>1, <2>2 DEF CallOK
<1>9. \A g \in Flow : CallOK(g)'
    BY <1>1, <1>7, <1>8 DEF CallOK
<1>10. QED
    BY <1>3, <1>4, <1>5, <1>9 DEF AccountsIInv

\* The service works on a request.
LEMMA Serving ==
    ASSUME AccountsIInv, NEW f \in Flow, Serve(f)
    PROVE  AccountsIInv'
<1> USE DEF Step
<1>0. /\ call[f] \in Call /\ call[f] # Nil /\ now \in 0..MaxTime
      /\ account \in Account /\ call[f].blob \in Blob
      /\ call[f].step # "insert" => call[f].blob \in blobs
      /\ UNCHANGED <<now, flow, secret, session, backups, rotated>>
  <2>1. call[f] # Nil /\ UNCHANGED <<now, flow, secret, session, backups, rotated>>
      BY DEF Serve, flowVars, InsertBlob, Install, Replicate, CutSessions
  <2>2. call[f] \in Call /\ now \in 0..MaxTime /\ account \in Account
      BY <2>1 DEF AccountsIInv, AccountsTyped, CallOK
  <2>3. QED
      BY <2>1, <2>2 DEF AccountsIInv, CallOK, Call
<1>1. CASE InsertBlob(f)
  <2>1. PICK step \in {"replicate", "install"} : call' = [call EXCEPT ![f].step = step]
      BY <1>1 DEF InsertBlob
  <2> DEFINE c == [call[f] EXCEPT !.step = step]
  <2>2. c \in Call /\ c.step # "answer" /\ c.blob = call[f].blob /\ c.at = call[f].at
      BY <1>0 DEF Call
  <2>3. call' = [call EXCEPT ![f] = c]
      BY <2>1 DEF AccountsIInv, AccountsTyped
  <2> HIDE DEF c
  <2>4. /\ call[f].blob \in blobs' /\ blobs \subseteq blobs'
        /\ UNCHANGED <<account, cutoff>>
      BY <1>1 DEF InsertBlob
  <2>5. QED
      BY <1>0, <2>2, <2>3, <2>4, CallMoves
<1>2. CASE Install(f)
  <2> DEFINE c == [call[f] EXCEPT !.step = "replicate", !.at = now]
  <2>2. c \in Call /\ c.step # "answer" /\ c.blob = call[f].blob /\ c.at = now
      BY <1>0 DEF Call
  <2>3. call' = [call EXCEPT ![f] = c]
      BY <1>2 DEF AccountsIInv, AccountsTyped, Install
  <2> HIDE DEF c
  <2>4. account' \in Account /\ UNCHANGED <<blobs, cutoff>>
      BY <1>0, <1>2 DEF Install, Account
  <2>5. call[f].blob \in blobs
      BY <1>0, <1>2 DEF Install
  <2>6. QED
      BY <1>0, <2>2, <2>3, <2>4, <2>5, CallMoves
<1>3. CASE Replicate(f)
  <2>1. PICK step \in {"cut", "answer"} :
            /\ step = "answer" => ~call[f].rotate
            /\ call' = [call EXCEPT ![f].step = step]
      BY <1>3 DEF Replicate
  <2> DEFINE c == [call[f] EXCEPT !.step = step]
  <2>2. /\ c \in Call /\ c.blob = call[f].blob /\ c.at = call[f].at
        /\ c.step = "answer" => ~c.rotate
      BY <1>0, <2>1 DEF Call
  <2>3. call' = [call EXCEPT ![f] = c]
      BY <2>1 DEF AccountsIInv, AccountsTyped
  <2> HIDE DEF c
  <2>4. UNCHANGED <<blobs, account, cutoff>> /\ call[f].blob \in blobs
      BY <1>0, <1>3 DEF Replicate
  <2>5. QED
      BY <1>0, <2>2, <2>3, <2>4, CallMoves
<1>4. CASE CutSessions(f)
  <2> DEFINE c == [call[f] EXCEPT !.step = "answer"]
  <2>2. c \in Call /\ c.blob = call[f].blob /\ c.at = call[f].at
      BY <1>0 DEF Call
  <2>3. call' = [call EXCEPT ![f] = c]
      BY <1>4 DEF AccountsIInv, AccountsTyped, CutSessions
  <2> HIDE DEF c
  <2>4. cutoff' = now /\ UNCHANGED <<blobs, account>> /\ call[f].blob \in blobs
      BY <1>0, <1>4 DEF CutSessions
  <2>5. QED
      BY <1>0, <2>2, <2>3, <2>4, CallMoves
<1>5. QED
    BY <1>1, <1>2, <1>3, <1>4 DEF Serve

\* A flow sends a request: it points to nothing yet, and dates nothing.
LEMMA CallStarts ==
    ASSUME AccountsIInv, NEW f \in Flow, NEW blob \in Blob, NEW c \in Call, call[f] = Nil,
           call' = [call EXCEPT ![f] = c],
           c.step = "insert", c.at = 0, c.blob = blob,
           NEW stage \in {"installing", "finalizing"}, flow' = [flow EXCEPT ![f] = stage],
           stage = "finalizing" => blob = Final(f, secret[f]),
           account' \in Account,
           UNCHANGED <<now, blobs, backups, cutoff, rotated, secret, session>>
    PROVE  AccountsIInv'
<1>1. /\ call' \in [Flow -> {Nil} \cup Call] /\ call'[f] = c
      /\ \A g \in Flow : g # f => call'[g] = call[g]
    BY CallSetTo DEF AccountsIInv
<1>2. /\ flow' \in [Flow -> Stage] /\ flow'[f] = stage
      /\ \A g \in Flow : g # f => flow'[g] = flow[g]
    BY FlowSetTo DEF AccountsIInv, Stage
<1>3. account' # Nil /\ 0 <= now
    BY NilIsNoAccount DEF AccountsIInv, AccountsTyped
<1>4. AccountsTyped'
    BY <1>1, <1>2 DEF AccountsIInv, AccountsTyped
<1>5. SetupOK' /\ CutoffOK' /\ BackupsOpen'
  <2>1. flow'[Setup] \in SetUp => flow[Setup] \in SetUp
      BY <1>2 DEF SetUp, Flow
  <2>2. QED
      BY <2>1 DEF AccountsIInv, SetupOK, CutoffOK, BackupsOpen
<1>6. \A g \in Flow : CallOK(g)'
    BY <1>1, <1>2, <1>3 DEF AccountsIInv, CallOK
<1>7. QED
    BY <1>4, <1>5, <1>6 DEF AccountsIInv

LEMMA Calling ==
    ASSUME AccountsIInv, NEW f \in Flow, InstallProvisional(f) \/ InstallFinal(f)
    PROVE  AccountsIInv'
<1>0. Provisional(f) \in Blob /\ Final(f, secret[f]) \in Blob
    BY DEF Provisional, Final, Blob, AccountsIInv, AccountsTyped
<1>1. ASSUME NEW blob \in Blob, NEW rotate \in BOOLEAN, UpdateKeyring(f, blob, rotate),
             NEW stage \in {"installing", "finalizing"}, flow' = [flow EXCEPT ![f] = stage],
             stage = "finalizing" => blob = Final(f, secret[f]),
             UNCHANGED <<now, secret, session>>
      PROVE  AccountsIInv'
  <2>1. account \in Account
      BY <1>1 DEF UpdateKeyring, AccountsIInv, AccountsTyped
  <2> DEFINE c == [step |-> "insert", blob |-> blob, rotate |-> rotate,
                   previous |-> account.keyring, echo |-> account.secret, at |-> 0]
  <2>2. c \in Call /\ c.step = "insert" /\ c.at = 0 /\ c.blob = blob
      BY <2>1, WindowAssumption DEF Account, Call
  <2>3. /\ call[f] = Nil /\ call' = [call EXCEPT ![f] = c]
        /\ UNCHANGED <<account, blobs, backups, cutoff, rotated>>
      BY <1>1 DEF UpdateKeyring
  <2> HIDE DEF c
  <2>4. QED
      BY <1>1, <2>1, <2>2, <2>3, CallStarts
<1>2. ASSUME CreateAccount(f, Provisional(f)), flow' = [flow EXCEPT ![f] = "installing"],
             UNCHANGED <<now, secret, session>>
      PROVE  AccountsIInv'
  <2> DEFINE c == [step |-> "insert", blob |-> Provisional(f), rotate |-> FALSE,
                   previous |-> Nil, echo |-> f, at |-> 0]
  <2>1. c \in Call /\ c.step = "insert" /\ c.at = 0 /\ c.blob = Provisional(f)
      BY <1>0, WindowAssumption DEF Call
  <2>2. /\ call[f] = Nil /\ call' = [call EXCEPT ![f] = c]
        /\ UNCHANGED <<blobs, backups, cutoff, rotated>>
      BY <1>2 DEF CreateAccount
  <2>3. account' \in Account
      BY <1>0, <1>2 DEF CreateAccount, Account
  <2> HIDE DEF c
  <2>4. QED
      BY <1>0, <1>2, <2>1, <2>2, <2>3, CallStarts
<1>3. CASE InstallProvisional(f)
    BY <1>0, <1>1, <1>2, <1>3 DEF InstallProvisional, Goes
<1>4. CASE InstallFinal(f)
    BY <1>0, <1>1, <1>4 DEF InstallFinal, Goes
<1>5. QED
    BY <1>3, <1>4

\* A request is answered: its flow goes on to "installed", or is through with its keyring.
LEMMA Answering ==
    ASSUME AccountsIInv, NEW f \in Flow, Installed(f) \/ Finalized(f)
    PROVE  AccountsIInv'
<1>0. /\ call[f] # Nil /\ call[f].step = "answer" /\ call' = [call EXCEPT ![f] = Nil]
      /\ rotated' = IF call[f].rotate /\ call[f].at > rotated THEN call[f].at ELSE rotated
      /\ UNCHANGED <<now, account, blobs, backups, cutoff>>
    BY DEF Installed, Finalized, Answer
<1>1. /\ call' \in [Flow -> {Nil} \cup Call] /\ call'[f] = Nil
      /\ \A g \in Flow : g # f => call'[g] = call[g]
    BY <1>0, CallSetTo DEF AccountsIInv
<1>2. /\ call[f] \in Call /\ call[f].at \in 0..MaxTime /\ rotated \in 0..MaxTime
      /\ call[f].echo \in Flow /\ call[f].at \in Nat
    BY <1>0 DEF AccountsIInv, AccountsTyped, Call
<1>3. rotated' \in 0..MaxTime /\ CutoffOK'
  <2>1. CASE rotated' = rotated
      BY <1>0, <1>2, <2>1 DEF AccountsIInv, CutoffOK
  <2>2. CASE call[f].rotate /\ rotated' = call[f].at
      BY <1>0, <1>2, <2>2 DEF AccountsIInv, CutoffOK, CallOK
  <2>3. QED
      BY <1>0, <2>1, <2>2
<1>4. PICK stage \in {"installed", "finalized", "done"} :
          /\ flow' = [flow EXCEPT ![f] = stage]
          /\ f = Setup /\ stage \in SetUp => flow[f] = "finalizing" /\ secret' = secret
  <2>1. CASE Installed(f)
      BY <2>1 DEF Installed, Goes, SetUp
  <2>2. CASE Finalized(f)
      BY <2>2 DEF Finalized, Goes
  <2>3. QED
      BY <2>1, <2>2
<1>5. /\ flow' \in [Flow -> Stage] /\ flow'[f] = stage
      /\ \A g \in Flow : g # f => flow'[g] = flow[g]
    BY <1>4, FlowSetTo DEF AccountsIInv, Stage
<1>6. /\ secret' \in [Flow -> Flow \cup {Nil}] /\ session' \in {Nil} \cup Session
      /\ \A g \in Flow : g # f => secret'[g] = secret[g]
    BY <1>2 DEF Installed, Finalized, AnsweredSecret, AccountsIInv, AccountsTyped, Session
<1>7. AccountsTyped'
    BY <1>0, <1>1, <1>3, <1>5, <1>6 DEF AccountsIInv, AccountsTyped
<1>8. SetupOK'
  <2>1. CASE f = Setup /\ stage \in SetUp
    <3>1. Final(Setup, secret[Setup]) \in blobs
        BY <1>0, <1>4, <2>1 DEF AccountsIInv, CallOK
    <3>2. QED
        BY <1>0, <1>4, <2>1, <3>1 DEF SetupOK
  <2>2. CASE f = Setup /\ stage \notin SetUp
      BY <1>5, <2>2 DEF SetupOK
  <2>3. CASE f # Setup
    <3>1. Setup \in Flow
        BY DEF Flow
    <3>2. QED
        BY <1>0, <1>5, <1>6, <2>3, <3>1 DEF SetupOK, AccountsIInv
  <2>4. QED
      BY <2>1, <2>2, <2>3
<1>9. BackupsOpen' /\ \A g \in Flow : CallOK(g)'
    BY <1>0, <1>1, <1>5, <1>6 DEF AccountsIInv, CallOK, BackupsOpen
<1>10. QED
    BY <1>3, <1>7, <1>8, <1>9 DEF AccountsIInv

\* A backup is registered of the keyring just installed.
LEMMA Registering ==
    ASSUME AccountsIInv, NEW b \in Backup, RegisterBackup(b)
    PROVE  AccountsIInv'
<1> DEFINE key == Final(Setup, secret[Setup])
<1>1. key \in blobs /\ key \in Blob
    BY DEF RegisterBackup, AccountsIInv, SetupOK, SetUp, AccountsTyped, Final, Blob, Flow
<1>2. /\ backups' = [backups EXCEPT ![b] = [keyring |-> key, key |-> key]]
      /\ UNCHANGED <<now, account, blobs, cutoff, call, rotated, flow, secret, session>>
    BY DEF RegisterBackup, PostBackup, CreateBackup, flowVars
<1> HIDE DEF key
<1>3. AccountsTyped' /\ BackupsOpen'
    BY <1>1, <1>2 DEF AccountsIInv, AccountsTyped, BackupsOpen, Opens
<1>4. SetupOK' /\ CutoffOK' /\ \A f \in Flow : CallOK(f)'
    BY <1>2 DEF AccountsIInv, SetupOK, CutoffOK, CallOK
<1>5. QED
    BY <1>3, <1>4 DEF AccountsIInv

\* The service stops: the requests are gone.
LEMMA Restarting ==
    ASSUME AccountsIInv, Restart
    PROVE  AccountsIInv'
<1>1. /\ call' = [f \in Flow |-> Nil]
      /\ UNCHANGED <<now, account, blobs, backups, cutoff, rotated, secret, session>>
      /\ flow' \in [Flow -> Stage] /\ \A f \in Flow : flow'[f] \in {"over", flow[f]}
    BY DEF Restart, StopService, Stage, AccountsIInv, AccountsTyped
<1>2. AccountsTyped' /\ CutoffOK' /\ BackupsOpen' /\ \A f \in Flow : CallOK(f)'
    BY <1>1 DEF AccountsIInv, AccountsTyped, CutoffOK, BackupsOpen, CallOK
<1>3. SetupOK'
    BY <1>1 DEF AccountsIInv, SetupOK, SetUp, Flow
<1>4. QED
    BY <1>2, <1>3 DEF AccountsIInv

LEMMA AccountsStep == AccountsIInv /\ [Next]_vars => AccountsIInv'
<1> SUFFICES ASSUME AccountsIInv, [Next]_vars PROVE AccountsIInv'
    OBVIOUS
<1>0. /\ now \in Nat /\ now \in 0..MaxTime /\ now <= now /\ MaxTime \in Nat
      /\ session \in {Nil} \cup Session /\ flow \in [Flow -> Stage] /\ Setup \in Flow
      /\ Recovery \subseteq Flow \ {Setup}
    BY WindowAssumption, AccountAssumption DEF AccountsIInv, AccountsTyped, Flow
<1>1. CASE \/ UNCHANGED vars \/ AskSecret \/ AnswerSecret \/ Login
           \/ Background \/ Tick
  <2>1. CASE UNCHANGED vars
      BY <1>0, <2>1, OnlyFlows DEF vars, accountVars, flowVars
  <2>2. CASE AskSecret \/ AnswerSecret
      BY <1>0, <2>2, OnlyFlows DEF AskSecret, AnswerSecret, accountVars
  <2>3. CASE Login
    <3>1. session' \in Session
        BY <1>0, <2>3 DEF Login, Session
    <3>2. QED
        BY <1>0, <2>3, <3>1, OnlyFlows DEF Login, accountVars
  <2>4. CASE Background
    <3>1. UNCHANGED <<now, accountVars, flowVars>>
        BY <2>4 DEF Background, Sweep, SweepFind, SweepSend, SendInline, NewWindow, Cancel,
                    CancelRecovery
    <3>2. QED
        BY <1>0, <3>1, OnlyFlows DEF accountVars, flowVars
  <2>5. CASE Tick
    <3>1. now' \in 0..MaxTime /\ now <= now'
        BY <1>0, <2>5 DEF Tick
    <3>2. QED
        BY <1>0, <2>5, <3>1, OnlyFlows DEF Tick, accountVars, flowVars
  <2>6. QED
      BY <1>1, <2>1, <2>2, <2>3, <2>4, <2>5
<1>2. ASSUME NEW f \in Flow, RequestChallenge(f) \/ GiveUp(f) PROVE AccountsIInv'
  <2>1. /\ \E stage \in {"challenged", "rechallenged", "over"} : flow' = [flow EXCEPT ![f] = stage]
        /\ UNCHANGED <<now, session, account, blobs, backups, cutoff, call, rotated, secret>>
      BY <1>2 DEF RequestChallenge, GiveUp, Goes, accountVars
  <2>2. QED
      BY <1>0, <2>1, FlowMoves DEF Stage, SetUp
<1>3. CASE RegisterDevice \/ FinishSetup
  <2>1. /\ \E stage \in {"device", "done"} : flow' = [flow EXCEPT ![Setup] = stage]
        /\ flow[Setup] \in SetUp
        /\ UNCHANGED <<now, session, account, blobs, backups, cutoff, call, rotated, secret>>
      BY <1>3 DEF RegisterDevice, FinishSetup, Goes, SetUp, accountVars
  <2>2. QED
      BY <1>0, <2>1, FlowMoves DEF Stage
<1>4. ASSUME NEW f \in Recovery, Recover(f) PROVE AccountsIInv'
  <2>1. /\ \E stage \in Stage \ {"finalizing"} : flow' = [flow EXCEPT ![f] = stage]
        /\ UNCHANGED <<now, session, account, blobs, backups, cutoff, call, rotated, secret>>
    <3>1. CASE AskRecovery(f)
        BY <3>1 DEF AskRecovery, Goes, accountVars, Stage
    <3>2. CASE RecoveryAsked(f)
        BY <3>2 DEF RecoveryAsked, Goes, accountVars, Stage
    <3>3. CASE Poll(f)
      <4>1. \E stage \in {"released", "over", "waiting"} : flow' = [flow EXCEPT ![f] = stage]
          BY <3>3 DEF Poll
      <4>2. QED
          BY <3>3, <4>1 DEF Poll, ReleaseKey, accountVars, Stage
    <3>4. CASE OpenKeyring(f)
        BY <3>4 DEF OpenKeyring, Goes, accountVars, Stage
    <3>5. QED
        BY <1>4, <3>1, <3>2, <3>3, <3>4 DEF Recover
  <2>2. QED
      BY <1>0, <2>1, FlowMoves
<1>5. QED
    BY <1>1, <1>2, <1>3, <1>4, Serving, Calling, Answering, Registering, Restarting
    DEF Next, Advance

\* Every backup opens: the keyring it names stays with the service and is encrypted with
\* the key that was wrapped (keyring-put.ts, backupRegistration.ts), whatever rotations,
\* recoveries and restarts come after it.
THEOREM BackupsAlwaysOpen == Spec => []BackupsOpen
BY AccountsInitial, AccountsStep, PTL DEF Spec, AccountsIInv

\* A session from before a rotation is too old or refused.
LEMMA OldSessionsRefused ==
    ASSUME AccountsIInv, session # Nil, Accepted(session)
    PROVE  session.issued >= rotated
<1>1. /\ session.issued \in Nat /\ now \in Nat /\ rotated \in Nat /\ SessionTtl \in Nat
      /\ cutoff # Nil => cutoff \in Nat
    BY AccountAssumption, WindowAssumption DEF AccountsIInv, AccountsTyped, Session
<1>2. now <= session.issued + SessionTtl
    BY DEF Accepted
<1>3. CASE rotated = 0
    BY <1>1, <1>3
<1>4. CASE rotated # 0
  <2>1. cutoff # Nil /\ cutoff \in Nat /\ rotated <= cutoff
      BY <1>1, <1>4 DEF AccountsIInv, CutoffOK
  <2>2. CASE now <= cutoff + SessionTtl
    <3>1. session.issued >= cutoff
        BY <2>1, <2>2 DEF Accepted, Cutoff
    <3>2. QED
        BY <1>1, <2>1, <3>1
  <2>3. CASE ~(now <= cutoff + SessionTtl)
      BY <1>1, <1>2, <2>1, <2>3
  <2>4. QED
      BY <2>2, <2>3
<1>5. QED
    BY <1>3, <1>4

\* No session from before an answered rotation is accepted again (keyring-put.ts,
\* session-token.ts), also once the stored cutoff has lapsed.
THEOREM OldSessionsEnd == Spec => RotationEndsSessions
<1>1. AccountsIInv /\ [Next]_vars =>
          [reading' # Nil /\ reading = Nil => reading'.issued >= rotated]_vars
  <2> SUFFICES ASSUME AccountsIInv, [Next]_vars, reading' # Nil, reading = Nil
               PROVE  reading'.issued >= rotated
      OBVIOUS
  <2>1. AskSecret
      BY DEF Next, vars, flowVars, Serve, Advance, GiveUp, RequestChallenge,
         InstallProvisional,
             Installed, InstallFinal, Finalized, RegisterDevice, FinishSetup, Login, AnswerSecret,
             RegisterBackup, Recover, AskRecovery, RecoveryAsked, Poll, OpenKeyring, Background,
             Restart, Tick
  <2>2. QED
      BY <2>1, OldSessionsRefused DEF AskSecret
<1>2. QED
    BY <1>1, AccountsInitial, AccountsStep, PTL DEF Spec, RotationEndsSessions

-----------------------------------------------------------------------------
(* OfferAcceptance: the keys of the cards                                    *)

\* From the write of its key on, a call relies on the keyring.
Relying == {i \in Acceptance : calls[i].step = "sign"} \cup Committed
Kept == Usable \cup overwritten
OffersIInv == AcceptanceTypeOK /\ unlocked <= events /\ Relying \subseteq Kept

\* Nothing has been accepted.
LEMMA OffersInitial == OffersInit => OffersIInv
<1> SUFFICES ASSUME OffersInit PROVE OffersIInv
    OBVIOUS
<1>1. NoCall \in AcceptanceCall /\ NoCall.step = "none"
    BY AcceptanceAssumption DEF NoCall, AcceptanceCall
<1>2. AcceptanceTypeOK
  <2>1. keyring \in Keyring \cup {None}
      BY AcceptanceAssumption DEF OffersInit, Keyring
  <2>2. QED
      BY <1>1, <2>1, AcceptanceAssumption DEF OffersInit, AcceptanceTypeOK, Request
<1>3. Relying = {}
    BY <1>1 DEF OffersInit, Relying, Committed
<1>4. QED
    BY <1>2, <1>3 DEF OffersInit, OffersIInv

AcceptanceStep == {"none", "issuer", "press", "set up", "read", "write", "sign", "submitted",
         "handed back", "accepted", "rejected", "failed"}

\* What a step of a call leaves of the others.
LEMMA AcceptanceSet ==
    ASSUME AcceptanceTypeOK, NEW i \in Acceptance, NEW c \in AcceptanceCall,
           calls' = [calls EXCEPT ![i] = c]
    PROVE  /\ calls' \in [Acceptance -> AcceptanceCall] /\ calls'[i] = c
           /\ \A j \in Acceptance : j # i => calls'[j] = calls[j]
BY DEF AcceptanceTypeOK

LEMMA AcceptanceStepped ==
    ASSUME AcceptanceTypeOK, NEW i \in Acceptance, NEW step \in AcceptanceStep, StepCall(i, step)
    PROVE  /\ calls' \in [Acceptance -> AcceptanceCall] /\ calls'[i].step = step
           /\ \A j \in Acceptance : j # i => calls'[j] = calls[j]
<1> DEFINE c == [calls[i] EXCEPT !.step = step]
<1>0. calls[i] \in AcceptanceCall
    BY DEF AcceptanceTypeOK
<1>1. c \in AcceptanceCall /\ c.step = step
    BY <1>0 DEF AcceptanceCall, AcceptanceStep
<1>2. calls' = [calls EXCEPT ![i] = c]
    BY DEF StepCall, AcceptanceTypeOK
<1> HIDE DEF c
<1>3. QED
    BY <1>1, <1>2, AcceptanceSet

\* A step after which nobody else relies on a keyring that it leaves alone.
LEMMA NobodyNewRelies ==
    ASSUME OffersIInv, AcceptanceTypeOK', events <= events',
           UNCHANGED <<keyring, unlocked, overwritten>>,
           \A i \in Acceptance : /\ calls'[i].step = "sign" => i \in Relying
                                 /\ handed'[i] # "no" => i \in Relying
                                 /\ requests'[i] # "none" => i \in Relying
                                 /\ i \in cards' => i \in Relying
    PROVE  OffersIInv'
<1>1. Relying' \subseteq Relying
    BY DEF Relying, Committed
<1>2. Kept' = Kept
    BY DEF Kept, Usable, Entries
<1>3. unlocked' <= events'
    BY DEF OffersIInv, AcceptanceTypeOK
<1>4. QED
    BY <1>1, <1>2, <1>3 DEF OffersIInv

LEMMA OnlyCalls ==
    ASSUME OffersIInv, NEW i \in Acceptance, calls' \in [Acceptance -> AcceptanceCall],
           calls'[i].step # "sign", \A j \in Acceptance : j # i => calls'[j] = calls[j],
           events' \in 0..MaxEvents, events <= events',
           UNCHANGED <<keyring, unlocked, remote, handed, claimVars, good, expired,
                       overwritten>>
    PROVE  OffersIInv'
<1>1. AcceptanceTypeOK'
    BY DEF OffersIInv, AcceptanceTypeOK, claimVars
<1>2. \A j \in Acceptance : /\ calls'[j].step = "sign" => j \in Relying
                            /\ handed'[j] # "no" => j \in Relying
                            /\ requests'[j] # "none" => j \in Relying
                            /\ j \in cards' => j \in Relying
    BY DEF claimVars, Relying, Committed
<1>3. QED
    BY <1>1, <1>2, NobodyNewRelies

\* Reviewing and verifying an offer, and reading the keyring.
LEMMA BeforeTheWrite ==
    ASSUME OffersIInv, NEW i \in Acceptance,
           \/ \E o \in Offer, genuine \in BOOLEAN : Review(i, o, genuine)
           \/ \E answered \in BOOLEAN : VerifyIssuer(i, answered) \/ VerifyPress(i, answered)
           \/ ReadKeyring(i)
    PROVE  OffersIInv'
<1>1. UNCHANGED <<keyring, unlocked, remote, handed, claimVars, good, expired, overwritten,
                  events>>
    BY DEF Review, VerifyIssuer, VerifyPress, ReadKeyring
<1>2. /\ calls' \in [Acceptance -> AcceptanceCall] /\ calls'[i].step # "sign"
      /\ \A j \in Acceptance : j # i => calls'[j] = calls[j]
  <2>1. ASSUME NEW o \in Offer, NEW genuine \in BOOLEAN, Review(i, o, genuine) PROVE <1>2
    <3>1. PICK newWallet \in BOOLEAN :
              calls' = [calls EXCEPT ![i] =
                  [NoCall EXCEPT !.step = IF genuine THEN "issuer" ELSE "rejected",
                                 !.offer = o, !.newWallet = newWallet, !.opensWith = unlocked]]
        BY <2>1 DEF Review
    <3> DEFINE c == [NoCall EXCEPT !.step = IF genuine THEN "issuer" ELSE "rejected",
                                   !.offer = o, !.newWallet = newWallet, !.opensWith = unlocked]
    <3>2. c \in AcceptanceCall /\ c.step # "sign"
        BY AcceptanceAssumption DEF NoCall, AcceptanceCall, OffersIInv, AcceptanceTypeOK
    <3>3. calls' = [calls EXCEPT ![i] = c]
        BY <3>1
    <3> HIDE DEF c
    <3>4. QED
        BY <3>2, <3>3, AcceptanceSet DEF OffersIInv
  <2>2. ASSUME NEW step \in AcceptanceStep \ {"sign"}, StepCall(i, step) PROVE <1>2
      BY <2>2, AcceptanceStepped DEF OffersIInv
  <2>3. CASE \E answered \in BOOLEAN : VerifyIssuer(i, answered) \/ VerifyPress(i, answered)
      BY <2>2, <2>3 DEF VerifyIssuer, VerifyPress, AcceptanceStep
  <2>4. CASE ReadKeyring(i)
    <3>1. PICK step \in {"write", "failed"} :
              calls' = [calls EXCEPT ![i].step = step, ![i].found = Entries]
        BY <2>4 DEF ReadKeyring
    <3>2. Entries \subseteq Acceptance /\ calls[i] \in AcceptanceCall
        BY DEF Entries, OffersIInv, AcceptanceTypeOK, Keyring
    <3> DEFINE c == [calls[i] EXCEPT !.step = step, !.found = Entries]
    <3>3. c \in AcceptanceCall /\ c.step # "sign"
        BY <3>2 DEF AcceptanceCall
    <3>4. calls' = [calls EXCEPT ![i] = c]
        BY <3>1 DEF OffersIInv, AcceptanceTypeOK
    <3> HIDE DEF c
    <3>5. QED
        BY <3>3, <3>4, AcceptanceSet DEF OffersIInv
  <2>5. QED
      BY <2>1, <2>3, <2>4
<1>3. events' \in 0..MaxEvents /\ events <= events'
    BY <1>1 DEF OffersIInv, AcceptanceTypeOK
<1>4. QED
    BY <1>1, <1>2, <1>3, OnlyCalls

\* A new wallet has an empty keyring; whatever was there is noted as overwritten.
LEMMA SettingUp ==
    ASSUME OffersIInv, NEW i \in Acceptance, SetUpWallet(i)
    PROVE  OffersIInv'
<1> DEFINE c == [calls[i] EXCEPT !.step = "read", !.opensWith = unlocked]
<1>1. /\ keyring' = [opensWith |-> unlocked, entries |-> {}] /\ remote' = {}
      /\ overwritten' = overwritten \cup Entries
      /\ UNCHANGED <<unlocked, handed, requests, issued, uses, cards, good, expired, events>>
    BY DEF SetUpWallet, claimVars
<1>2. c \in AcceptanceCall /\ c.step = "read" /\ Entries \subseteq Acceptance
  <2>1. /\ calls[i] \in AcceptanceCall /\ unlocked \in 0..MaxEvents
        /\ Entries \subseteq Acceptance
      BY DEF OffersIInv, AcceptanceTypeOK, Entries, Keyring
  <2>2. QED
      BY <2>1 DEF AcceptanceCall
<1>3. calls' = [calls EXCEPT ![i] = c]
    BY DEF SetUpWallet, OffersIInv, AcceptanceTypeOK
<1> HIDE DEF c
<1>4. /\ calls' \in [Acceptance -> AcceptanceCall] /\ calls'[i] = c
      /\ \A j \in Acceptance : j # i => calls'[j] = calls[j]
    BY <1>2, <1>3, AcceptanceSet DEF OffersIInv
<1>5. AcceptanceTypeOK'
    BY <1>1, <1>2, <1>4 DEF OffersIInv, AcceptanceTypeOK, Keyring
<1>6. Relying' \subseteq Relying
    BY <1>1, <1>2, <1>4 DEF Relying, Committed
<1>7. Kept \subseteq Kept'
    BY <1>1 DEF Kept, Usable
<1>8. QED
    BY <1>1, <1>5, <1>6, <1>7 DEF OffersIInv

\* The key is in the keyring from here on; what the write takes away is noted.
LEMMA WritingKeyring ==
    ASSUME OffersIInv, NEW i \in Acceptance, WriteKeyring(i)
    PROVE  OffersIInv'
<1>1. /\ keyring' = [opensWith |-> calls[i].opensWith, entries |-> calls[i].found \cup {i}]
      /\ overwritten' = overwritten \cup Overwrites(i) /\ StepCall(i, "sign")
      /\ UNCHANGED <<unlocked, remote, handed, requests, issued, uses, cards, good, expired,
                     events>>
    BY DEF WriteKeyring, Appended, claimVars
<1>2. /\ calls' \in [Acceptance -> AcceptanceCall] /\ calls'[i].step = "sign"
      /\ \A j \in Acceptance : j # i => calls'[j] = calls[j]
    BY <1>1, AcceptanceStepped DEF AcceptanceStep, OffersIInv
<1>3. /\ calls[i].opensWith \in 0..MaxEvents /\ calls[i].found \subseteq Acceptance
      /\ Entries \subseteq Acceptance
    BY DEF OffersIInv, AcceptanceTypeOK, AcceptanceCall, Entries, Keyring
<1>4. AcceptanceTypeOK'
  <2>1. keyring' \in Keyring \cup {None}
      BY <1>1, <1>3 DEF Keyring
  <2>2. overwritten' \subseteq Acceptance
      BY <1>1, <1>3 DEF Overwrites, OffersIInv, AcceptanceTypeOK
  <2>3. QED
      BY <1>1, <1>2, <2>1, <2>2 DEF OffersIInv, AcceptanceTypeOK
<1>5. Relying' \subseteq Relying \cup {i}
    BY <1>1, <1>2 DEF Relying, Committed
<1>6. Kept \cup {i} \subseteq Kept'
  <2>1. keyring' # None
      BY <1>1, <1>3, NoneAssumption DEF Keyring
  <2>2. Usable \subseteq Entries
      BY DEF Usable
  <2>3. CASE calls[i].opensWith = unlocked
    <3>1. Usable' = calls[i].found \cup {i}
        BY <1>1, <2>1, <2>3 DEF Usable, Entries
    <3>2. overwritten' = overwritten \cup (Entries \ calls[i].found)
        BY <1>1, <2>3 DEF Overwrites
    <3>3. QED
        BY <2>2, <3>1, <3>2 DEF Kept
  <2>4. CASE calls[i].opensWith # unlocked
    <3>1. overwritten' = overwritten \cup (Entries \cup calls[i].found \cup {i})
        BY <1>1, <2>4 DEF Overwrites
    <3>2. QED
        BY <2>2, <3>1 DEF Kept
  <2>5. QED
      BY <2>3, <2>4
<1>7. QED
    BY <1>1, <1>4, <1>5, <1>6 DEF OffersIInv

\* A signature is sent to the press, or handed back to the app.
LEMMA Submitting ==
    ASSUME OffersIInv, NEW i \in Acceptance, SubmitClaim(i) \/ HandBack(i)
    PROVE  OffersIInv'
<1>1. /\ calls[i].step = "sign"
      /\ UNCHANGED <<keyring, unlocked, remote, issued, uses, cards, good, expired,
                     overwritten, events>>
      /\ \E step \in {"submitted", "handed back"} : StepCall(i, step)
    BY DEF SubmitClaim, HandBack, claimVars
<1>2. /\ calls' \in [Acceptance -> AcceptanceCall] /\ calls'[i].step # "sign"
      /\ \A j \in Acceptance : j # i => calls'[j] = calls[j]
    BY <1>1, AcceptanceStepped DEF AcceptanceStep, OffersIInv
<1>3. /\ handed' \in [Acceptance -> {"no", "intact", "altered"}]
      /\ requests' \in [Acceptance -> Request]
      /\ \A j \in Acceptance : j # i => handed'[j] = handed[j] /\ requests'[j] = requests[j]
    BY DEF SubmitClaim, HandBack, claimVars, OffersIInv, AcceptanceTypeOK, Request
<1>4. AcceptanceTypeOK'
    BY <1>1, <1>2, <1>3 DEF OffersIInv, AcceptanceTypeOK
<1>5. events <= events'
  <2>1. events' = events /\ events \in 0..MaxEvents
      BY <1>1 DEF OffersIInv, AcceptanceTypeOK
  <2>2. QED
      BY <2>1
<1>6. QED
    BY <1>1, <1>2, <1>3, <1>4, <1>5, NobodyNewRelies DEF Relying, Committed

\* The issuer and the press work on what they were handed.
LEMMA Processing ==
    ASSUME OffersIInv, NEW i \in Acceptance, Process(i)
    PROVE  OffersIInv'
<1>1. UNCHANGED <<keyring, unlocked, remote, handed, good, expired, overwritten, events>>
    BY DEF Process, Forward, Receive, CheckUseCount, RegisterCard, MarkFinalized,
       AnswerClaim,
           Evaluate, acceptVars
<1>2. PICK step \in Request : StepRequest(i, step)
  <2>1. ASSUME NEW answered \in BOOLEAN, Evaluate(i, answered)
        PROVE  \E step \in Request : StepRequest(i, step)
    <3>1. After[requests[i]] \in Request
      <4>1. requests[i] \in {"requester", "recipient"}
          BY <2>1 DEF Evaluate, After
      <4>2. After["requester"] = "recipient" /\ After["recipient"] = "use count"
          BY DEF After
      <4>3. QED
          BY <4>1, <4>2 DEF Request
    <3>2. "refused" \in Request
        BY DEF Request
    <3>3. QED
        BY <2>1, <3>1, <3>2 DEF Evaluate
  <2>2. CASE RegisterCard(i)
      BY <2>2 DEF RegisterCard, Request
  <2>3. QED
      BY <2>1, <2>2
      DEF Process, Forward, Receive, CheckUseCount, MarkFinalized, AnswerClaim, Request
<1>3. /\ requests' \in [Acceptance -> Request]
      /\ \A j \in Acceptance : j # i => requests'[j] = requests[j]
      /\ handed[i] # "no" \/ requests[i] # "none"
    BY <1>2
    DEF StepRequest, OffersIInv, AcceptanceTypeOK, Process, Forward, Receive, CheckUseCount,
        RegisterCard, MarkFinalized, AnswerClaim, Evaluate, After
<1>4. /\ calls' \in [Acceptance -> AcceptanceCall]
      /\ \A j \in Acceptance : calls'[j].step = "sign" => calls[j].step = "sign"
  <2>1. CASE UNCHANGED calls
      BY <2>1 DEF OffersIInv, AcceptanceTypeOK
  <2>2. CASE AnswerClaim(i)
    <3>1. calls[i] \in AcceptanceCall
        BY DEF OffersIInv, AcceptanceTypeOK
    <3>2. PICK s \in AcceptanceStep : StepCall(i, s) /\ (s = "sign" => calls[i].step = "sign")
        BY <2>2, <3>1 DEF AnswerClaim, AcceptanceStep, AcceptanceCall
    <3>3. QED
        BY <3>2, AcceptanceStepped DEF OffersIInv
  <2>3. QED
      BY <2>1, <2>2
      DEF Process, Forward, Receive, CheckUseCount, RegisterCard, MarkFinalized,
                        Evaluate, acceptVars
<1>5. cards' \subseteq cards \cup {i} /\ cards' \subseteq Acceptance
    BY DEF Process, Forward, Receive, CheckUseCount, RegisterCard, MarkFinalized,
       AnswerClaim,
           Evaluate, OffersIInv, AcceptanceTypeOK
<1>6. /\ issued' \in [Targeted -> {"no", "open", "finalized"}] /\ uses' \in [Open -> Nat]
  <2>1. issued \in [Targeted -> {"no", "open", "finalized"}] /\ uses \in [Open -> Nat]
      BY DEF OffersIInv, AcceptanceTypeOK
  <2>2. CASE UNCHANGED <<issued, uses>>
      BY <2>1, <2>2
  <2>3. CASE MarkFinalized(i)
      BY <2>1, <2>3 DEF MarkFinalized
  <2>4. CASE RegisterCard(i)
    <3>1. PICK o \in Open \cup {None} :
              issued' = issued /\ (uses' = uses \/ uses' = [uses EXCEPT ![o] = @ + 1])
        BY <2>4 DEF RegisterCard
    <3>2. CASE uses' = uses
        BY <2>1, <3>1, <3>2
    <3>3. CASE uses' = [uses EXCEPT ![o] = @ + 1]
      <4>1. uses' = [x \in Open |-> IF x = o THEN uses[x] + 1 ELSE uses[x]]
          BY <2>1, <3>3
      <4>2. \A x \in Open : uses[x] \in Nat /\ uses[x] + 1 \in Nat
          BY <2>1
      <4>3. QED
          BY <2>1, <3>1, <4>1, <4>2
    <3>4. QED
        BY <3>1, <3>2, <3>3
  <2>5. QED
      BY <2>2, <2>3, <2>4
      DEF Process, Forward, Receive, CheckUseCount, AnswerClaim, Evaluate
<1>7. AcceptanceTypeOK' /\ events <= events'
    BY <1>1, <1>3, <1>4, <1>5, <1>6 DEF OffersIInv, AcceptanceTypeOK
<1>8. QED
    BY <1>1, <1>3, <1>4, <1>5, <1>7, NobodyNewRelies DEF Relying, Committed

\* A recovery replaces the keyring by the one of the wallet service.
LEMMA RecoveringWallet ==
    ASSUME OffersIInv, RecoverWallet
    PROVE  OffersIInv'
<1>1. /\ unlocked' = unlocked + 1 /\ events' = events + 1 /\ events < MaxEvents
      /\ keyring' = [opensWith |-> unlocked + 1, entries |-> remote]
      /\ overwritten' = overwritten \cup (Entries \ remote)
      /\ UNCHANGED <<remote, calls, handed, requests, issued, uses, cards, good, expired>>
    BY DEF RecoverWallet, Event, claimVars
<1>2. unlocked \in Nat /\ events \in Nat /\ MaxEvents \in Nat /\ unlocked + 1 \in 0..MaxEvents
    BY <1>1, AcceptanceAssumption DEF OffersIInv, AcceptanceTypeOK
<1>3. Entries \subseteq Acceptance /\ remote \subseteq Acceptance
    BY DEF OffersIInv, AcceptanceTypeOK, Entries, Keyring
<1>4. AcceptanceTypeOK'
  <2>1. keyring' \in Keyring
      BY <1>1, <1>2, <1>3 DEF Keyring
  <2>2. QED
      BY <1>1, <1>2, <1>3, <2>1 DEF OffersIInv, AcceptanceTypeOK
<1>5. Relying' = Relying
    BY <1>1 DEF Relying, Committed
<1>6. Kept \subseteq Kept'
  <2>1. keyring' # None
      BY <1>1, <1>2, <1>3, NoneAssumption DEF Keyring
  <2>2. Usable' = remote
      BY <1>1, <2>1 DEF Usable, Entries
  <2>3. QED
      BY <1>1, <2>2 DEF Kept, Usable
<1>7. QED
    BY <1>1, <1>2, <1>4, <1>5, <1>6 DEF OffersIInv

\* Offers are issued and expire, parties fall out, the app is closed or alters what it takes.
LEMMA OtherEvents ==
    ASSUME OffersIInv,
           \/ \E o \in Targeted : IssueOffer(o)
           \/ \E p \in Party : ToggleParty(p)
           \/ \E o \in Open : Expire(o)
           \/ \E i \in Acceptance : AlterHandedBack(i)
    PROVE  OffersIInv'
<1>1. /\ UNCHANGED <<keyring, unlocked, remote, calls, requests, uses, cards, overwritten>>
      /\ events \in Nat /\ events' \in 0..MaxEvents /\ events <= events'
    BY AcceptanceAssumption
    DEF IssueOffer, ToggleParty, Expire, AlterHandedBack, Event, acceptVars, claimVars,
        OffersIInv, AcceptanceTypeOK
<1>2. /\ issued' \in [Targeted -> {"no", "open", "finalized"}]
      /\ good' \subseteq Party /\ expired' \subseteq Open
      /\ handed' \in [Acceptance -> {"no", "intact", "altered"}]
      /\ \A i \in Acceptance : handed'[i] # "no" => handed[i] # "no"
    BY DEF IssueOffer, ToggleParty, Expire, AlterHandedBack, acceptVars, claimVars,
       OffersIInv,
           AcceptanceTypeOK
<1>3. AcceptanceTypeOK'
    BY <1>1, <1>2 DEF OffersIInv, AcceptanceTypeOK
<1>4. QED
    BY <1>1, <1>2, <1>3, NobodyNewRelies DEF Relying, Committed

LEMMA Abandoning ==
    ASSUME OffersIInv, NEW i \in Acceptance, AbandonOffer(i)
    PROVE  OffersIInv'
<1>1. /\ StepCall(i, "failed") /\ events < MaxEvents /\ events' = events + 1
      /\ UNCHANGED <<keyring, unlocked, remote, handed, claimVars, good, expired, overwritten>>
    BY DEF AbandonOffer, Event
<1>2. /\ calls' \in [Acceptance -> AcceptanceCall] /\ calls'[i].step # "sign"
      /\ \A j \in Acceptance : j # i => calls'[j] = calls[j]
    BY <1>1, AcceptanceStepped DEF AcceptanceStep, OffersIInv
<1>3. events' \in 0..MaxEvents /\ events <= events'
    BY <1>1, AcceptanceAssumption DEF OffersIInv, AcceptanceTypeOK
<1>4. QED
    BY <1>1, <1>2, <1>3, OnlyCalls

\* Every step keeps the invariant.
LEMMA OffersStep == OffersIInv /\ [OffersNext]_offerVars => OffersIInv'
<1> SUFFICES ASSUME OffersIInv, [OffersNext]_offerVars PROVE OffersIInv'
    OBVIOUS
<1>1. CASE UNCHANGED offerVars
    BY <1>1
    DEF offerVars, acceptVars, claimVars, OffersIInv, AcceptanceTypeOK, Relying, Committed,
        Kept,
        Usable, Entries
<1>2. CASE \E i \in Acceptance : Accept(i) \/ Process(i)
    BY <1>2, BeforeTheWrite, SettingUp, WritingKeyring, Submitting, Processing DEF Accept
<1>3. CASE Environment
    BY <1>3, RecoveringWallet, OtherEvents, Abandoning DEF Environment
<1>4. QED
    BY <1>1, <1>2, <1>3 DEF OffersNext

\* The key of every card there is, or may come to be, can be used, unless another call
\* wrote the keyring in between or a recovery took the one of the wallet service
\* (countersign.ts): whatever fails, expires or is closed, and however calls overlap.
THEOREM KeysAreKept == OffersSpec => []CardsHaveKeys
<1>1. OffersIInv => CardsHaveKeys
    BY DEF OffersIInv, Relying, Kept, CardsHaveKeys
<1>2. QED
    BY <1>1, OffersInitial, OffersStep, PTL DEF OffersSpec
=============================================================================
