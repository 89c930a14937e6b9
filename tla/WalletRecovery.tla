--------------------------- MODULE WalletRecovery ---------------------------
(***************************************************************************)
(* The flows of the wallet SDK against its wallet service: setupWallet and    *)
(* registerBackup (wallet-sdk/.../wallet/setupWallet.ts, backupRegistration.ts) *)
(* and initiateRecovery, releaseRecoveryKey and recoverWallet (recovery.ts).   *)
(*                                                                         *)
(* Each awaits one request after the other and keeps the master key in memory  *)
(* only: a flow that throws, or whose device stops, is over.  A flow first     *)
(* installs a provisional keyring, to be given a service secret, and then the  *)
(* final one, encrypted under that secret.                                   *)
(***************************************************************************)
EXTENDS WalletAccounts

CONSTANTS
    BackupOf,       \* the backup each recovery uses
    MaxRestarts     \* bound on the times the service stops

ASSUME FlowAssumption == BackupOf \in [Recovery -> Backup] /\ MaxRestarts \in Nat

VARIABLES
    flow,           \* per flow: where it is
    secret,         \* per flow: the service secret it was answered with
    window,         \* per recovery: the window it waits for
    session,        \* the session of the device that set the wallet up
    reading,        \* the session whose GET /service-secret is being served
    restarts        \* times the service has stopped

flowVars == <<flow, secret, window, session, reading, restarts>>
vars == <<now, windowVars, accountVars, flowVars>>

Stage == {"start", "asking", "waiting", "released", "opened", "challenged", "installing",
          "installed", "rechallenged", "finalizing", "finalized", "device", "done", "over"}

TypeOK ==
    /\ WindowTypeOK /\ AccountsTypeOK
    /\ flow \in [Flow -> Stage]
    /\ secret \in [Flow -> Flow \cup {Nil}]
    /\ window \in [Recovery -> Window \cup {Nil}]
    /\ session \in {Nil} \cup Session
    /\ reading \in {Nil} \cup Session
    /\ restarts \in 0..MaxRestarts

Init ==
    /\ WindowInit /\ AccountsInit
    /\ flow = [f \in Flow |-> "start"]
    /\ secret = [f \in Flow |-> Nil]
    /\ window = [f \in Recovery |-> Nil]
    /\ session = Nil /\ reading = Nil /\ restarts = 0

Goes(f, from, to) == flow[f] = from /\ flow' = [flow EXCEPT ![f] = to]

-----------------------------------------------------------------------------
(* Installing a keyring, in both kinds of flow                               *)

RequestChallenge(f) ==
    /\ \/ f = Setup /\ Goes(f, "start", "challenged") /\ Issue(f, "account_creation")
       \/ f # Setup /\ Goes(f, "opened", "challenged") /\ Issue(f, "keyring_rotation")
       \/ Goes(f, "installed", "rechallenged") /\ Issue(f, "keyring_rotation")
    /\ UNCHANGED <<now, windowVars, account, blobs, replicas, backups, cutoff, call, rotated,
                   secret, window, session, reading, restarts>>

InstallProvisional(f) ==
    /\ Goes(f, "challenged", "installing")
    /\ IF f = Setup THEN CreateAccount(f, Provisional(f))
                    ELSE UpdateKeyring(f, Provisional(f), TRUE)
    /\ UNCHANGED <<now, windowVars, secret, window, session, reading, restarts>>

\* The secret it is answered with; setting up, the device gets a session too.
Installed(f) ==
    /\ Goes(f, "installing", "installed")
    /\ Answer(f)
    /\ secret' = [secret EXCEPT ![f] = AnsweredSecret(f)]
    /\ session' = IF f = Setup THEN [flow |-> f, issued |-> now] ELSE session
    /\ UNCHANGED <<now, windowVars, account, blobs, replicas, challenges, backups, cutoff,
                   window, reading, restarts>>

\* With rotate_service_secret: false
InstallFinal(f) ==
    /\ Goes(f, "rechallenged", "finalizing")
    /\ UpdateKeyring(f, Final(f, secret[f]), FALSE)
    /\ UNCHANGED <<now, windowVars, secret, window, session, reading, restarts>>

\* The secret of this answer is not looked at.  A recovery is complete once its
\* device sub-card is registered; setting up goes on.
Finalized(f) ==
    /\ Goes(f, "finalizing", IF f = Setup THEN "finalized" ELSE "done")
    /\ Answer(f)
    /\ UNCHANGED <<now, windowVars, account, blobs, replicas, challenges, backups, cutoff,
                   secret, window, session, reading, restarts>>

-----------------------------------------------------------------------------
(* Setting up                                                               *)

\* registerDeviceSubCard; it changes nothing at the wallet service.
RegisterDevice ==
    /\ Goes(Setup, "finalized", "device")
    /\ UNCHANGED <<now, windowVars, accountVars, secret, window, session, reading, restarts>>

\* registerBackup: the key wrapped for the backup b, beside the id of the keyring.
PostBackup(b, keyring, decryptionKey) == CreateBackup(b, session, keyring, decryptionKey)

\* One backup is always made, another if the holder has a YubiKey.
RegisterBackup(b) ==
    /\ flow[Setup] = "device" /\ backups[b] = Nil
    /\ PostBackup(b, Final(Setup, secret[Setup]), Final(Setup, secret[Setup]))
    /\ UNCHANGED <<now, windowVars, flowVars>>

\* setupWallet returns once its postSetupHook has.
FinishSetup ==
    /\ \E b \in Backup : backups[b] # Nil
    /\ Goes(Setup, "device", "done")
    /\ UNCHANGED <<now, windowVars, accountVars, secret, window, session, reading, restarts>>

\* POST /auth/passkey/login: only the passkey registered with the account can.
Login ==
    /\ flow[Setup] = "done"
    /\ session' = [flow |-> Setup, issued |-> now]
    /\ UNCHANGED <<now, windowVars, accountVars, flow, secret, window, reading, restarts>>

\* GET /accounts/../service-secret: the session is verified before the row is read.
AskSecret ==
    /\ session # Nil /\ Accepted(session) /\ reading = Nil
    /\ reading' = session
    /\ UNCHANGED <<now, windowVars, accountVars, flow, secret, window, session, restarts>>

AnswerSecret ==
    /\ reading # Nil
    /\ reading' = Nil
    /\ UNCHANGED <<now, windowVars, accountVars, flow, secret, window, session, restarts>>

-----------------------------------------------------------------------------
(* Recovering                                                               *)

AskRecovery(f) ==
    /\ backups[BackupOf[f]] # Nil
    /\ \/ /\ Goes(f, "start", "asking") /\ FindActive(f, BackupOf[f])
          /\ UNCHANGED window
       \/ /\ Goes(f, "start", "waiting")
          /\ \E w \in ActiveWindows(BackupOf[f]) : window' = [window EXCEPT ![f] = w]
          /\ UNCHANGED asking
    /\ UNCHANGED <<now, windows, jobs, fanOut, sweep, served, confirmed, accountVars,
                   secret, session, reading, restarts>>

RecoveryAsked(f) ==
    /\ Goes(f, "asking", "waiting")
    /\ Notify(f)
    /\ window' = [window EXCEPT ![f] = asking[f].window]
    /\ UNCHANGED <<now, windows, sweep, served, confirmed, accountVars, secret, session,
                   reading, restarts>>

\* releaseRecoveryKey: the client asks until it gets the wrapped key, or is told that
\* the recovery was cancelled.
Poll(f) ==
    /\ flow[f] = "waiting"
    /\ ReleaseKey(window[f])
    /\ flow' = [flow EXCEPT ![f] =
            CASE ReleaseAnswer(window[f]) = "released" -> "released"
              [] ReleaseAnswer(window[f]) = "cancelled" -> "over"
              [] OTHER -> @]
    /\ UNCHANGED <<accountVars, secret, window, session, reading, restarts>>

\* fetchKeyringBlob from either service
Fetched(blob) == \E here \in BOOLEAN : Stored(blob, here)

\* decryptKeyring: a blob opens with the key it was encrypted with.
Opens(key, blob) == key = blob

OpenKeyring(f) ==
    LET backup == backups[BackupOf[f]] IN
    /\ Goes(f, "released", "opened")
    /\ Fetched(backup.keyring) /\ Opens(backup.key, backup.keyring)
    /\ UNCHANGED <<now, windowVars, accountVars, secret, window, session, reading, restarts>>

\* cancelRecovery: the holder has been told and still has the key.
Cancel(w) == CancelRecovery(w)

-----------------------------------------------------------------------------
(* What may happen at any time                                               *)

\* A request fails, or the device stops: what the service has begun goes on.
GiveUp(f) ==
    /\ flow[f] \notin {"start", "done", "over"}
    /\ flow' = [flow EXCEPT ![f] = "over"]
    /\ UNCHANGED <<now, windowVars, accountVars, secret, window, session, reading, restarts>>

\* The service stops, and with it every request it was serving.
Restart ==
    /\ restarts < MaxRestarts /\ restarts' = restarts + 1
    /\ StopService
    /\ call' = [f \in Flow |-> Nil]
    /\ reading' = Nil
    /\ flow' = [f \in Flow |->
            IF flow[f] \in {"asking", "installing", "finalizing"} THEN "over" ELSE flow[f]]
    /\ UNCHANGED <<account, blobs, replicas, challenges, backups, cutoff, rotated, secret, window,
                   session>>

Tick ==
    /\ now < MaxTime
    /\ now' = now + 1
    /\ UNCHANGED <<windowVars, accountVars, flowVars>>

Sweep == (\E j \in Window \X Kind : SweepFind(j)) \/ SweepSend
Background ==
    /\ \/ Sweep
       \/ \E j \in Window \X Kind : SendInline(j)
       \/ \E a \in Asker, w \in Window : NewWindow(a, w)
       \/ \E w \in Window : Cancel(w)
    /\ UNCHANGED <<accountVars, flowVars>>
Serve(f) ==
    /\ InsertBlob(f) \/ Install(f) \/ Replicate(f) \/ CutSessions(f)
    /\ UNCHANGED <<now, windowVars, flowVars>>
Advance(f) ==
    \/ RequestChallenge(f) \/ InstallProvisional(f) \/ Installed(f) \/ InstallFinal(f)
    \/ Finalized(f)
Recover(f) == AskRecovery(f) \/ RecoveryAsked(f) \/ Poll(f) \/ OpenKeyring(f)

Next ==
    \/ \E f \in Flow : Serve(f) \/ Advance(f) \/ GiveUp(f)
    \/ RegisterDevice \/ FinishSetup \/ Login \/ AskSecret \/ AnswerSecret
    \/ \E b \in Backup : RegisterBackup(b)
    \/ \E f \in Recovery : Recover(f)
    \/ Background \/ Restart \/ Tick

Spec == Init /\ [][Next]_vars

-----------------------------------------------------------------------------
(* Every backup opens: the keyring it names is held by the service, and the    *)
(* wrapped key is the one that keyring is encrypted with, whatever rotations    *)
(* came after it (keyring-put.ts, setupWallet.ts).                            *)
BackupsOpen ==
    \A b \in Backup : backups[b] # Nil =>
        backups[b].keyring \in blobs /\ Opens(backups[b].key, backups[b].keyring)

(* Once a rotation has been answered, no request is served under a session that  *)
(* was issued before the new secret was in place (keyring-put.ts,             *)
(* session-token.ts).                                                       *)
RotationEndsSessions ==
    [][reading' # Nil /\ reading = Nil => reading'.issued >= rotated]_vars
=============================================================================
