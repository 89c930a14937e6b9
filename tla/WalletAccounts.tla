--------------------------- MODULE WalletAccounts ---------------------------
(***************************************************************************)
(* The account of one card at its wallet service (wallet-service/server/db/    *)
(* accounts, keyrings, challenges; src/routes/accounts-create, keyring-put,    *)
(* create-backup; src/auth/session-token; server/utils/federation-self): the   *)
(* encrypted keyring, the service secret that is half of its key, sessions,    *)
(* and the replicas of the keyring at the other services.                     *)
(*                                                                         *)
(* A flow is a client that sets the wallet up or recovers it; it has a device  *)
(* passkey of its own.  A service secret is named by the flow it was minted    *)
(* for, and a keyring blob by the key it is encrypted with: a passkey alone    *)
(* while it is provisional, a passkey and a secret once it is final.           *)
(***************************************************************************)
EXTENDS RecoveryWindows

CONSTANTS
    Setup,          \* the flow that creates the account
    Recovery,       \* the flows that recover it
    ChallengeTtl,   \* CHALLENGE_TTL_SECONDS
    SessionTtl      \* SESSION_TTL_SECONDS

ASSUME AccountAssumption ==
    /\ Setup \notin Recovery /\ Recovery = Asker /\ Nil \notin Recovery \cup {Setup}
    /\ ChallengeTtl \in Nat \ {0} /\ SessionTtl \in Nat \ {0}

Flow == {Setup} \cup Recovery
Blob == [passkey : Flow, secret : Flow \cup {Nil}]
Provisional(f) == [passkey |-> f, secret |-> Nil]
Final(f, s) == [passkey |-> f, secret |-> s]
Session == [flow : Flow, issued : 0..MaxTime]
Account == [keyring : Blob, secret : Flow]
ASSUME NilIsNoAccount == Nil \notin Account

VARIABLES
    account,        \* holder_accounts: the row of the card
    blobs,          \* keyring_blobs of this service
    replicas,       \* keyring_blobs of another service of the federation
    challenges,     \* auth_challenges issued and not consumed
    backups,        \* backup_registrations
    cutoff,         \* sessionMinIssuedAt: sessions issued before it are refused
    call,           \* per flow: its request to the account being served
    rotated         \* when the last of the rotations answered took effect

accountVars == <<account, blobs, replicas, challenges, backups, cutoff, call, rotated>>

Call == [step : {"insert", "install", "replicate", "cut", "answer"}, blob : Blob,
         rotate : BOOLEAN, previous : Blob \cup {Nil}, echo : Flow, at : 0..MaxTime]

AccountsTypeOK ==
    /\ account \in {Nil} \cup Account
    /\ blobs \subseteq Blob /\ replicas \subseteq Blob
    /\ challenges \subseteq
        [flow : Flow, purpose : {"account_creation", "keyring_rotation"},
         expires : 0..MaxTime + ChallengeTtl]
    /\ backups \in [Backup -> {Nil} \cup [keyring : Blob, key : Blob]]
    /\ cutoff \in {Nil} \cup 0..MaxTime
    /\ call \in [Flow -> {Nil} \cup Call]
    /\ rotated \in 0..MaxTime

AccountsInit ==
    /\ account = Nil
    /\ blobs = {} /\ replicas = {} /\ challenges = {}
    /\ backups = [b \in Backup |-> Nil]
    /\ cutoff = Nil
    /\ call = [f \in Flow |-> Nil]
    /\ rotated = 0

-----------------------------------------------------------------------------
(* Challenges and sessions                                                  *)

\* issueChallenge
Issue(f, purpose) ==
    challenges' = challenges \cup
        {[flow |-> f, purpose |-> purpose, expires |-> now + ChallengeTtl]}

\* consumeChallenge, and a signature by the master key over what it consumed
Consume(f, purpose) ==
    \E c \in challenges :
        /\ c.flow = f /\ c.purpose = purpose /\ c.expires > now
        /\ challenges' = challenges \ {c}

\* verifySessionToken.  The stored cutoff lapses with the sessions it is about.
Cutoff == IF cutoff # Nil /\ now <= cutoff + SessionTtl THEN cutoff ELSE 0
\* Mutant: the stored cutoff is not consulted.
AcceptedByAge(s) == now <= s.issued + SessionTtl
Accepted(s) == now <= s.issued + SessionTtl /\ s.issued >= Cutoff

-----------------------------------------------------------------------------
(* Requests that change the account, await by await                          *)

Step(f, next) == call' = [call EXCEPT ![f].step = next]

\* handleAccountsCreate: the row is there before the blob it points to.
CreateAccount(f, blob) ==
    /\ call[f] = Nil /\ account = Nil
    /\ Consume(f, "account_creation")
    /\ account' = [keyring |-> blob, secret |-> f]
    /\ call' = [call EXCEPT ![f] = [step |-> "insert", blob |-> blob, rotate |-> FALSE,
                                    previous |-> Nil, echo |-> f, at |-> 0]]
    /\ UNCHANGED <<blobs, replicas, backups, cutoff, rotated>>

\* handleKeyringUpdate: the row as it is now, for the blob to supersede and, without
\* rotation, the secret to answer with, ...
UpdateKeyring(f, blob, rotate) ==
    /\ call[f] = Nil /\ account # Nil
    /\ Consume(f, "keyring_rotation")
    /\ call' = [call EXCEPT ![f] = [step |-> "insert", blob |-> blob, rotate |-> rotate,
                                    previous |-> account.keyring, echo |-> account.secret,
                                    at |-> 0]]
    /\ UNCHANGED <<account, blobs, replicas, backups, cutoff, rotated>>

\* ... the blob, here before the row that points to it, ...
\* Mutant: the blob it supersedes is deleted here too.
ReplaceBlob(f) ==
    /\ call[f] # Nil /\ call[f].step = "insert"
    /\ blobs' = (blobs \ {call[f].previous}) \cup {call[f].blob}
    /\ Step(f, IF call[f].previous = Nil THEN "replicate" ELSE "install")
    /\ UNCHANGED <<account, replicas, challenges, backups, cutoff, rotated>>
InsertBlob(f) ==
    /\ call[f] # Nil /\ call[f].step = "insert"
    /\ blobs' = blobs \cup {call[f].blob}
    /\ Step(f, IF call[f].previous = Nil THEN "replicate" ELSE "install")
    /\ UNCHANGED <<account, replicas, challenges, backups, cutoff, rotated>>

\* ... the row: updateServiceSecretAndKeyring or updateKeyringOnly, ...
Install(f) ==
    /\ call[f] # Nil /\ call[f].step = "install"
    /\ account' = [keyring |-> call[f].blob,
                   secret |-> IF call[f].rotate THEN f ELSE account.secret]
    /\ call' = [call EXCEPT ![f].step = "replicate", ![f].at = now]
    /\ UNCHANGED <<blobs, replicas, challenges, backups, cutoff, rotated>>

\* ... the other services, each of which may miss either message, ...
Replicate(f) ==
    /\ call[f] # Nil /\ call[f].step = "replicate"
    /\ \E stored, deleted \in BOOLEAN :
        replicas' = (replicas \cup (IF stored THEN {call[f].blob} ELSE {}))
                        \ (IF deleted THEN {call[f].previous} ELSE {})
    /\ Step(f, IF call[f].rotate THEN "cut" ELSE "answer")
    /\ UNCHANGED <<account, blobs, challenges, backups, cutoff, rotated>>

\* ... and, after a rotation, invalidateSessionsForCard.
CutSessions(f) ==
    /\ call[f] # Nil /\ call[f].step = "cut"
    /\ cutoff' = now
    /\ Step(f, "answer")
    /\ UNCHANGED <<account, blobs, replicas, challenges, backups, rotated>>

\* The secret the client is answered with
AnsweredSecret(f) == IF call[f].rotate THEN f ELSE call[f].echo
Answer(f) ==
    /\ call[f] # Nil /\ call[f].step = "answer"
    /\ call' = [call EXCEPT ![f] = Nil]
    /\ rotated' = IF call[f].rotate /\ call[f].at > rotated THEN call[f].at ELSE rotated

\* handleCreateBackup
CreateBackup(b, session, keyring, key) ==
    /\ Accepted(session) /\ account # Nil
    /\ backups' = [backups EXCEPT ![b] = [keyring |-> keyring, key |-> key]]
    /\ UNCHANGED <<account, blobs, replicas, challenges, cutoff, call, rotated>>

\* handleKeyringsGet, here or at the other service
Stored(blob, here) == blob \in IF here THEN blobs ELSE replicas
=============================================================================
