--------------------------- MODULE RecoveryWindows ---------------------------
(***************************************************************************)
(* Backups and recovery windows of a wallet service (wallet-service/server/db *)
(* /backups, recovery, notification-jobs; routes/accounts/../recovery, routes/ *)
(* recovery; utils/notification-fanout; tasks/sweep-notification-retries).      *)
(*                                                                         *)
(* Whoever lost a device asks for a recovery of a backup; the holder is told  *)
(* and may cancel for the length of a window; after it the wrapped key of the *)
(* backup is released.  Each window has one notification channel here.       *)
(***************************************************************************)
EXTENDS Integers, FiniteSets

CONSTANTS
    Backup,         \* backup registrations that may be made
    Window,         \* rows of recovery_windows
    Asker,          \* clients that ask for a recovery, one request each at a time
    WindowLength,   \* RECOVERY_WINDOW_HOURS
    MaxAttempts,    \* MAX_ATTEMPTS of a notification
    MaxTime,        \* bound on time
    Nil

ASSUME WindowAssumption ==
    /\ WindowLength \in Nat \ {0} /\ MaxAttempts \in Nat \ {0} /\ MaxTime \in Nat

Kind == {"recovery_initiated", "cancellation_confirmed"}

VARIABLES
    now,
    windows,        \* recovery_windows
    jobs,           \* notification_jobs, per window and kind
    asking,         \* per asker: its POST /accounts/../recovery being served
    fanOut,         \* jobs enqueued and not tried yet by the request that enqueued them
    sweep,          \* the job the retry sweep is sending, with the attempts it read
    served,         \* windows whose wrapped key has been handed out
    confirmed       \* windows whose cancellation has been confirmed to the holder

windowVars == <<windows, jobs, asking, fanOut, sweep, served,
                confirmed>>

WindowRow ==
    [backup : Backup, expires : 0..MaxTime + WindowLength,
     status : {"pending", "cancelled", "released"}]
ASSUME NilIsNoRow == Nil \notin WindowRow /\ Nil \notin 0..MaxTime

Job == [status : {"pending", "sent", "failed"}, attempts : 0..MaxAttempts, due : 0..MaxTime]

WindowTypeOK ==
    /\ now \in 0..MaxTime
    /\ windows \in [Window -> {Nil} \cup WindowRow]
    /\ jobs \in [Window \X Kind -> {Nil} \cup Job]
    /\ asking \in [Asker -> {Nil} \cup [backup : Backup, window : Window \cup {Nil}]]
    /\ fanOut \subseteq {j \in Window \X Kind : jobs[j] # Nil}
    /\ sweep \in {Nil} \cup [job : Window \X Kind, attempts : 0..MaxAttempts]
    /\ served \subseteq Window /\ confirmed \subseteq Window

WindowInit ==
    /\ now = 0
    /\ windows = [w \in Window |-> Nil]
    /\ jobs = [j \in Window \X Kind |-> Nil]
    /\ asking = [a \in Asker |-> Nil]
    /\ fanOut = {} /\ sweep = Nil
    /\ served = {} /\ confirmed = {}

Pending(w) == windows[w] # Nil /\ windows[w].status = "pending"
ActiveWindows(b) == {w \in Window : Pending(w) /\ windows[w].backup = b}

-----------------------------------------------------------------------------
(* Notifications                                                            *)

\* enqueueNotificationJob
Enqueue(w, kind) ==
    /\ jobs' = [jobs EXCEPT ![<<w, kind>>] = [status |-> "pending", attempts |-> 0, due |-> now]]
    /\ fanOut' = fanOut \cup {<<w, kind>>}

\* markJobSent and markJobFailed, by someone who read attempts when it took the
\* job.  The last instant of the model stands for everything later.
Backoff(attempts) == 2 ^ attempts
Earlier(s, t) == IF s < t THEN s ELSE t
MarkSent(j) == [jobs[j] EXCEPT !.status = "sent", !.attempts = Earlier(@ + 1, MaxAttempts)]
MarkFailed(j, attempts) ==
    IF attempts + 1 >= MaxAttempts
    THEN [jobs[j] EXCEPT !.status = "failed", !.attempts = attempts + 1]
    ELSE [jobs[j] EXCEPT !.attempts = attempts + 1,
                         !.due = Earlier(now + Backoff(attempts), MaxTime)]

\* The provider takes the message or throws.
ProviderAnswers == BOOLEAN

\* dispatchNotificationJob
Dispatch(j, attempts) ==
    \E accepted \in ProviderAnswers :
        jobs' = [jobs EXCEPT ![j] = IF accepted THEN MarkSent(j) ELSE MarkFailed(j, attempts)]

\* fanOutRecoveryNotifications: the attempt made by the request itself
SendInline(j) ==
    /\ j \in fanOut
    /\ fanOut' = fanOut \ {j}
    /\ Dispatch(j, 0)
    /\ UNCHANGED <<now, windows, asking, sweep, served, confirmed>>

\* findDueJobs
Due(j) == jobs[j] # Nil /\ jobs[j].status = "pending" /\ jobs[j].due <= now
SweepFind(j) ==
    /\ sweep = Nil /\ Due(j)
    /\ sweep' = [job |-> j, attempts |-> jobs[j].attempts]
    /\ UNCHANGED <<now, windows, jobs, asking, fanOut, served, confirmed>>

SweepSend ==
    /\ sweep # Nil
    /\ Dispatch(sweep.job, sweep.attempts)
    /\ sweep' = Nil
    /\ UNCHANGED <<now, windows, asking, fanOut, served, confirmed>>

-----------------------------------------------------------------------------
(* Windows                                                                  *)

\* POST /accounts/../recovery: the look for an active window, which is the answer
\* where there is one, ...
FindActive(a, b) ==
    /\ asking[a] = Nil /\ ActiveWindows(b) = {}
    /\ asking' = [asking EXCEPT ![a] = [backup |-> b, window |-> Nil]]

\* ... its creation, ...
NewWindow(a, w) ==
    /\ asking[a] # Nil /\ asking[a].window = Nil /\ windows[w] = Nil
    /\ windows' = [windows EXCEPT ![w] =
            [backup |-> asking[a].backup, expires |-> now + WindowLength, status |-> "pending"]]
    /\ asking' = [asking EXCEPT ![a].window = w]
    /\ UNCHANGED <<now, jobs, fanOut, sweep, served, confirmed>>

\* ... and the notification, after which the request is answered.
Notify(a) ==
    /\ asking[a] # Nil /\ asking[a].window # Nil
    /\ Enqueue(asking[a].window, "recovery_initiated")
    /\ asking' = [asking EXCEPT ![a] = Nil]

\* POST /recovery/{id}/cancel, with a signature the registered key verifies.  What
\* it reads before the update never changes; asked again, it answers the same.
Cancellable(w) == Pending(w) /\ windows[w].expires > now
CancelRecovery(w) ==
    /\ Cancellable(w)
    /\ windows' = [windows EXCEPT ![w].status = "cancelled"]
    /\ Enqueue(w, "cancellation_confirmed")
    /\ confirmed' = confirmed \cup {w}
    /\ UNCHANGED <<now, asking, sweep, served>>

\* GET /recovery/{id}/release: what it answers, and what becomes of the window.
\* In the very instant in which a window ends it is neither early nor releasable.
Releasable(w) == Pending(w) /\ windows[w].expires < now
\* Mutant: only the time is looked at.
ReleaseAnswerByTime(w) == IF windows[w].expires > now THEN "too_early" ELSE "released"
ReleaseAnswer(w) ==
    CASE windows[w].status = "released" -> "released"
      [] windows[w].status = "cancelled" -> "cancelled"
      [] Pending(w) /\ windows[w].expires > now -> "too_early"
      [] Releasable(w) -> "released"
      [] OTHER -> "cancelled"
ReleaseKey(w) ==
    /\ windows[w] # Nil
    /\ windows' = IF Releasable(w) THEN [windows EXCEPT ![w].status = "released"] ELSE windows
    /\ served' = IF ReleaseAnswer(w) = "released" THEN served \cup {w} ELSE served
    /\ UNCHANGED <<now, jobs, asking, fanOut, sweep, confirmed>>

\* The process stops: requests and the sweep are lost, the tables stay.
StopService ==
    /\ asking' = [a \in Asker |-> Nil]
    /\ fanOut' = {} /\ sweep' = Nil
    /\ UNCHANGED <<now, windows, jobs, served, confirmed>>

-----------------------------------------------------------------------------
(* A window that was cancelled, as the holder has been told, never releases its *)
(* key, and none does before its time has passed (cancel.post.ts, release.get.ts). *)
CancelIsFinal ==
    /\ confirmed \cap served = {}
    /\ \A w \in served : windows[w].expires < now
=============================================================================
