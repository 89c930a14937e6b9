-------------------------- MODULE SubCardDirectory --------------------------
(***************************************************************************)
(* The directory of a card's sub-cards, its active_subcards field             *)
(* (wallet-sdk/src/subcards/activeSubcardsUpdate.ts, codes 510 and 511;          *)
(* press/src/handlers/update.ts): every update carries the whole array, made    *)
(* from a copy its caller read before.                                       *)
(***************************************************************************)
EXTENDS Integers, FiniteSets

CONSTANTS
    Device,         \* sub-card keys
    Update,         \* calls of postSubCardAddedToDirectory and ...RemovedFromDirectory
    MaxLate         \* bound: updates whose answer comes before they land

ASSUME DirectoryAssumption == MaxLate \in Nat

VARIABLES
    directory,  \* the array in force
    head,       \* updates that have landed, which stands for the head
    updates,    \* per call
    intended,   \* history: the directory if every update were made of the latest
    undone,     \* history: devices whose update one made of an older copy followed
    late

directoryVars == <<directory, head, updates, intended, undone, late>>

NoUpdate == [step |-> "none", code |-> 510, device |-> 0, copy |-> {}, head |-> 0, since |-> {}]

DirectoryInit ==
    /\ directory = {} /\ head = 0
    /\ updates = [u \in Update |-> NoUpdate]
    /\ intended = directory /\ undone = {} /\ late = 0

StepUpdate(u, step) == updates' = [updates EXCEPT ![u].step = step]

\* The caller reads the array it is to pass on.
ReadDirectory(u, code, d) ==
    /\ updates[u].step = "none"
    /\ updates' = [updates EXCEPT ![u] = [NoUpdate EXCEPT !.step = "posted", !.code = code,
                                                          !.device = d, !.copy = directory]]
    /\ UNCHANGED <<directory, head, intended, undone, late>>

\* Mutant: the other devices go with the one that is removed.
FilteredAll(u) == IF updates[u].code = 510 THEN updates[u].copy \cup {updates[u].device} ELSE {}
Filtered(u) ==
    IF updates[u].code = 510
    THEN updates[u].copy \cup {updates[u].device}
    ELSE updates[u].copy \ {updates[u].device}

\* handleUpdate: the signature is the card's own, and appendLogEntry reads the head.
ReadHead(u) ==
    /\ updates[u].step = "posted"
    /\ updates' = [updates EXCEPT ![u].step = "append", ![u].head = head]
    /\ UNCHANGED <<directory, head, intended, undone, late>>

Land(u) ==
    LET d == updates[u].device IN
    /\ directory' = Filtered(u)
    /\ head' = head + 1
    /\ intended' = IF updates[u].code = 510 THEN intended \cup {d} ELSE intended \ {d}
    /\ undone' = (undone \cup updates[u].since) \ {d}
    /\ updates' = [v \in Update |->
          IF v = u THEN [updates[u] EXCEPT !.step = "over"]
          ELSE IF updates[v].step = "none" THEN updates[v]
          ELSE [updates[v] EXCEPT !.since = @ \cup {d}]]

\* The registry compares the head, also when the answer has been given already.
AppendLogEntry(u) ==
    /\ updates[u].step \in {"append", "late"} /\ updates[u].head = head
    /\ Land(u) /\ UNCHANGED late

RefuseStale(u) ==
    /\ updates[u].step \in {"append", "late"} /\ updates[u].head # head
    /\ StepUpdate(u, "over")
    /\ UNCHANGED <<directory, head, intended, undone, late>>

\* The wait for the receipt times out, or the answer is lost.
AnswerEarly(u) ==
    /\ updates[u].step = "append" /\ late < MaxLate
    /\ late' = late + 1
    /\ StepUpdate(u, "late")
    /\ UNCHANGED <<directory, head, intended, undone>>

DirectoryNext ==
    \E u \in Update :
        \/ \E code \in {510, 511}, d \in Device : ReadDirectory(u, code, d)
        \/ ReadHead(u) \/ AppendLogEntry(u) \/ RefuseStale(u) \/ AnswerEarly(u)

DirectorySpec == DirectoryInit /\ [][DirectoryNext]_directoryVars

-----------------------------------------------------------------------------
(* Every update that landed is in the directory, an added device listed and a      *)
(* removed one not, unless an update made of an older copy landed after it          *)
(* (activeSubcardsUpdate.ts posts the complete array).                             *)
DirectoryKeepsUpdates ==
    \A d \in Device \ undone : d \in directory <=> d \in intended
=============================================================================
