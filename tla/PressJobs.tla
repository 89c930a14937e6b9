----------------------------- MODULE PressJobs -----------------------------
(***************************************************************************)
(* The task of the press that pins what the registry logged                   *)
(* (press/server/tasks/reconcile-cids.ts): it runs every few hours, never      *)
(* twice at once, from the block after its checkpoint to the latest, in         *)
(* batches, and advances the checkpoint when nothing failed.  The chain grows   *)
(* meanwhile; blocks that are logged stay.                                   *)
(***************************************************************************)
EXTENDS Integers, FiniteSets

CONSTANTS
    Cid,
    Batch,          \* BLOCK_BATCH_SIZE
    MaxBlock,       \* bound: blocks of the chain
    MaxJobFaults,   \* bound: calls that fail, and crashes
    Nil

ASSUME JobsAssumption ==
    /\ Batch \in Nat \ {0} /\ MaxBlock \in Nat /\ MaxJobFaults \in Nat /\ Nil \notin Nat

Kind == {"CardRegistered", "CardHeadUpdated"}

VARIABLES
    block,      \* the latest block
    logged,     \* events: [block, kind, cid]
    checkpoint, \* reconcileLastBlock in the key-value store
    task,       \* the run under way
    firstBlock, \* history: where the first run that was completed began
    pinned,     \* what the pinning service holds
    jobFaults

jobVars == <<block, logged, checkpoint, task, firstBlock, pinned, jobFaults>>

NoTask == [step |-> "idle", from |-> 0, cursor |-> 0, latest |-> 0, cids |-> {}, failed |-> FALSE]

JobsInit ==
    /\ block = 0 /\ logged = {} /\ checkpoint = Nil
    /\ task = NoTask /\ firstBlock = 0 /\ pinned = {} /\ jobFaults = 0

JobFails(ok) ==
    IF ok THEN UNCHANGED jobFaults
    ELSE jobFaults < MaxJobFaults /\ jobFaults' = jobFaults + 1

\* Every block has one event here, by this press or another.
Mine(kind, cid) ==
    /\ block < MaxBlock
    /\ block' = block + 1
    /\ logged' = logged \cup {[block |-> block + 1, kind |-> kind, cid |-> cid]}
    /\ UNCHANGED <<checkpoint, task, firstBlock, pinned, jobFaults>>

\* The first run ever starts at the latest block.
From(latest) == IF checkpoint = Nil THEN latest ELSE checkpoint + 1

StartRun ==
    /\ task.step = "idle" /\ From(block) <= block
    /\ task' = [NoTask EXCEPT !.step = "CardRegistered", !.from = From(block),
                              !.cursor = From(block), !.latest = block]
    /\ UNCHANGED <<block, logged, checkpoint, firstBlock, pinned, jobFaults>>

Smaller(a, b) == IF a < b THEN a ELSE b
ToBlock == Smaller(task.cursor + Batch - 1, task.latest)
Found(kind) ==
    {e.cid : e \in {f \in logged : f.kind = kind /\ f.block \in task.cursor..ToBlock}}

\* getLogs, once for each kind: what it throws ends the run.
GetLogs(ok) ==
    /\ task.step \in Kind
    /\ task' = IF ~ok THEN NoTask
               ELSE [task EXCEPT !.cids = @ \cup Found(task.step),
                                 !.step = IF @ = "CardRegistered" THEN "CardHeadUpdated"
                                          ELSE "pin"]
    /\ JobFails(ok)
    /\ UNCHANGED <<block, logged, checkpoint, firstBlock, pinned>>

\* A CID that is not pinned is noted, and the others go on.
PinCid(cid, ok) ==
    /\ task.step = "pin" /\ cid \in task.cids
    /\ pinned' = IF ok THEN pinned \cup {cid} ELSE pinned
    /\ task' = [task EXCEPT !.cids = @ \ {cid}, !.failed = @ \/ ~ok]
    /\ JobFails(ok)
    /\ UNCHANGED <<block, logged, checkpoint, firstBlock>>

EndBatch ==
    /\ task.step = "pin" /\ task.cids = {}
    /\ task' = [task EXCEPT !.cursor = ToBlock + 1,
                            !.step = IF ToBlock < task.latest THEN "CardRegistered" ELSE "end"]
    /\ UNCHANGED <<block, logged, checkpoint, firstBlock, pinned, jobFaults>>

\* Mutant: a run that could not pin everything is over and done with as well.
AdvancedAnyway == task.latest
Advanced == IF task.failed THEN checkpoint ELSE task.latest
EndRun ==
    /\ task.step = "end"
    /\ checkpoint' = Advanced
    /\ firstBlock' = IF checkpoint = Nil THEN task.from ELSE firstBlock
    /\ task' = NoTask
    /\ UNCHANGED <<block, logged, pinned, jobFaults>>

KillTask ==
    /\ task # NoTask /\ JobFails(FALSE)
    /\ task' = NoTask
    /\ UNCHANGED <<block, logged, checkpoint, firstBlock, pinned>>

JobsNext ==
    \/ StartRun \/ EndBatch \/ EndRun \/ KillTask
    \/ \E ok \in BOOLEAN : GetLogs(ok) \/ \E cid \in Cid : PinCid(cid, ok)
    \/ \E kind \in Kind, cid \in Cid : Mine(kind, cid)

JobsSpec == JobsInit /\ [][JobsNext]_jobVars

(* What the registry logged since the first run is pinned once the checkpoint is    *)
(* past it, whatever failed in between (reconcile-cids.ts: "Advance checkpoint      *)
(* only on full success to avoid skipping blocks on partial failure").              *)
NothingSkipped ==
    \A e \in logged :
        checkpoint # Nil /\ e.block \in firstBlock..checkpoint => e.cid \in pinned
=============================================================================
