------------------------------ MODULE Migration ------------------------------
(***************************************************************************)
(* aos migrate runtime: the standalone runtime's state is copied into a    *)
(* staging directory, which then replaces the bundled runtime home.  The   *)
(* import is a transaction over four directories and two receipt files.    *)
(* One step is one rename, removal or copy of migration.rs; each may fail, *)
(* or the process may die in it, and the operator may run the import again *)
(* at any time.                                                            *)
(*                                                                         *)
(* Every rename is followed by a sync of its directory before the next     *)
(* one, so a power loss undoes at most the last one, which is the same as  *)
(* dying before it.  The locks are held for the whole run: one import at a *)
(* time, and a source that only changes in between.                        *)
(***************************************************************************)
EXTENDS Naturals

CONSTANTS
    MaxSource,  \* bound: how often the standalone runtime has changed
    MaxFaults   \* bound: failed steps and deaths of the process

ASSUME MigrationAssumption == MaxSource \in Nat \ {0} /\ MaxFaults \in Nat

VARIABLES
    source,     \* the state of the standalone runtime, numbered from 1
    target,     \* ~/.aos/runtime
    backup,     \* ~/.aos/runtime.pre-migration
    failed,     \* ~/.aos/runtime.failed-migration
    staging,    \* the staging directory
    staged,     \* the staged receipt: the source it describes, 0 if absent
    receipt,    \* the receipt: the source it describes, 0 if absent
    pc,         \* where migrate_runtime is, "off" if it does not run
    recovering, \* it has not begun to import
    faults      \* failed steps so far

disk == <<target, backup, failed, staging, staged, receipt>>
vars == <<source, disk, pc, recovering, faults>>

-----------------------------------------------------------------------------
\* What a directory holds: nothing, the runtime as bundled, a tree that was
\* copied or removed in part, or the import of a state of the source.
None == [kind |-> "none", of |-> 0]
Bundled == [kind |-> "bundled", of |-> 0]
Partial == [kind |-> "partial", of |-> 0]
Import(v) == [kind |-> "import", of |-> v]
Imports == {Import(v) : v \in 1..source}

Pcs == {"off", "recover", "complete", "restore", "rollback", "putBack", "discard",
        "rmStaging", "rmStaged", "check", "copy", "record", "setAside", "cutover",
        "finalize", "undoReceipt", "undoStaged", "rmBackup", "cleanup"}

\* An error leaves recovery at once, but an import by way of its cleanup.
OnError == IF recovering THEN "off" ELSE "cleanup"

\* A step does not finish: it returns an error, or the process dies.
Stopped(onError) ==
    /\ faults < MaxFaults /\ faults' = faults + 1
    /\ pc' \in {"off", onError}
    /\ UNCHANGED recovering

\* A step finishes.
Goto(next) == pc' = next /\ UNCHANGED <<recovering, faults>>

Init ==
    /\ source = 1
    /\ target = Bundled
    /\ backup = None /\ failed = None /\ staging = None
    /\ staged = 0 /\ receipt = 0
    /\ pc = "off" /\ recovering = TRUE /\ faults = 0

\* Between two imports the standalone runtime may run.
SourceRuns ==
    /\ pc = "off"
    /\ source < MaxSource
    /\ source' = source + 1
    /\ UNCHANGED <<disk, pc, recovering, faults>>

Start ==
    /\ pc = "off"
    /\ pc' = "recover" /\ recovering' = TRUE
    /\ UNCHANGED <<source, disk, faults>>

-----------------------------------------------------------------------------
\* Seeded bugs: a receipt is looked for too late; a backup is taken for
\* garbage; a staged receipt is taken for a commit; staging is left behind.
RecoverIgnoresReceipt ==
    /\ pc = "recover"
    /\ Goto(IF backup # None THEN (IF target = None THEN "restore" ELSE "rollback")
            ELSE IF receipt # 0 THEN "complete" ELSE "rmStaging")
    /\ UNCHANGED <<source, disk>>

RecoverDropsBackup ==
    /\ pc = "recover"
    /\ Goto(IF receipt # 0 THEN "complete"
            ELSE IF backup # None /\ target # None THEN "rmBackup"
            ELSE IF backup # None THEN "restore" ELSE "rmStaging")
    /\ UNCHANGED <<source, disk>>

RecoverCommits ==
    /\ pc = "recover"
    /\ Goto(IF receipt # 0 THEN "complete"
            ELSE IF backup = None THEN "rmStaging"
            ELSE IF target = None THEN "restore"
            ELSE IF staged # 0 THEN "finalize" ELSE "rollback")
    /\ UNCHANGED <<source, disk>>

RecoverKeepsStaging ==
    /\ pc = "recover"
    /\ Goto(IF receipt # 0 THEN "complete"
            ELSE IF backup = None THEN "check"
            ELSE IF target = None THEN "restore" ELSE "rollback")
    /\ UNCHANGED <<source, disk>>

\* recover_interrupted_transaction: which of its cases applies.
Recover ==
    /\ pc = "recover"
    /\ \/ receipt # 0 /\ Goto("complete")
       \/ receipt = 0 /\ backup = None /\ Goto("rmStaging")
       \/ receipt = 0 /\ backup # None /\ target = None /\ Goto("restore")
       \/ receipt = 0 /\ backup # None /\ target # None /\ Goto("rollback")
    /\ UNCHANGED <<source, disk>>

\* An import that has its receipt: validate_completed_target looks for the
\* executables, then the backup goes.
Complete ==
    /\ pc = "complete"
    /\ Goto(IF target.kind \in {"bundled", "import"} THEN "rmBackup" ELSE "off")
    /\ UNCHANGED <<source, disk>>

\* The backup returns to a missing target.
Restore ==
    /\ pc = "restore"
    /\ \/ target' = backup /\ backup' = None /\ Goto("rmStaging")
       \/ target' = backup /\ backup' = None /\ Stopped("off")
       \/ UNCHANGED <<target, backup>> /\ Stopped("off")
    /\ UNCHANGED <<source, failed, staging, staged, receipt>>

\* rollback_target: the target is set aside, unless an earlier one still is.
Rollback ==
    /\ pc = "rollback"
    /\ \/ failed # None /\ Goto(OnError) /\ UNCHANGED <<target, failed>>
       \/ /\ failed = None
          /\ \/ failed' = target /\ target' = None /\ Goto("putBack")
             \/ failed' = target /\ target' = None /\ Stopped(OnError)
             \/ UNCHANGED <<target, failed>> /\ Stopped(OnError)
    /\ UNCHANGED <<source, backup, staging, staged, receipt>>

\* The backup takes its place; if it cannot, the target is put back.
PutBack ==
    /\ pc = "putBack"
    /\ \/ target' = backup /\ backup' = None /\ Goto("discard") /\ UNCHANGED failed
       \/ target' = backup /\ backup' = None /\ Stopped(OnError) /\ UNCHANGED failed
       \/ target' = failed /\ failed' = None /\ Stopped(OnError) /\ UNCHANGED backup
       \/ UNCHANGED <<target, backup, failed>> /\ Stopped(OnError)
    /\ UNCHANGED <<source, staging, staged, receipt>>

\* The target that was set aside is removed.
Discard ==
    /\ pc = "discard"
    /\ \/ failed' = None /\ Goto(IF recovering THEN "rmStaging" ELSE "cleanup")
       \/ failed' \in {failed, Partial} /\ Stopped(OnError)
    /\ UNCHANGED <<source, target, backup, staging, staged, receipt>>

\* A tree of an earlier run is removed, if there is one.
Removed(tree) == IF tree = None THEN {None} ELSE {tree, Partial}

RemoveStaging ==
    /\ pc = "rmStaging"
    /\ \/ staging' = None /\ Goto("rmStaged")
       \/ staging' \in Removed(staging) /\ Stopped("off")
    /\ UNCHANGED <<source, target, backup, failed, staged, receipt>>

RemoveStaged ==
    /\ pc = "rmStaged"
    /\ \/ staged' = 0 /\ Goto("check")
       \/ UNCHANGED staged /\ Stopped("off")
    /\ UNCHANGED <<source, target, backup, failed, staging, receipt>>

-----------------------------------------------------------------------------
\* validate_target, and no staging directory.
Check ==
    /\ pc = "check"
    /\ \/ /\ target = Bundled /\ staging = None
          /\ pc' = "copy" /\ recovering' = FALSE /\ UNCHANGED faults
       \/ /\ target # Bundled \/ staging # None
          /\ Goto("off")
    /\ UNCHANGED <<source, disk>>

\* The tree is copied, and validated against its receipt.
CopyToStaging ==
    /\ pc = "copy"
    /\ \/ staging' = Import(source) /\ Goto("record")
       \/ staging' \in {None, Partial, Import(source)} /\ Stopped(OnError)
    /\ UNCHANGED <<source, target, backup, failed, staged, receipt>>

\* write_staged_receipt
Record ==
    /\ pc = "record"
    /\ \/ staged # 0 /\ Goto(OnError) /\ UNCHANGED staged
       \/ /\ staged = 0
          /\ \/ staged' = staging.of /\ Goto("setAside")
             \/ staged' \in {0, staging.of} /\ Stopped(OnError)
    /\ UNCHANGED <<source, target, backup, failed, staging, receipt>>

\* replace_target: the bundled runtime becomes the backup,
SetAside ==
    /\ pc = "setAside"
    /\ \/ backup # None /\ Goto(OnError) /\ UNCHANGED <<target, backup>>
       \/ /\ backup = None
          /\ \/ backup' = target /\ target' = None /\ Goto("cutover")
             \/ backup' = target /\ target' = None /\ Stopped(OnError)
             \/ UNCHANGED <<target, backup>> /\ Stopped(OnError)
    /\ UNCHANGED <<source, failed, staging, staged, receipt>>

\* and the staging directory the runtime. If the rename fails the backup is
\* put back, if that works.
Cutover ==
    /\ pc = "cutover"
    /\ \/ target' = staging /\ staging' = None /\ Goto("finalize") /\ UNCHANGED backup
       \/ target' = staging /\ staging' = None /\ Stopped(OnError) /\ UNCHANGED backup
       \/ target' = backup /\ backup' = None /\ Stopped(OnError) /\ UNCHANGED staging
       \/ UNCHANGED <<target, backup, staging>> /\ Stopped(OnError)
    /\ UNCHANGED <<source, failed, staged, receipt>>

\* Seeded bug: a failed finalize_receipt rolls back before it looks at the
\* receipt.
FinalizeRollsBackFirst ==
    /\ pc = "finalize"
    /\ \/ receipt' = staged /\ staged' = 0 /\ Goto("rmBackup")
       \/ receipt' = staged /\ staged' = 0 /\ Stopped("rollback")
       \/ UNCHANGED <<staged, receipt>> /\ Stopped("rollback")
    /\ UNCHANGED <<source, target, backup, failed, staging>>

\* finalize_receipt: the rename that commits the import. If the rename or its
\* sync fails, the receipts are removed and the target is rolled back.
Finalize ==
    /\ pc = "finalize"
    /\ \/ receipt' = staged /\ staged' = 0 /\ Goto("rmBackup")
       \/ receipt' = staged /\ staged' = 0 /\ Stopped("undoReceipt")
       \/ UNCHANGED <<staged, receipt>> /\ Stopped("undoReceipt")
    /\ UNCHANGED <<source, target, backup, failed, staging>>

UndoReceipt ==
    /\ pc = "undoReceipt"
    /\ \/ receipt' = 0 /\ (Goto("undoStaged") \/ Stopped(OnError))
       \/ UNCHANGED receipt /\ Stopped(OnError)
    /\ UNCHANGED <<source, target, backup, failed, staging, staged>>

UndoStaged ==
    /\ pc = "undoStaged"
    /\ \/ staged' = 0 /\ (Goto("rollback") \/ Stopped(OnError))
       \/ UNCHANGED staged /\ Stopped(OnError)
    /\ UNCHANGED <<source, target, backup, failed, staging, receipt>>

RemoveBackup ==
    /\ pc = "rmBackup"
    /\ \/ backup' = None /\ Goto("off")
       \/ backup' \in Removed(backup) /\ Stopped(OnError)
    /\ UNCHANGED <<source, target, failed, staging, staged, receipt>>

\* After an error the staging directory is removed, best-effort.
Cleanup ==
    /\ pc = "cleanup"
    /\ \/ staging' = None /\ Goto("off")
       \/ staging' \in Removed(staging) /\ Stopped("off")
    /\ UNCHANGED <<source, target, backup, failed, staged, receipt>>

MigrateRuntime ==
    \/ Start \/ Recover \/ Complete \/ Restore \/ Rollback \/ PutBack \/ Discard
    \/ RemoveStaging \/ RemoveStaged \/ Check \/ CopyToStaging \/ Record
    \/ SetAside \/ Cutover \/ Finalize \/ UndoReceipt \/ UndoStaged
    \/ RemoveBackup \/ Cleanup

Next == SourceRuns \/ MigrateRuntime

Spec == Init /\ [][Next]_vars
-----------------------------------------------------------------------------
\* Which tree each directory may hold; in particular the runtime home never
\* holds a tree that was copied or removed in part.
TypeOK ==
    /\ source \in Nat \ {0}
    /\ target \in {None, Bundled} \cup Imports
    /\ backup \in {None, Bundled, Partial}
    /\ failed \in {None, Partial} \cup Imports
    /\ staging \in {None, Partial} \cup Imports
    /\ staged \in 0..source /\ receipt \in 0..source
    /\ pc \in Pcs /\ recovering \in BOOLEAN /\ faults \in Nat

\* "The product runtime's pre-import directory is retained as a transaction
\* backup until the validated receipt is durable": without a receipt the
\* bundled runtime is whole, in its place or in the backup.
BundleSurvives == receipt = 0 => Bundled \in {target, backup}

\* A receipt vouches for the runtime home: it holds the complete import the
\* receipt describes, wherever an earlier or the current run stopped.
ReceiptVouches == receipt # 0 => target = Import(receipt)

\* "Even a valid staged receipt describes an earlier source snapshot": what is
\* committed is the source as it is, never what an earlier run copied.
CommitsCurrentSource == [][receipt' \in {0, receipt, source}]_vars

\* "The next import either completes a fully validated replacement or restores
\* that backup before retrying": no import ends because an earlier one was
\* interrupted.
NeverNeedsManualRecovery == pc = "rollback" => failed = None
==============================================================================
