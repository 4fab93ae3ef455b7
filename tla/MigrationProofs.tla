--------------------------- MODULE MigrationProofs ---------------------------
(***************************************************************************)
(* The import transaction is safe for every number of failures, deaths and *)
(* retries: the bundled runtime is never lost before the commit, and a     *)
(* receipt always vouches for a complete, current import.                  *)
(*                                                                         *)
(* None of the three properties is inductive: which tree a directory holds *)
(* depends on how far the transaction is.  IInv adds, for every pc, where  *)
(* the bundled and the imported tree are.                                  *)
(***************************************************************************)
EXTENDS Migration, TLAPS

\* The bundled runtime is in its place, not in the backup.
InPlace == receipt = 0 /\ target = Bundled /\ backup = None

\* The bundled runtime is the backup, and "tree" is in its place.
Replaced(tree) == receipt = 0 /\ target = tree /\ backup = Bundled

\* An import without a receipt is in the bundled runtime's place.
Unreceipted == receipt = 0 /\ target \in Imports /\ backup = Bundled

\* Between any two steps, whatever pc is.
Transaction ==
    \/ InPlace
    \/ Replaced(None)
    \/ Unreceipted
    \/ receipt # 0 /\ target = Import(receipt)

\* Where the trees are while the process runs.
Progress ==
    /\ pc \in {"rmStaging", "rmStaged", "check", "copy", "record", "setAside"} => InPlace
    /\ pc = "record" => staging = Import(source)
    /\ pc \in {"setAside", "cutover"} => staging = Import(source) /\ staged = source
    /\ pc \in {"restore", "cutover", "putBack"} => Replaced(None)
    /\ pc = "finalize" => Replaced(Import(source)) /\ staged = source
    /\ pc = "undoReceipt" => target \in Imports /\ backup = Bundled
    /\ pc \in {"undoStaged", "rollback"} => Unreceipted
    /\ pc = "putBack" => failed \in Imports
    /\ pc = "discard" => InPlace
    /\ pc \in {"complete", "rmBackup"} => receipt # 0

IInv == TypeOK /\ Transaction /\ Progress
-----------------------------------------------------------------------------
\* The trees are pairwise different, and an import knows its source.
LEMMA Trees ==
    /\ None # Bundled /\ None # Partial /\ Bundled # Partial
    /\ \A v : Import(v) # None /\ Import(v) # Bundled /\ Import(v) # Partial
    /\ \A v : Import(v).of = v
  BY DEF None, Bundled, Partial, Import

\* The invariant holds before the first import.
LEMMA InitIInv == Init => IInv
  BY DEF Init, IInv, TypeOK, Transaction, Progress, InPlace, Imports, Pcs

\* Every step of the transaction, finished or stopped, keeps the invariant.
LEMMA NextIInv == IInv /\ [Next]_vars => IInv'
<1> SUFFICES ASSUME IInv, [Next]_vars PROVE IInv'
  OBVIOUS
<1> USE Trees DEF IInv, TypeOK, Transaction, Progress, InPlace, Replaced,
                  Unreceipted, Imports, Pcs
<1>1. CASE SourceRuns
  BY <1>1 DEF SourceRuns, disk
<1>2. CASE Start
  BY <1>2 DEF Start, disk
<1>3. CASE Recover
  BY <1>3 DEF Recover, Goto, disk
<1>4. CASE Complete
  BY <1>4 DEF Complete, Goto, disk
<1>5. CASE Restore
  BY <1>5 DEF Restore, Goto, Stopped
<1>6. CASE Rollback
  BY <1>6 DEF Rollback, Goto, Stopped, OnError
<1>7. CASE PutBack
  BY <1>7 DEF PutBack, Goto, Stopped, OnError
<1>8. CASE Discard
  BY <1>8 DEF Discard, Goto, Stopped, OnError
<1>9. CASE RemoveStaging
  BY <1>9 DEF RemoveStaging, Removed, Goto, Stopped
<1>10. CASE RemoveStaged
  BY <1>10 DEF RemoveStaged, Goto, Stopped
<1>11. CASE Check
  BY <1>11 DEF Check, Goto, disk
<1>12. CASE CopyToStaging
  BY <1>12 DEF CopyToStaging, Goto, Stopped, OnError
<1>13. CASE Record
  BY <1>13 DEF Record, Goto, Stopped, OnError
<1>14. CASE SetAside
  BY <1>14 DEF SetAside, Goto, Stopped, OnError
<1>15. CASE Cutover
  BY <1>15 DEF Cutover, Goto, Stopped, OnError
<1>16. CASE Finalize
  BY <1>16 DEF Finalize, Goto, Stopped, OnError
<1>17. CASE UndoReceipt
  BY <1>17 DEF UndoReceipt, Goto, Stopped, OnError
<1>18. CASE UndoStaged
  BY <1>18 DEF UndoStaged, Goto, Stopped, OnError
<1>19. CASE RemoveBackup
  BY <1>19 DEF RemoveBackup, Removed, Goto, Stopped, OnError
<1>20. CASE Cleanup
  BY <1>20 DEF Cleanup, Removed, Goto, Stopped
<1>21. CASE UNCHANGED vars
  BY <1>21 DEF vars, disk
<1> QED
  BY <1>1, <1>2, <1>3, <1>4, <1>5, <1>6, <1>7, <1>8, <1>9, <1>10, <1>11, <1>12,
     <1>13, <1>14, <1>15, <1>16, <1>17, <1>18, <1>19, <1>20, <1>21
     DEF Next, MigrateRuntime

\* The invariant holds in every reachable state.
LEMMA Invariance == Spec => []IInv
  BY InitIInv, NextIInv, PTL DEF Spec

-----------------------------------------------------------------------------
\* Each directory only ever holds the trees migration.rs means it to hold;
\* the runtime home never holds a tree copied or removed in part.
THEOREM TypeCorrect == Spec => []TypeOK
<1>1. IInv => TypeOK
  BY DEF IInv
<1> QED
  BY <1>1, Invariance, PTL

\* However often the import fails or dies, the bundled runtime is whole until
\* the receipt of an import is in place.
THEOREM BundleNeverLost == Spec => []BundleSurvives
<1>1. IInv => BundleSurvives
  BY DEF IInv, Transaction, InPlace, Replaced, Unreceipted, BundleSurvives
<1> QED
  BY <1>1, Invariance, PTL

\* A receipt that exists describes the complete import in the runtime home.
THEOREM ReceiptsVouch == Spec => []ReceiptVouches
<1>1. IInv => ReceiptVouches
  BY Trees DEF IInv, Transaction, InPlace, Replaced, Unreceipted, ReceiptVouches
<1> QED
  BY <1>1, Invariance, PTL

\* No run commits what an earlier run copied: a new receipt describes the
\* source as it is while its lock is held.
THEOREM CommitsAreCurrent == Spec => CommitsCurrentSource
<1>1. IInv /\ [Next]_vars => [receipt' \in {0, receipt, source}]_vars
  <2> SUFFICES ASSUME IInv, Next PROVE receipt' \in {0, receipt, source}
    BY DEF vars
  <2>1. CASE Finalize
    BY <2>1 DEF IInv, Progress, Finalize
  <2>2. CASE UndoReceipt
    BY <2>2 DEF UndoReceipt
  <2>3. CASE ~Finalize /\ ~UndoReceipt
    <3>1. UNCHANGED receipt
      BY <2>3 DEF Next, MigrateRuntime, disk, SourceRuns, Start, Recover, Complete,
         Restore, Rollback, PutBack, Discard, RemoveStaging, RemoveStaged, Check,
         CopyToStaging, Record, SetAside, Cutover, UndoStaged, RemoveBackup, Cleanup
    <3> QED
      BY <3>1
  <2> QED
    BY <2>1, <2>2, <2>3
<1> QED
  BY <1>1, Invariance, PTL DEF Spec, CommitsCurrentSource
==============================================================================
