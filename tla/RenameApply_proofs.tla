------------------------ MODULE RenameApply_proofs ------------------------
(***************************************************************************)
(* Proofs about RenameApply, for every batch size and every bound: types,  *)
(* and that the journal is truthful.                                       *)
(***************************************************************************)
EXTENDS RenameApplyInductive, TLAPS

Steps == ApplyStep \cup ReconcileStep \cup UndoStep

\* The part of TypeInv that control flow touches; files and catalogue apart.
RunOK ==
  /\ disk \in Journal /\ mem \in Journal
  /\ op \in Operation
  /\ pc \in Steps \cup {"idle"}
  /\ cur \in 0..N+1
  /\ held \in BOOLEAN /\ uses \in 0..MaxReviewUses
  /\ faults \in 0..MaxFaults /\ externals \in 0..MaxExternal
  /\ crashes \in 0..MaxCrashes
  /\ touched \subseteq Entry
  /\ (op = "none") <=> (pc = "idle")
  /\ op = "none" => cur = 0 /\ mem = Blank
  /\ CursorFits(pc, cur)

FilesOK ==
  /\ src \in [Entry -> Content] /\ dst \in [Entry -> Content]
  /\ unsynced \in [Entry -> {"no", "forward", "back"}]
  /\ cat \in [Entry -> {"src", "dst"}]

LEMMA TypeInvSplit == TypeInv <=> FilesOK /\ RunOK
BY Zenon DEF TypeInv, TypeOK, FilesOK, RunOK, Steps

LEMMA BlankJournal == Blank \in Journal
BY DEF Blank, Journal, TransactionState, EntryState

LEMMA JournalUpdates ==
  ASSUME NEW rec \in Journal
  PROVE  /\ \A tx \in TransactionState : [rec EXCEPT !.tx = tx] \in Journal
         /\ \A tx \in TransactionState, i, s \in EntryState :
              [tx |-> tx, st |-> [rec.st EXCEPT ![i] = s]] \in Journal
BY DEF Journal

\* A failed write, like every return, leaves a well-formed idle process.
LEMMA WriteFailsRun ==
  ASSUME BoundsAssumption, RunOK, NEW rec \in Journal, JournalWriteFails(rec),
         UNCHANGED <<uses, envVars>>
  PROVE  RunOK'
BY BlankJournal, NAssumption
   DEF RunOK, JournalWriteFails, Fault, ReturnErr, Return, envVars, Operation,
       CursorFits, EntryStep, BeforeRename, AfterRename, Restoring, BeforeReverse,
       AfterReverse, BoundsAssumption, NAssumption

LEMMA CheckpointRun ==
  ASSUME BoundsAssumption, RunOK, pc # "idle",
         NEW rec \in Journal, NEW next \in Steps, NEW k \in 0..N+1,
         CursorFits(next, k), Checkpoint(rec, next, k)
  PROVE  RunOK'
BY WriteFailsRun DEF RunOK, Checkpoint, NoFault, envVars, Steps, ApplyStep,
       ReconcileStep, UndoStep, CursorFits

LEMMA CloseRun ==
  ASSUME BoundsAssumption, RunOK, NEW rec \in Journal, Close(rec)
  PROVE  RunOK'
<1>1. ASSUME disk' = rec, ReturnOk, UNCHANGED <<uses, envVars>> PROVE RunOK'
  BY <1>1, BlankJournal, NAssumption
     DEF RunOK, ReturnOk, Return, NoFault, envVars, Operation,
         CursorFits, EntryStep, BeforeRename, AfterRename, Restoring, BeforeReverse,
         AfterReverse, NAssumption
<1> QED BY <1>1, WriteFailsRun DEF Close

LEMMA GotoRun ==
  ASSUME RunOK, pc # "idle", NEW next \in Steps, NEW k \in 0..N+1,
         CursorFits(next, k), Goto(next, k),
         mem' \in Journal, faults' \in 0..MaxFaults
  PROVE  RunOK'
BY DEF RunOK, Goto, envVars, Steps, ApplyStep, ReconcileStep, UndoStep, CursorFits

LEMMA CatalogueRefusesRun ==
  ASSUME BoundsAssumption, RunOK, NEW i, NEW place, CatalogueRefuses(i, place)
  PROVE  RunOK'
<1>1. faults' \in 0..MaxFaults
  BY DEF CatalogueRefuses, Fault, NoFault, RunOK, BoundsAssumption
<1> QED
  BY <1>1, BlankJournal, NAssumption
     DEF CatalogueRefuses, RunOK, ReturnErr, Return, envVars, Operation,
         CursorFits, EntryStep, BeforeRename, AfterRename, Restoring, BeforeReverse,
         AfterReverse, NAssumption

LEMMA CatalogueCommitRun ==
  ASSUME BoundsAssumption, RunOK, pc # "idle", cur \in Entry,
         NEW place \in {"src", "dst"}, NEW next \in {"record", "undoRecord"},
         CatalogueCommit(cur, place, next)
  PROVE  RunOK'
<1>1. ASSUME Goto(next, cur), UNCHANGED <<mem, faults>> PROVE RunOK'
  <2>1. next \in Steps /\ CursorFits(next, cur) /\ cur \in 0..N+1
    BY NAssumption DEF Steps, ApplyStep, UndoStep, CursorFits, Entry, NAssumption
  <2> QED BY <1>1, <2>1, GotoRun DEF RunOK
<1>2. ASSUME Fault, ReturnErr, UNCHANGED <<disk, uses, envVars>> PROVE RunOK'
  BY <1>2, BlankJournal, NAssumption
     DEF RunOK, Fault, ReturnErr, Return, envVars, Operation, BoundsAssumption,
         CursorFits, EntryStep, BeforeRename, AfterRename, Restoring, BeforeReverse,
         AfterReverse, NAssumption
<1> QED BY <1>1, <1>2 DEF CatalogueCommit

\* An entry's new state and the record a step writes are well formed.
LEMMA SetEntryJournal ==
  ASSUME RunOK, NEW tx \in TransactionState \cup {mem.tx}, NEW i,
         NEW s \in EntryState
  PROVE  SetEntry(tx, i, s) \in Journal
BY DEF SetEntry, RunOK, Journal

LEMMA FailEntryRun ==
  ASSUME BoundsAssumption, RunOK, pc # "idle", NEW s \in EntryState, FailEntry(s)
  PROVE  RunOK'
<1>1. SetEntry("ApplyFailed", cur, s) \in Journal
  BY SetEntryJournal DEF TransactionState
<1>2. "finish" \in Steps /\ CursorFits("finish", cur) /\ cur \in 0..N+1
  BY DEF Steps, ApplyStep, CursorFits, EntryStep, BeforeRename, AfterRename, Restoring,
         BeforeReverse, AfterReverse, RunOK
<1> QED BY <1>1, <1>2, CheckpointRun DEF FailEntry

LEMMA RefuseUndoRun ==
  ASSUME BoundsAssumption, RunOK, pc # "idle", cur \in Entry, RefuseUndo
  PROVE  RunOK'
<1>1. SetEntry(mem.tx, cur, "RollbackFailed") \in Journal
  BY SetEntryJournal DEF EntryState
<1>2. "undoEntry" \in Steps /\ CursorFits("undoEntry", cur - 1) /\ cur - 1 \in 0..N+1
  BY NAssumption DEF Steps, UndoStep, CursorFits, EntryStep, BeforeRename, AfterRename,
         Restoring, BeforeReverse, AfterReverse, Entry, NAssumption
<1> QED BY <1>1, <1>2, CheckpointRun DEF RefuseUndo

LEMMA StopInFlightRun ==
  ASSUME BoundsAssumption, RunOK, pc # "idle", StopInFlight
  PROVE  RunOK'
<1>1. SetEntry(mem.tx, cur, "RollingBack") \in Journal
  BY SetEntryJournal DEF EntryState
<1>2. "undoFinish" \in Steps /\ CursorFits("undoFinish", 0) /\ 0 \in 0..N+1
  BY NAssumption DEF Steps, UndoStep, CursorFits, EntryStep, BeforeRename, AfterRename,
         Restoring, BeforeReverse, AfterReverse, Entry, NAssumption
<1> QED BY <1>1, <1>2, CheckpointRun DEF StopInFlight

\* What fits every step that is bound to no entry.
LEMMA FreeSteps ==
  ASSUME NEW step \in {"journal", "commence", "finish", "undoStart", "undoFinish"},
         NEW k
  PROVE  step \in Steps /\ CursorFits(step, k)
BY DEF Steps, ApplyStep, UndoStep, CursorFits, EntryStep, BeforeRename, AfterRename,
       Restoring, BeforeReverse, AfterReverse

LEMMA EntrySteps ==
  ASSUME NEW step \in EntryStep, NEW k \in Entry
  PROVE  step \in Steps /\ CursorFits(step, k) /\ k \in 0..N+1
BY NAssumption DEF Steps, ApplyStep, UndoStep, CursorFits, EntryStep, BeforeRename,
       AfterRename, Restoring, BeforeReverse, AfterReverse, Entry, NAssumption

LEMMA LoopSteps ==
  /\ \A k \in 1..N+1 : CursorFits("entry", k) /\ CursorFits("reconcile", k)
  /\ \A k \in 0..N : CursorFits("undoEntry", k)
  /\ {"entry", "reconcile", "undoEntry"} \subseteq Steps
  /\ 1 \in 1..N+1 /\ N \in 0..N /\ 0 \in 0..N+1
  /\ \A k \in Entry : k + 1 \in 1..N+1 /\ k - 1 \in 0..N
  /\ 1..N+1 \subseteq 0..N+1 /\ 0..N \subseteq 0..N+1
  /\ "apply" \in Operation /\ "reconcile" \in Operation /\ "undo" \in Operation
BY NAssumption DEF Steps, ApplyStep, ReconcileStep, UndoStep, CursorFits, EntryStep,
       BeforeRename, AfterRename, Restoring, BeforeReverse, AfterReverse, Entry,
       NAssumption, Operation

LEMMA ApplyRun ==
  ASSUME BoundsAssumption, RunOK, ApplyNext
  PROVE  RunOK'
<1> USE BoundsAssumption
<1>0. /\ pc \in EntryStep => cur \in Entry
      /\ "reprove" \in EntryStep /\ "bindFailed" \in EntryStep /\ "rename" \in EntryStep
      /\ "confirm" \in EntryStep /\ "restore" \in EntryStep
      /\ "restoreSync" \in EntryStep /\ "sync" \in EntryStep
      /\ "inFlight" \in EntryStep /\ "commit" \in EntryStep /\ "record" \in EntryStep
  BY DEF RunOK, CursorFits, EntryStep, BeforeRename, AfterRename, Restoring
<1>1. CASE JournalBatch
  BY <1>1, FreeSteps, LoopSteps, CheckpointRun DEF JournalBatch, RunOK
<1>2. CASE Commence
  <2>1. /\ [mem EXCEPT !.tx = "ApplyFailed"] \in Journal
        /\ [mem EXCEPT !.tx = "Applying"] \in Journal
    BY JournalUpdates DEF RunOK, TransactionState
  <2>2. pc # "idle"
    BY <1>2 DEF Commence
  <2>3. "entry" \in Steps /\ CursorFits("entry", 1) /\ 1 \in 0..N+1
    BY LoopSteps
  <2>4. CASE Close([mem EXCEPT !.tx = "ApplyFailed"])
    BY <2>1, <2>4, CloseRun
  <2>5. CASE Checkpoint([mem EXCEPT !.tx = "Applying"], "entry", 1)
    BY <2>1, <2>2, <2>3, <2>5, CheckpointRun
  <2> QED BY <1>2, <2>4, <2>5 DEF Commence
<1>3. CASE CancelApply
  BY <1>3, JournalUpdates, CloseRun DEF CancelApply, RunOK, TransactionState
<1>4. CASE SkipEntry
  BY <1>4, LoopSteps, GotoRun DEF SkipEntry, RunOK
<1>5. CASE RefuseEntry
  BY <1>5, FailEntryRun DEF RefuseEntry, EntryState
<1>6. CASE CheckpointApplying
  <2>1. SetEntry(mem.tx, cur, "Applying") \in Journal
    BY SetEntryJournal DEF EntryState
  <2> QED
    BY <1>6, <1>0, <2>1, EntrySteps, CheckpointRun, CatalogueRefusesRun
       DEF CheckpointApplying
<1>7. CASE ReproveSource
  <2>1. CASE Goto("rename", cur) /\ UNCHANGED <<mem, faults>>
    BY <1>7, <2>1, <1>0, EntrySteps, GotoRun DEF ReproveSource, RunOK
  <2>2. CASE FailEntry("ApplyFailed")
    BY <1>7, <2>2, FailEntryRun DEF ReproveSource, EntryState
  <2>3. CASE Fault /\ Goto("bindFailed", cur) /\ UNCHANGED mem
    <3>1. faults' \in 0..MaxFaults
      BY <2>3 DEF Fault, RunOK, BoundsAssumption
    <3> QED BY <1>7, <2>3, <3>1, <1>0, EntrySteps, GotoRun DEF ReproveSource, RunOK
  <2> QED BY <1>7, <2>1, <2>2, <2>3 DEF ReproveSource
<1>8. CASE RefuseUnbound
  BY <1>8, FailEntryRun DEF RefuseUnbound, EntryState
<1>9. CASE RenameForward
  BY <1>9, <1>0, EntrySteps, GotoRun, FailEntryRun DEF RenameForward, RunOK, EntryState
<1>10. CASE ConfirmRename
  BY <1>10, <1>0, EntrySteps, GotoRun, FailEntryRun DEF ConfirmRename, RunOK, EntryState
<1>11. CASE RestoreForeign
  BY <1>11, <1>0, EntrySteps, GotoRun, FailEntryRun DEF RestoreForeign, RunOK, EntryState
<1>12. ASSUME pc \in EntryStep, SyncFails("inFlight") PROVE RunOK'
  <2>1. faults' \in 0..MaxFaults
    BY <1>12 DEF SyncFails, Fault, RunOK, BoundsAssumption
  <2> QED BY <1>12, <2>1, <1>0, EntrySteps, GotoRun DEF SyncFails, RunOK, EntryStep,
             BeforeRename, AfterRename, Restoring, BeforeReverse, AfterReverse
<1>13. CASE RestoreSync
  BY <1>12, <1>13, <1>0, FailEntryRun DEF RestoreSync, EntryState
<1>14. CASE SyncForward
  BY <1>12, <1>14, <1>0, EntrySteps, GotoRun DEF SyncForward, RunOK
<1>15. CASE LeaveInFlight
  BY <1>15, FailEntryRun DEF LeaveInFlight, EntryState
<1>16. CASE CommitForward
  BY <1>16, <1>0, CatalogueCommitRun DEF CommitForward
<1>17. CASE RecordApplied
  <2>1. SetEntry(mem.tx, cur, "Applied") \in Journal
    BY SetEntryJournal DEF EntryState
  <2> QED BY <1>17, <1>0, <2>1, LoopSteps, CheckpointRun DEF RecordApplied
<1>18. CASE FinishApply
  <2>1. [mem EXCEPT !.tx = IF @ = "Applying" THEN "Applied" ELSE @] \in Journal
    BY DEF RunOK, Journal, TransactionState
  <2> QED BY <1>18, <2>1, CloseRun DEF FinishApply
<1> QED
  BY <1>1, <1>2, <1>3, <1>4, <1>5, <1>6, <1>7, <1>8, <1>9, <1>10, <1>11, <1>13, <1>14,
     <1>15, <1>16, <1>17, <1>18 DEF ApplyNext

LEMMA ReconcileRun ==
  ASSUME BoundsAssumption, RunOK, ReconcileNext
  PROVE  RunOK'
<1> USE BoundsAssumption
<1>1. CASE PassSettledEntry
  BY <1>1, LoopSteps, GotoRun DEF PassSettledEntry, RunOK
<1>2. CASE ReconcileEntry
  <2>1. mem' \in Journal
    <3>1. Reconciled(mem.st[cur], Classify(cur)) \in EntryState
      BY DEF Reconciled, EntryState
    <3>2. SetEntry(mem.tx, cur, Reconciled(mem.st[cur], Classify(cur))) \in Journal
      BY <3>1, SetEntryJournal
    <3> QED BY <1>2, <3>2 DEF ReconcileEntry, RunOK
  <2>2. faults' \in 0..MaxFaults
    BY <1>2 DEF ReconcileEntry, RunOK, Fault, NoFault, BoundsAssumption
  <2>3. pc # "idle" /\ cur \in Entry /\ Goto("reconcile", cur + 1)
    BY <1>2 DEF ReconcileEntry
  <2> QED BY <2>1, <2>2, <2>3, LoopSteps, GotoRun
<1>3. CASE Publish
  <2>1. Promote(mem) \in Journal
    BY DEF Promote, RunOK, Journal, TransactionState
  <2>2. ASSUME ReturnOk, UNCHANGED <<disk, uses, envVars>> PROVE RunOK'
    BY <2>2, BlankJournal, NAssumption
       DEF RunOK, ReturnOk, Return, NoFault, envVars, Operation, CursorFits, EntryStep,
           BeforeRename, AfterRename, Restoring, BeforeReverse, AfterReverse, NAssumption
  <2> QED
    BY <1>3, <2>1, <2>2, LoopSteps, FreeSteps, GotoRun, CheckpointRun, CloseRun
       DEF Publish, RunOK
<1> QED BY <1>1, <1>2, <1>3 DEF ReconcileNext

LEMMA UndoRun ==
  ASSUME BoundsAssumption, RunOK, UndoNext
  PROVE  RunOK'
<1> USE BoundsAssumption
<1>0. /\ pc \in EntryStep => cur \in Entry
      /\ "undoProve" \in EntryStep /\ "undoBindFailed" \in EntryStep
      /\ "undoRename" \in EntryStep /\ "undoConfirm" \in EntryStep
      /\ "undoSync" \in EntryStep /\ "undoStop" \in EntryStep
      /\ "undoCommit" \in EntryStep /\ "undoRecord" \in EntryStep
  BY DEF RunOK, CursorFits, EntryStep, BeforeReverse, AfterReverse
<1>1. CASE BeginUndo
  <2>1. \A tx \in TransactionState : [mem EXCEPT !.tx = tx] \in Journal
    BY JournalUpdates DEF RunOK
  <2>2. CASE Close([mem EXCEPT !.tx = "RollbackFailed"])
    BY <2>1, <2>2, CloseRun DEF TransactionState
  <2>3. CASE Checkpoint([mem EXCEPT !.tx = "RollingBack"], "undoEntry", N)
    <3>1. pc # "idle"
      BY <1>1 DEF BeginUndo
    <3> QED BY <2>1, <2>3, <3>1, LoopSteps, CheckpointRun DEF TransactionState
  <2> QED BY <1>1, <2>2, <2>3 DEF BeginUndo
<1>2. CASE CancelUndo
  BY <1>2, FreeSteps, LoopSteps, GotoRun DEF CancelUndo, RunOK
<1>3. CASE PassUndoEntry
  BY <1>3, LoopSteps, GotoRun DEF PassUndoEntry, RunOK
<1>4. CASE CheckpointRollingBack
  <2>1. SetEntry(mem.tx, cur, "RollingBack") \in Journal
    BY SetEntryJournal DEF EntryState
  <2> QED
    BY <1>4, <1>0, <2>1, EntrySteps, CheckpointRun, CatalogueRefusesRun
       DEF CheckpointRollingBack
<1>5. CASE ProveUndo
  <2>1. CASE Fault /\ Goto("undoBindFailed", cur) /\ UNCHANGED mem
    <3>1. faults' \in 0..MaxFaults
      BY <2>1 DEF Fault, RunOK, BoundsAssumption
    <3> QED BY <1>5, <2>1, <3>1, <1>0, EntrySteps, GotoRun DEF ProveUndo, RunOK
  <2>2. CASE RefuseUndo
    BY <1>5, <1>0, <2>2, RefuseUndoRun DEF ProveUndo
  <2>3. CASE Goto("undoRename", cur) /\ UNCHANGED <<mem, faults>>
    BY <1>5, <2>3, <1>0, EntrySteps, GotoRun DEF ProveUndo, RunOK
  <2> QED BY <1>5, <2>1, <2>2, <2>3 DEF ProveUndo
<1>6. CASE RefuseUnboundUndo
  BY <1>6, <1>0, RefuseUndoRun DEF RefuseUnboundUndo
<1>7. CASE RenameBack
  BY <1>7, <1>0, EntrySteps, GotoRun, RefuseUndoRun DEF RenameBack, RunOK
<1>8. CASE ConfirmUndo
  BY <1>8, <1>0, EntrySteps, GotoRun, StopInFlightRun DEF ConfirmUndo, RunOK
<1>9. CASE SyncBack
  <2>1. CASE Synced(cur) /\ Goto("undoCommit", cur) /\ UNCHANGED <<mem, faults>>
    BY <1>9, <2>1, <1>0, EntrySteps, GotoRun DEF SyncBack, RunOK
  <2>2. CASE SyncFails("undoStop")
    <3>1. faults' \in 0..MaxFaults
      BY <2>2 DEF SyncFails, Fault, RunOK, BoundsAssumption
    <3> QED BY <1>9, <2>2, <3>1, <1>0, EntrySteps, GotoRun DEF SyncBack, SyncFails, RunOK
  <2> QED BY <1>9, <2>1, <2>2 DEF SyncBack
<1>10. CASE LeaveUndoInFlight
  BY <1>10, StopInFlightRun DEF LeaveUndoInFlight
<1>11. CASE CommitBack
  BY <1>11, <1>0, CatalogueCommitRun DEF CommitBack
<1>12. CASE RecordRolledBack
  <2>1. SetEntry(mem.tx, cur, "RolledBack") \in Journal
    BY SetEntryJournal DEF EntryState
  <2> QED BY <1>12, <1>0, <2>1, LoopSteps, CheckpointRun DEF RecordRolledBack
<1>13. CASE FinishUndo
  <2>1. \A tx \in TransactionState : [mem EXCEPT !.tx = tx] \in Journal
    BY JournalUpdates DEF RunOK
  <2> QED BY <1>13, <2>1, CloseRun DEF FinishUndo, TransactionState
<1> QED
  BY <1>1, <1>2, <1>3, <1>4, <1>5, <1>6, <1>7, <1>8, <1>9, <1>10, <1>11, <1>12, <1>13
     DEF UndoNext

LEMMA OutsideRun ==
  ASSUME BoundsAssumption, RunOK, StartReconcile \/ UserNext \/ EnvironmentNext
  PROVE  RunOK'
<1> USE BoundsAssumption
<1>1. ASSUME NEW mode \in {"AbortAll", "SkipUnsafeSubset"}, StartApply(mode) PROVE RunOK'
  <2>1. mem' \in Journal
    BY <1>1 DEF StartApply, Journal, TransactionState, EntryState
  <2>2. uses' \in 0..MaxReviewUses
    BY <1>1 DEF StartApply, RunOK, BoundsAssumption
  <2> QED BY <1>1, <2>1, <2>2, FreeSteps, LoopSteps DEF StartApply, RunOK, envVars, Operation
<1>2. CASE StartReconcile
  BY <1>2, LoopSteps DEF StartReconcile, RunOK, reviewVars, envVars, Operation
<1>3. CASE StartUndo
  BY <1>3, LoopSteps DEF StartUndo, RunOK, reviewVars, envVars, Operation
<1>4. CASE CancelReview
  BY <1>4 DEF CancelReview, RunOK, envVars
<1>5. ASSUME NEW i \in Entry, ExternalChange(i) PROVE RunOK'
  BY <1>5 DEF ExternalChange, RunOK, reviewVars, BoundsAssumption
<1>6. ASSUME Stop PROVE RunOK'
  <2>1. crashes' \in 0..MaxCrashes
    BY <1>6 DEF RunOK, Stop, BoundsAssumption
  <2>3. held' \in BOOLEAN
    BY <1>6, Zenon DEF Stop
  <2>2. CursorFits("idle", 0) /\ 0 \in 0..N+1
    BY NAssumption
       DEF CursorFits, EntryStep, BeforeRename, AfterRename, Restoring, BeforeReverse,
           AfterReverse, NAssumption
  <2> QED BY <1>6, <2>1, <2>2, <2>3, BlankJournal DEF RunOK, Stop, Return, Operation
<1> QED
  BY <1>1, <1>2, <1>3, <1>4, <1>5, <1>6
     DEF UserNext, EnvironmentNext, ProcessCrash, PowerLoss

LEMMA FilesStep ==
  ASSUME FilesOK, Next
  PROVE  FilesOK'
<1>1. ASSUME UNCHANGED <<fileVars, cat>> PROVE FilesOK'
  BY <1>1 DEF FilesOK, fileVars
<1>2. ASSUME NEW i, MoveForward(i) \/ MoveBack(i), UNCHANGED cat PROVE FilesOK'
  BY <1>2 DEF FilesOK, MoveForward, MoveBack, Content
<1>3. ASSUME NEW i, Synced(i) \/ UNCHANGED unsynced, UNCHANGED <<src, dst, cat>>
      PROVE FilesOK'
  BY <1>3 DEF FilesOK, Synced
<1>4. ASSUME NEW place \in {"src", "dst"} PROVE CatalogueAt(cur, place) \in [Entry -> {"src", "dst"}]
                                          \/ ~FilesOK
  BY DEF FilesOK, CatalogueAt
<1>5. ASSUME NEW place \in {"src", "dst"}, NEW next, CatalogueCommit(cur, place, next),
             UNCHANGED fileVars
      PROVE FilesOK'
  <2>1. cat' \in [Entry -> {"src", "dst"}]
    BY <1>4, <1>5 DEF CatalogueCommit, FilesOK
  <2> QED BY <1>5, <2>1 DEF FilesOK, fileVars
<1>6. CASE ApplyNext
  <2>1. CASE CheckpointApplying
    BY <1>1, <2>1 DEF CheckpointApplying, CatalogueRefuses
  <2>2. CASE RenameForward \/ RestoreForeign
    BY <1>1, <1>2, <2>2 DEF RenameForward, RestoreForeign, fileVars
  <2>3. CASE RestoreSync \/ SyncForward
    BY <1>3, <2>3 DEF RestoreSync, SyncForward, SyncFails
  <2>4. CASE CommitForward
    BY <1>5, <2>4 DEF CommitForward
  <2> QED
    BY <1>1, <1>6, <2>1, <2>2, <2>3, <2>4
       DEF ApplyNext, JournalBatch, Commence, CancelApply, SkipEntry, RefuseEntry,
           ReproveSource, RefuseUnbound, ConfirmRename, LeaveInFlight, RecordApplied,
           FinishApply
<1>7. CASE ReconcileNext
  <2>1. CASE ReconcileEntry
    <3>1. cat' \in [Entry -> {"src", "dst"}]
      BY <1>4, <2>1 DEF ReconcileEntry, FilesOK, CatalogueSide
    <3>2. unsynced' \in [Entry -> {"no", "forward", "back"}]
      BY <2>1 DEF ReconcileEntry, FilesOK
    <3> QED BY <2>1, <3>1, <3>2 DEF ReconcileEntry, FilesOK
  <2> QED BY <1>1, <1>7, <2>1 DEF ReconcileNext, PassSettledEntry, Publish
<1>8. CASE UndoNext
  <2>1. CASE CheckpointRollingBack
    BY <1>1, <2>1 DEF CheckpointRollingBack, CatalogueRefuses
  <2>2. CASE RenameBack
    BY <1>1, <1>2, <2>2 DEF RenameBack, fileVars
  <2>3. CASE SyncBack
    BY <1>3, <2>3 DEF SyncBack, SyncFails
  <2>4. CASE CommitBack
    BY <1>5, <2>4 DEF CommitBack
  <2> QED
    BY <1>1, <1>8, <2>1, <2>2, <2>3, <2>4
       DEF UndoNext, BeginUndo, CancelUndo, PassUndoEntry, ProveUndo, RefuseUnboundUndo,
           ConfirmUndo, LeaveUndoInFlight, RecordRolledBack, FinishUndo
<1>9. CASE StartReconcile \/ UserNext
  BY <1>1, <1>9 DEF StartReconcile, UserNext, StartApply, StartUndo, CancelReview
<1>10. CASE EnvironmentNext
  <2>1. ASSUME NEW i \in Entry, ExternalChange(i) PROVE FilesOK'
    BY <2>1 DEF ExternalChange, FilesOK, Content
  <2>2. CASE ProcessCrash
    BY <1>1, <2>2 DEF ProcessCrash, Stop, fileVars
  <2>3. ASSUME NEW lost \in SUBSET Entry, PowerLoss(lost) PROVE FilesOK'
    BY <2>3 DEF PowerLoss, Stop, FilesOK
  <2> QED BY <1>10, <2>1, <2>2, <2>3 DEF EnvironmentNext
<1> QED BY <1>6, <1>7, <1>8, <1>9, <1>10 DEF Next, OperationNext

LEMMA TypeInit == Init => TypeInv
BY BlankJournal, NAssumption, BoundsAssumption
   DEF Init, TypeInv, TypeOK, Content, Operation, CursorFits, EntryStep, BeforeRename,
       AfterRename, Restoring, BeforeReverse, AfterReverse, NAssumption, BoundsAssumption

LEMMA TypeStep == TypeInv /\ [Next]_vars => TypeInv'
<1> SUFFICES ASSUME TypeInv, [Next]_vars PROVE TypeInv'
  OBVIOUS
<1>1. FilesOK /\ RunOK
  BY TypeInvSplit
<1>2. CASE Next
  <2>1. FilesOK'
    BY <1>1, <1>2, FilesStep
  <2>2. RunOK'
    BY <1>1, <1>2, BoundsAssumption, ApplyRun, ReconcileRun, UndoRun, OutsideRun
       DEF Next, OperationNext
  <2> QED BY <2>1, <2>2, TypeInvSplit, PTL
<1>3. CASE UNCHANGED vars
  BY <1>3 DEF vars, fileVars, reviewVars, envVars, TypeInv, TypeOK, CursorFits
<1> QED BY <1>2, <1>3

\* Type correctness: the executor, its recovery and its Undo never leave the
\* values they are defined on, and an idle process keeps no copy, whatever the
\* batch size, the faults, the crashes and the other programs.
THEOREM TypeCorrect == Spec => []TypeOK
<1>1. TypeInv => TypeOK
  BY DEF TypeInv
<1> QED BY <1>1, TypeInit, TypeStep, PTL DEF Spec

-----------------------------------------------------------------------------
(* The journal is truthful, for every batch size and every bound on faults, *)
(* crashes and other programs, when a review is applied at most once.       *)

\* Which knowledge each step demands, spelled out once.
LEMMA KnowsNothing ==
  ASSUME NEW step \in {"idle", "finish", "reconcile", "undoStart", "undoEntry", "undoFinish"},
         NEW k, NEW rec
  PROVE  StepKnows(step, k, rec) /\ step \notin EntryStep
BY DEF StepKnows, EntryStep, BeforeRename, AfterRename, Restoring, BeforeReverse, AfterReverse

LEMMA TruthfulSet ==
  ASSUME RunOK, Truthful(mem), NEW tx, NEW s,
         cur \in Entry \ touched => EntryTrue(cur, s)
  PROVE  Truthful(SetEntry(tx, cur, s))
BY DEF Truthful, SetEntry, RunOK, Journal

LEMMA TruthfulTx ==
  ASSUME NEW rec, NEW tx, Truthful(rec)
  PROVE  Truthful([rec EXCEPT !.tx = tx])
BY DEF Truthful

\* Truth is about the files, their durability and the touched entries only.
LEMMA TruthfulSame ==
  ASSUME UNCHANGED <<src, dst, unsynced, touched>>
  PROVE  /\ Truthful(disk) /\ UNCHANGED disk => Truthful(disk)'
         /\ \A rec : Truthful(rec) /\ disk' = rec => Truthful(disk)'
         /\ \A rec : Truthful(rec) /\ mem' = rec => Truthful(mem)'
         /\ \A step, k, rec :
              StepKnows(step, k, rec) /\ pc' = step /\ cur' = k /\ mem' = rec =>
                StepKnows(pc, cur, mem)'
BY DEF Truthful, EntryTrue, AtSource, AtDestination, StepKnows

LEMMA UntouchedSame ==
  ASSUME UNCHANGED touched,
         \A i \in Entry \ touched :
           src'[i] = src[i] /\ dst'[i] = dst[i] /\ unsynced'[i] = unsynced[i]
  PROVE  /\ \A rec : Truthful(rec) /\ disk' = rec => Truthful(disk)'
         /\ \A rec : Truthful(rec) /\ mem' = rec => Truthful(mem)'
BY DEF Truthful, EntryTrue, AtSource, AtDestination

\* An operation that returns leaves the journal as it is.
LEMMA IdleTruth ==
  ASSUME Return, Truthful(disk)', uses' # 0 \/ (UNCHANGED disk /\ FreshUntilApplied),
         UNCHANGED uses
  PROVE  TruthInv'
<1>1. StepKnows(pc, cur, mem)' /\ pc' \notin EntryStep
  BY KnowsNothing DEF Return, StepKnows, EntryStep, BeforeRename, AfterRename, Restoring,
       BeforeReverse, AfterReverse
<1> QED BY <1>1 DEF TruthInv, Return, Announced, FreshUntilApplied, EntryStep,
             BeforeRename, AfterRename, Restoring, BeforeReverse, AfterReverse

LEMMA WriteFailsTruth ==
  ASSUME TruthInv, pc # "idle", NEW rec, Truthful(rec), JournalWriteFails(rec),
         UNCHANGED <<fileVars, uses, envVars>>
  PROVE  TruthInv'
<1>1. Truthful(disk)'
  BY TruthfulSame DEF TruthInv, JournalWriteFails, fileVars, envVars
<1> QED BY <1>1, IdleTruth DEF TruthInv, FreshUntilApplied, JournalWriteFails, ReturnErr

LEMMA CheckpointTruth ==
  ASSUME TruthInv, pc # "idle", NEW rec, NEW next, NEW k, Truthful(rec),
         StepKnows(next, k, rec), Checkpoint(rec, next, k), UNCHANGED fileVars
  PROVE  TruthInv'
<1>1. ASSUME disk' = rec, mem' = rec, pc' = next, cur' = k, UNCHANGED <<uses, envVars>>
      PROVE  TruthInv'
  BY <1>1, TruthfulSame DEF TruthInv, fileVars, envVars, Announced, FreshUntilApplied
<1> QED BY <1>1, WriteFailsTruth DEF Checkpoint

LEMMA CloseTruth ==
  ASSUME TruthInv, pc # "idle", NEW rec, Truthful(rec), Close(rec), UNCHANGED fileVars
  PROVE  TruthInv'
<1>1. ASSUME disk' = rec, ReturnOk, UNCHANGED <<uses, envVars>> PROVE TruthInv'
  <2>1. Truthful(disk)'
    BY <1>1, TruthfulSame DEF fileVars, envVars
  <2> QED BY <1>1, <2>1, IdleTruth DEF TruthInv, FreshUntilApplied, ReturnOk
<1> QED BY <1>1, WriteFailsTruth DEF Close

LEMMA GotoTruth ==
  ASSUME TruthInv, pc # "idle", NEW next, NEW k, StepKnows(next, k, mem),
         next \in EntryStep => disk.st[k] = mem.st[k], Goto(next, k),
         UNCHANGED <<fileVars, mem>>
  PROVE  TruthInv'
BY TruthfulSame
   DEF TruthInv, Goto, fileVars, envVars, Announced, FreshUntilApplied

LEMMA CatalogueRefusesTruth ==
  ASSUME TruthInv, NEW i, NEW place, CatalogueRefuses(i, place), UNCHANGED fileVars
  PROVE  TruthInv'
<1>1. Truthful(disk)'
  BY TruthfulSame DEF TruthInv, CatalogueRefuses, fileVars, envVars
<1> QED BY <1>1, IdleTruth DEF TruthInv, CatalogueRefuses, ReturnErr

\* One entry's files change, and only in the way its in-flight state admits.
LEMMA MoveTruth ==
  ASSUME TruthInv, pc # "idle", cur \in Entry, NEW next, Goto(next, cur), UNCHANGED mem,
         \A i \in Entry \ {cur} :
           src'[i] = src[i] /\ dst'[i] = dst[i] /\ unsynced'[i] = unsynced[i],
         cur \notin touched => EntryTrue(cur, mem.st[cur])',
         disk.st[cur] = mem.st[cur], StepKnows(pc, cur, mem)'
  PROVE  TruthInv'
<1>1. UNCHANGED <<disk, touched, uses>> /\ cur' = cur /\ pc' = next
  BY DEF Goto, envVars
<1>2. Truthful(disk)'
  BY <1>1 DEF TruthInv, Truthful, EntryTrue, AtSource, AtDestination
<1>3. Truthful(mem)'
  BY <1>1 DEF TruthInv, Truthful, EntryTrue, AtSource, AtDestination
<1> QED BY <1>1, <1>2, <1>3 DEF TruthInv, Announced, FreshUntilApplied

LEMMA FailEntryTruth ==
  ASSUME RunOK, TruthInv, pc # "idle", NEW s, FailEntry(s), UNCHANGED fileVars,
         cur \in Entry \ touched => EntryTrue(cur, s)
  PROVE  TruthInv'
<1>1. Truthful(SetEntry("ApplyFailed", cur, s))
  BY TruthfulSet DEF TruthInv
<1> QED BY <1>1, KnowsNothing, CheckpointTruth DEF FailEntry

\* The states of an entry whose file has not left its source yet.
LEMMA StillHome ==
  ASSUME NEW i, NEW s \in {"Planned", "Skipped", "Applying"}, EntryTrue(i, s),
         AtSource(i) \/ s # "Applying"
  PROVE  /\ AtSource(i)
         /\ \A t \in {"Planned", "Skipped", "Applying", "ApplyFailed"} : EntryTrue(i, t)
BY DEF EntryTrue, AtSource, AtDestination, Home, Away

LEMMA ApplyBeforeTruth ==
  ASSUME RunOK, TruthInv,
         \/ JournalBatch \/ Commence \/ CancelApply \/ SkipEntry \/ RefuseEntry
         \/ CheckpointApplying \/ ReproveSource \/ RefuseUnbound
  PROVE  TruthInv'
<1>0. /\ pc # "idle" => Truthful(mem)
      /\ StepKnows(pc, cur, mem)
      /\ pc \in EntryStep => cur \in Entry /\ disk.st[cur] = mem.st[cur]
      /\ mem \in Journal
  BY DEF TruthInv, Announced, RunOK, CursorFits
<1>1. CASE JournalBatch
  <2>1. StepKnows("commence", 0, mem)
    BY <1>0, <1>1 DEF JournalBatch, StepKnows, BeforeRename, AfterRename, Restoring,
         BeforeReverse, AfterReverse
  <2> QED BY <1>0, <1>1, <2>1, CheckpointTruth DEF JournalBatch, fileVars
<1>2. CASE Commence
  <2> DEFINE rec == [mem EXCEPT !.tx = "Applying"]
  <2>1. StepKnows("entry", 1, rec)
    BY <1>0, <1>2, NAssumption
       DEF Commence, StepKnows, UntriedFrom, BeforeRename, AfterRename, Restoring, BeforeReverse,
           AfterReverse, Entry, Journal, NAssumption
  <2>2. Truthful(rec) /\ Truthful([mem EXCEPT !.tx = "ApplyFailed"])
    BY <1>0, <1>2, TruthfulTx DEF Commence
  <2>3. CASE Checkpoint(rec, "entry", 1)
    <3>1. pc # "idle" /\ UNCHANGED fileVars
      BY <1>2 DEF Commence, fileVars
    <3> HIDE DEF rec
    <3> QED BY <2>1, <2>2, <2>3, <3>1, CheckpointTruth
  <2>4. CASE Close([mem EXCEPT !.tx = "ApplyFailed"])
    BY <1>2, <2>2, <2>4, CloseTruth DEF Commence, fileVars
  <2> QED BY <1>2, <2>3, <2>4 DEF Commence
<1>3. CASE CancelApply
  BY <1>0, <1>3, TruthfulTx, CloseTruth DEF CancelApply, fileVars
<1>4. CASE SkipEntry
  <2>1. StepKnows("entry", cur + 1, mem) /\ "entry" \notin EntryStep
    BY <1>0, <1>4, NAssumption
       DEF SkipEntry, StepKnows, UntriedFrom, EntryStep, BeforeRename, AfterRename, Restoring,
           BeforeReverse, AfterReverse, Entry, NAssumption
  <2> QED BY <1>4, <2>1, GotoTruth DEF SkipEntry, fileVars
<1>5. ASSUME pc = "entry", cur \in Entry
      PROVE  mem.st[cur] \in {"Planned", "Skipped"}
  BY <1>0, <1>5, NAssumption DEF StepKnows, UntriedFrom, Entry, NAssumption
<1>6. CASE RefuseEntry
  <2>1. cur \notin touched => FALSE
    BY <1>0, <1>5, <1>6, StillHome DEF RefuseEntry, PreflightOK, AtSource, Truthful
  <2> QED BY <1>6, <2>1, FailEntryTruth DEF RefuseEntry, fileVars
<1>7. CASE CheckpointApplying
  <2>1. pc # "idle" /\ cur \in Entry /\ AtSource(cur) /\ UNCHANGED fileVars
    BY <1>7 DEF CheckpointApplying, PreflightOK, AtSource, fileVars
  <2>2. Truthful(SetEntry(mem.tx, cur, "Applying"))
    <3>1. cur \notin touched => EntryTrue(cur, "Applying")
      BY <1>0, <1>5, <1>7, <2>1, StillHome DEF CheckpointApplying, Truthful
    <3> QED BY <1>0, <2>1, <3>1, TruthfulSet
  <2>4. UntriedFrom(cur + 1, SetEntry(mem.tx, cur, "Applying"))
    BY <1>0, <1>7, <2>1, NAssumption
       DEF CheckpointApplying, StepKnows, UntriedFrom, SetEntry, Journal, Entry, NAssumption
  <2>3. StepKnows("reprove", cur, SetEntry(mem.tx, cur, "Applying"))
    BY <1>0, <2>1, <2>4 DEF StepKnows, SetEntry, Journal, BeforeRename, AfterRename, Restoring,
         BeforeReverse, AfterReverse
  <2> QED
    BY <1>7, <2>1, <2>2, <2>3, CheckpointTruth, CatalogueRefusesTruth
       DEF CheckpointApplying
<1>8. ASSUME pc \in BeforeRename
      PROVE  /\ pc # "idle" /\ cur \in Entry
             /\ cur \notin touched => AtSource(cur) /\ EntryTrue(cur, "ApplyFailed")
             /\ StepKnows("rename", cur, mem) /\ StepKnows("bindFailed", cur, mem)
  <2>1. /\ pc # "idle" /\ pc \in EntryStep
        /\ mem.st[cur] = "Applying" /\ (cur \notin touched => AtSource(cur))
        /\ UntriedFrom(cur + 1, mem)
    BY <1>0, <1>8 DEF StepKnows, EntryStep, BeforeRename
  <2>2. cur \notin touched => EntryTrue(cur, "ApplyFailed")
    BY <1>0, <2>1, StillHome DEF Truthful
  <2> QED
    BY <1>0, <2>1, <2>2 DEF StepKnows, BeforeRename, AfterRename, Restoring, BeforeReverse,
         AfterReverse
<1>9. CASE ReproveSource
  <2>1. pc \in BeforeRename /\ UNCHANGED fileVars /\ pc \in EntryStep
    BY <1>9 DEF ReproveSource, BeforeRename, EntryStep, fileVars
  <2>2. CASE Goto("rename", cur) /\ UNCHANGED mem
    BY <1>0, <1>8, <2>1, <2>2, GotoTruth
  <2>3. CASE FailEntry("ApplyFailed")
    BY <1>8, <2>1, <2>3, FailEntryTruth
  <2>4. CASE Goto("bindFailed", cur) /\ UNCHANGED mem
    BY <1>0, <1>8, <2>1, <2>4, GotoTruth
  <2> QED BY <1>9, <2>2, <2>3, <2>4 DEF ReproveSource
<1>10. CASE RefuseUnbound
  BY <1>8, <1>10, FailEntryTruth DEF RefuseUnbound, BeforeRename, fileVars
<1> QED BY <1>1, <1>2, <1>3, <1>4, <1>6, <1>7, <1>9, <1>10

\* What a running operation knows of its entry, before and after a move.
LEMMA InFlightFacts ==
  ASSUME RunOK, TruthInv, pc \in EntryStep
  PROVE  /\ pc # "idle" /\ cur \in Entry /\ disk.st[cur] = mem.st[cur]
         /\ cur \notin touched => EntryTrue(cur, mem.st[cur])
         /\ pc \in BeforeRename \cup AfterRename \cup Restoring => mem.st[cur] = "Applying"
         /\ pc \in BeforeRename \cup AfterRename \cup Restoring => UntriedFrom(cur + 1, mem)
         /\ pc \in BeforeReverse \cup AfterReverse => mem.st[cur] = "RollingBack"
         /\ cur \notin touched =>
              /\ pc \in BeforeRename \cup AfterReverse => AtSource(cur)
              /\ pc \in AfterRename \cup BeforeReverse => AtDestination(cur)
              /\ pc \notin Restoring
              /\ pc \in {"commit", "record", "undoCommit", "undoRecord"} =>
                   unsynced[cur] = "no"
BY DEF TruthInv, Truthful, StepKnows, Announced, RunOK, CursorFits, EntryStep,
       BeforeRename, AfterRename, Restoring, BeforeReverse, AfterReverse

LEMMA ApplyAfterTruth ==
  ASSUME RunOK, FilesOK, TruthInv,
         \/ RenameForward \/ ConfirmRename \/ RestoreForeign \/ RestoreSync
         \/ SyncForward \/ LeaveInFlight \/ CommitForward \/ RecordApplied \/ FinishApply
  PROVE  TruthInv'
<1>1. CASE RenameForward
  <2>1. pc \in EntryStep /\ pc \in BeforeRename
    BY <1>1 DEF RenameForward, EntryStep, BeforeRename
  <2>2. CASE MoveForward(cur) /\ Goto("confirm", cur) /\ UNCHANGED mem
    <3>1. cur \notin touched =>
            EntryTrue(cur, mem.st[cur])' /\ AtDestination(cur)'
      BY <2>1, <2>2, InFlightFacts
         DEF MoveForward, Goto, FilesOK, EntryTrue, AtSource, AtDestination, Home, Away
    <3>2. StepKnows(pc, cur, mem)'
      BY <2>1, <2>2, <3>1, InFlightFacts
         DEF Goto, envVars, StepKnows, BeforeRename, AfterRename, Restoring, BeforeReverse,
             AfterReverse
    <3> QED
      BY <2>1, <2>2, <3>1, <3>2, InFlightFacts, MoveTruth DEF MoveForward, FilesOK
  <2>3. CASE ~RenameNoReplace(src[cur], dst[cur]) /\ FailEntry("ApplyFailed")
             /\ UNCHANGED fileVars
    BY <2>1, <2>3, InFlightFacts, FailEntryTruth DEF AtSource, RenameNoReplace
  <2> QED BY <1>1, <2>2, <2>3 DEF RenameForward
<1>2. CASE ConfirmRename
  <2>1. pc \in EntryStep /\ pc \in AfterRename /\ pc = "confirm" /\ UNCHANGED fileVars
    BY <1>2 DEF ConfirmRename, EntryStep, AfterRename, fileVars
  <2>2. StepKnows("sync", cur, mem)
    BY <2>1, InFlightFacts
       DEF StepKnows, BeforeRename, AfterRename, Restoring, BeforeReverse, AfterReverse
  <2>3. dst[cur] = "foreign" => StepKnows("restore", cur, mem)
    BY <2>1, InFlightFacts
       DEF AtDestination, StepKnows, BeforeRename, AfterRename, Restoring, BeforeReverse,
           AfterReverse
  <2>4. CASE Goto("sync", cur) /\ UNCHANGED mem
    BY <2>1, <2>2, <2>4, InFlightFacts, GotoTruth
  <2>5. CASE dst[cur] = "foreign" /\ Goto("restore", cur) /\ UNCHANGED mem
    BY <2>1, <2>3, <2>5, InFlightFacts, GotoTruth
  <2>6. CASE ~AtDestination(cur) /\ FailEntry("ApplyFailed")
    BY <2>1, <2>6, InFlightFacts, FailEntryTruth
  <2> QED BY <1>2, <2>4, <2>5, <2>6 DEF ConfirmRename, AtDestination
<1>3. CASE RestoreForeign
  <2>1. pc \in EntryStep /\ pc \in Restoring /\ pc = "restore"
    BY <1>3 DEF RestoreForeign, EntryStep, Restoring
  <2>2. CASE MoveBack(cur) /\ Goto("restoreSync", cur) /\ UNCHANGED mem
    <3>1. StepKnows(pc, cur, mem)'
      BY <2>1, <2>2, InFlightFacts
         DEF Goto, envVars, StepKnows, BeforeRename, AfterRename, Restoring, BeforeReverse,
             AfterReverse
    <3> QED BY <2>1, <2>2, <3>1, InFlightFacts, MoveTruth DEF MoveBack, FilesOK
  <2>3. CASE FailEntry("ApplyFailed") /\ UNCHANGED fileVars
    BY <2>1, <2>3, InFlightFacts, FailEntryTruth
  <2> QED BY <1>3, <2>2, <2>3 DEF RestoreForeign
<1>4. ASSUME pc \in {"sync", "restoreSync"}, SyncFails("inFlight"), UNCHANGED <<src, dst>>
      PROVE  TruthInv'
  <2>1. pc \in EntryStep /\ pc \in AfterRename \cup Restoring
    BY <1>4 DEF EntryStep, AfterRename, Restoring
  <2>2. StepKnows("inFlight", cur, mem)
    BY <2>1, InFlightFacts
       DEF StepKnows, BeforeRename, AfterRename, Restoring, BeforeReverse, AfterReverse
  <2> QED BY <1>4, <2>1, <2>2, InFlightFacts, GotoTruth DEF SyncFails, fileVars
<1>5. CASE RestoreSync
  <2> DEFINE rec == SetEntry("ApplyFailed", cur, "ApplyFailed")
  <2>1. pc \in EntryStep /\ pc \in Restoring /\ pc = "restoreSync"
    BY <1>5 DEF RestoreSync, EntryStep, Restoring
  <2>2. CASE Synced(cur) /\ FailEntry("ApplyFailed") /\ UNCHANGED <<src, dst>>
    <3>1. Truthful(rec)
      BY <2>1, InFlightFacts, TruthfulSet DEF TruthInv
    <3>2. Checkpoint(rec, "finish", cur)
      BY <2>2 DEF FailEntry
    <3> HIDE DEF rec
    <3>3. touched' = touched /\ uses' = uses
      BY <3>2 DEF Checkpoint, envVars
    <3>4. \A i \in Entry \ touched :
            src'[i] = src[i] /\ dst'[i] = dst[i] /\ unsynced'[i] = unsynced[i]
      BY <2>1, <2>2, InFlightFacts DEF Synced, FilesOK
    <3>5. uses' # 0
      BY <2>1, <3>3 DEF TruthInv, FreshUntilApplied
    <3>6. CASE JournalWriteFails(rec)
      <4>1. Truthful(disk)'
        BY <3>1, <3>3, <3>4, <3>6, UntouchedSame DEF JournalWriteFails, TruthInv
      <4>2. Return
        BY <3>6 DEF JournalWriteFails, ReturnErr
      <4> QED BY <3>3, <3>5, <4>1, <4>2, IdleTruth DEF TruthInv
    <3>7. CASE disk' = rec /\ mem' = rec /\ pc' = "finish" /\ cur' = cur
      <4>1. Truthful(disk)' /\ Truthful(mem)'
        BY <3>1, <3>3, <3>4, <3>7, UntouchedSame
      <4>2. StepKnows(pc, cur, mem)'
        BY <3>7 DEF StepKnows, BeforeRename, AfterRename, Restoring, BeforeReverse,
             AfterReverse
      <4> QED BY <3>5, <3>7, <4>1, <4>2 DEF TruthInv, Announced, FreshUntilApplied
    <3> QED BY <3>2, <3>6, <3>7 DEF Checkpoint
  <2> QED BY <1>4, <1>5, <2>1, <2>2 DEF RestoreSync
<1>6. CASE SyncForward
  <2>1. pc \in EntryStep /\ pc \in AfterRename /\ pc = "sync"
    BY <1>6 DEF SyncForward, EntryStep, AfterRename
  <2>2. CASE Synced(cur) /\ Goto("commit", cur) /\ UNCHANGED <<mem, src, dst>>
    <3>1. cur \notin touched =>
            EntryTrue(cur, mem.st[cur])' /\ AtDestination(cur)' /\ unsynced'[cur] = "no"
      BY <2>1, <2>2, InFlightFacts
         DEF Synced, Goto, FilesOK, EntryTrue, AtSource, AtDestination, Home, Away
    <3>2. StepKnows(pc, cur, mem)'
      BY <2>1, <2>2, <3>1, InFlightFacts
         DEF Goto, envVars, StepKnows, BeforeRename, AfterRename, Restoring, BeforeReverse,
             AfterReverse
    <3> QED BY <2>1, <2>2, <3>1, <3>2, InFlightFacts, MoveTruth DEF Synced, FilesOK
  <2> QED BY <1>4, <1>6, <2>1, <2>2 DEF SyncForward
<1>7. CASE LeaveInFlight
  BY <1>7, InFlightFacts, FailEntryTruth
     DEF LeaveInFlight, EntryStep, AfterRename, fileVars
<1>8. CASE CommitForward
  <2>1. pc \in EntryStep /\ pc = "commit" /\ UNCHANGED fileVars /\ pc \in AfterRename
    BY <1>8 DEF CommitForward, EntryStep, AfterRename
  <2>2. CASE Goto("record", cur) /\ UNCHANGED mem
    <3>1. StepKnows("record", cur, mem)
      BY <2>1, InFlightFacts
         DEF StepKnows, BeforeRename, AfterRename, Restoring, BeforeReverse, AfterReverse
    <3> QED BY <2>1, <2>2, <3>1, InFlightFacts, GotoTruth
  <2>3. CASE ReturnErr /\ UNCHANGED <<disk, uses, envVars>>
    BY <2>1, <2>3, TruthfulSame, IdleTruth DEF TruthInv, ReturnErr, fileVars, envVars
  <2> QED BY <1>8, <2>2, <2>3 DEF CommitForward, CatalogueCommit
<1>9. CASE RecordApplied
  <2> DEFINE rec == SetEntry(mem.tx, cur, "Applied")
  <2>1. pc \in EntryStep /\ pc = "record" /\ UNCHANGED fileVars /\ pc \in AfterRename
    BY <1>9 DEF RecordApplied, EntryStep, AfterRename, fileVars
  <2>2. Truthful(rec)
    <3>1. cur \notin touched => EntryTrue(cur, "Applied")
      BY <2>1, InFlightFacts DEF EntryTrue, AtSource, AtDestination, Away
    <3> QED BY <2>1, <3>1, InFlightFacts, TruthfulSet DEF TruthInv
  <2>3. StepKnows("entry", cur + 1, rec)
    <3>1. UntriedFrom(cur + 1, rec)
      BY <2>1, InFlightFacts, NAssumption
         DEF UntriedFrom, SetEntry, RunOK, Journal, Entry, NAssumption
    <3> QED
      BY <3>1
         DEF StepKnows, BeforeRename, AfterRename, Restoring, BeforeReverse, AfterReverse
  <2> QED BY <1>9, <2>1, <2>2, <2>3, CheckpointTruth DEF RecordApplied
<1>10. CASE FinishApply
  <2>1. pc # "idle" /\ UNCHANGED fileVars
    BY <1>10 DEF FinishApply, fileVars
  <2>2. Truthful([mem EXCEPT !.tx = IF @ = "Applying" THEN "Applied" ELSE @])
    BY <2>1 DEF TruthInv, Truthful
  <2> QED BY <1>10, <2>1, <2>2, CloseTruth DEF FinishApply
<1> QED BY <1>1, <1>2, <1>3, <1>5, <1>6, <1>7, <1>8, <1>9, <1>10

\* For an entry in flight that no other program touched, classify is decisive
\* and the state it leads to is the truth.
LEMMA ClassifyTells ==
  ASSUME NEW i, NEW s \in InFlight, EntryTrue(i, s)
  PROVE  /\ Classify(i) \in Decisive
         /\ Classify(i) = "RenameConfirmed" <=> AtDestination(i)
         /\ Classify(i) = "RenameDidNotHappen" <=> AtSource(i)
         /\ Mutated(s, Classify(i)) \/ unsynced[i] = "no"
BY DEF Classify, Decisive, EntryTrue, AtSource, AtDestination, InFlight, Mutated, Home, Away

LEMMA ReconcileTruth ==
  ASSUME RunOK, FilesOK, TruthInv, ReconcileNext
  PROVE  TruthInv'
<1>1. CASE PassSettledEntry
  BY <1>1, KnowsNothing, GotoTruth DEF PassSettledEntry, fileVars
<1>2. CASE ReconcileEntry
  <2> DEFINE kind == Classify(cur)
             state == Reconciled(mem.st[cur], kind)
  <2>1. /\ pc = "reconcile" /\ cur \in Entry /\ mem.st[cur] \in InFlight
        /\ Goto("reconcile", cur + 1) /\ UNCHANGED <<src, dst>>
    BY <1>2 DEF ReconcileEntry
  <2>2. pc' = "reconcile" /\ UNCHANGED <<disk, touched, uses>> /\ uses # 0
    BY <2>1 DEF Goto, envVars, TruthInv, FreshUntilApplied
  <2>3. \/ unsynced' = unsynced
        \/ kind \in Decisive /\ unsynced' = [unsynced EXCEPT ![cur] = "no"]
    BY <1>2 DEF ReconcileEntry
  <2>5. Truthful(disk)'
    BY <2>2, <2>3, <2>1 DEF TruthInv, Truthful, EntryTrue, AtSource, AtDestination, FilesOK
  <2>6. Truthful(mem)'
    <3>1. CASE mem' = mem
      BY <2>1, <2>2, <2>3, <3>1
         DEF TruthInv, Truthful, EntryTrue, AtSource, AtDestination, FilesOK
    <3>2. CASE /\ kind \in Decisive
               /\ unsynced' = IF Mutated(mem.st[cur], kind)
                              THEN [unsynced EXCEPT ![cur] = "no"] ELSE unsynced
               /\ mem' = SetEntry(mem.tx, cur, state)
      <4>1. \A i \in Entry : mem'.st[i] = IF i = cur THEN state ELSE mem.st[i]
        BY <3>2 DEF SetEntry, RunOK, Journal
      <4>2. cur \notin touched => EntryTrue(cur, mem.st[cur])
        BY <2>1 DEF TruthInv, Truthful
      <4>3. cur \notin touched => unsynced'[cur] = "no"
        BY <2>1, <3>2, <4>2, ClassifyTells DEF FilesOK
      <4>4. cur \notin touched =>
              \/ AtSource(cur) /\ state \in {"Skipped", "RolledBack"}
              \/ AtDestination(cur) /\ state = "Applied"
        BY <2>1, <3>2, <4>2, ClassifyTells DEF Reconciled, Decisive
      <4>5. \A i \in Entry \ touched :
              i # cur => EntryTrue(i, mem.st[i]) /\ unsynced'[i] = unsynced[i]
        BY <2>1, <2>3 DEF TruthInv, Truthful, FilesOK
      <4> HIDE DEF state, kind
      <4>6. \A i \in Entry \ touched : EntryTrue(i, mem.st[i])'
        BY <2>1, <2>2, <4>1, <4>3, <4>4, <4>5
           DEF EntryTrue, AtSource, AtDestination, Home, Away
      <4> QED BY <2>2, <4>6 DEF Truthful
    <3> QED BY <1>2, <3>1, <3>2 DEF ReconcileEntry
  <2>7. StepKnows(pc, cur, mem)'
    BY <2>2 DEF StepKnows, BeforeRename, AfterRename, Restoring, BeforeReverse, AfterReverse
  <2>8. pc' \notin EntryStep
    BY <2>2 DEF EntryStep, BeforeRename, AfterRename, Restoring, BeforeReverse, AfterReverse
  <2> QED BY <2>2, <2>5, <2>6, <2>7, <2>8 DEF TruthInv, Announced, FreshUntilApplied
<1>3. CASE Publish
  <2>1. pc # "idle" /\ UNCHANGED fileVars
    BY <1>3 DEF Publish
  <2>2. Truthful(Promote(mem))
    BY <2>1 DEF TruthInv, Truthful, Promote
  <2>3. CASE ReturnOk /\ UNCHANGED <<disk, uses, envVars>>
    BY <2>1, <2>3, TruthfulSame, IdleTruth DEF TruthInv, ReturnOk, fileVars, envVars
  <2>4. StepKnows("undoStart", 0, mem) /\ StepKnows("undoStart", 0, Promote(mem))
        /\ "undoStart" \notin EntryStep
    BY KnowsNothing
  <2> QED
    BY <1>3, <2>1, <2>2, <2>3, <2>4, GotoTruth, CheckpointTruth, CloseTruth DEF Publish
<1> QED BY <1>1, <1>2, <1>3 DEF ReconcileNext

LEMMA RefuseUndoTruth ==
  ASSUME RunOK, TruthInv, pc \in BeforeReverse, RefuseUndo, UNCHANGED fileVars
  PROVE  TruthInv'
<1>1. pc \in EntryStep
  BY DEF EntryStep
<1>2. cur \notin touched => EntryTrue(cur, "RollbackFailed")
  BY <1>1, InFlightFacts DEF EntryTrue, AtSource, AtDestination, Away
<1>3. Truthful(SetEntry(mem.tx, cur, "RollbackFailed"))
  BY <1>1, <1>2, InFlightFacts, TruthfulSet DEF TruthInv
<1> QED BY <1>1, <1>3, InFlightFacts, KnowsNothing, CheckpointTruth DEF RefuseUndo

LEMMA StopInFlightTruth ==
  ASSUME RunOK, TruthInv, pc \in AfterReverse, StopInFlight, UNCHANGED fileVars
  PROVE  TruthInv'
<1>1. pc \in EntryStep
  BY DEF EntryStep
<1>2. cur \notin touched => EntryTrue(cur, "RollingBack")
  BY <1>1, InFlightFacts
<1>3. Truthful(SetEntry(mem.tx, cur, "RollingBack"))
  BY <1>1, <1>2, InFlightFacts, TruthfulSet DEF TruthInv
<1> QED BY <1>1, <1>3, InFlightFacts, KnowsNothing, CheckpointTruth DEF StopInFlight

LEMMA UndoTruth ==
  ASSUME RunOK, FilesOK, TruthInv, UndoNext
  PROVE  TruthInv'
<1>0. ASSUME pc # "idle" PROVE \A tx : Truthful([mem EXCEPT !.tx = tx])
  BY <1>0, TruthfulTx DEF TruthInv
<1>1. CASE BeginUndo
  <2>1. pc # "idle" /\ UNCHANGED fileVars
    BY <1>1 DEF BeginUndo, fileVars
  <2> QED BY <1>0, <1>1, <2>1, KnowsNothing, CheckpointTruth, CloseTruth DEF BeginUndo
<1>2. CASE CancelUndo
  BY <1>2, KnowsNothing, GotoTruth DEF CancelUndo, fileVars
<1>3. CASE PassUndoEntry
  BY <1>3, KnowsNothing, GotoTruth DEF PassUndoEntry, fileVars
<1>4. CASE CheckpointRollingBack
  <2>1. pc # "idle" /\ cur \in Entry /\ UNCHANGED fileVars
    BY <1>4 DEF CheckpointRollingBack
  <2>2. cur \notin touched => EntryTrue(cur, "RollingBack") /\ AtDestination(cur)
    BY <1>4, <2>1
       DEF CheckpointRollingBack, Undoable, TruthInv, Truthful, EntryTrue, AtSource,
           AtDestination, Home, Away
  <2>3. Truthful(SetEntry(mem.tx, cur, "RollingBack"))
    BY <2>1, <2>2, TruthfulSet DEF TruthInv
  <2>4. StepKnows("undoProve", cur, SetEntry(mem.tx, cur, "RollingBack"))
    BY <2>1, <2>2
       DEF SetEntry, RunOK, Journal, StepKnows, BeforeRename, AfterRename, Restoring,
           BeforeReverse, AfterReverse
  <2> QED
    BY <1>4, <2>1, <2>3, <2>4, CheckpointTruth, CatalogueRefusesTruth
       DEF CheckpointRollingBack
<1>5. CASE ProveUndo
  <2>1. pc \in BeforeReverse /\ pc \in EntryStep /\ UNCHANGED fileVars
    BY <1>5 DEF ProveUndo, BeforeReverse, EntryStep, fileVars
  <2>2. StepKnows("undoRename", cur, mem) /\ StepKnows("undoBindFailed", cur, mem)
    BY <2>1, InFlightFacts
       DEF StepKnows, BeforeRename, AfterRename, Restoring, BeforeReverse, AfterReverse
  <2>3. ASSUME NEW next \in {"undoRename", "undoBindFailed"}, Goto(next, cur), UNCHANGED mem
        PROVE  TruthInv'
    BY <2>1, <2>2, <2>3, InFlightFacts, GotoTruth
  <2> QED BY <1>5, <2>1, <2>3, RefuseUndoTruth DEF ProveUndo
<1>6. CASE RefuseUnboundUndo
  BY <1>6, RefuseUndoTruth DEF RefuseUnboundUndo, BeforeReverse, fileVars
<1>7. CASE RenameBack
  <2>1. pc \in EntryStep /\ pc \in BeforeReverse
    BY <1>7 DEF RenameBack, EntryStep, BeforeReverse
  <2>2. CASE MoveBack(cur) /\ Goto("undoConfirm", cur) /\ UNCHANGED mem
    <3>1. cur \notin touched => EntryTrue(cur, mem.st[cur])' /\ AtSource(cur)'
      BY <2>1, <2>2, InFlightFacts
         DEF MoveBack, Goto, FilesOK, EntryTrue, AtSource, AtDestination, Home, Away
    <3>2. StepKnows(pc, cur, mem)'
      BY <2>1, <2>2, <3>1, InFlightFacts
         DEF Goto, envVars, StepKnows, BeforeRename, AfterRename, Restoring, BeforeReverse,
             AfterReverse
    <3> QED BY <2>1, <2>2, <3>1, <3>2, InFlightFacts, MoveTruth DEF MoveBack, FilesOK
  <2> QED BY <1>7, <2>1, <2>2, RefuseUndoTruth DEF RenameBack
<1>8. ASSUME pc \in AfterReverse, NEW next \in {"undoSync", "undoStop"}, Goto(next, cur),
             UNCHANGED <<fileVars, mem>>
      PROVE  TruthInv'
  <2>1. pc \in EntryStep
    BY <1>8 DEF EntryStep
  <2>2. StepKnows(next, cur, mem)
    BY <1>8, <2>1, InFlightFacts
       DEF StepKnows, BeforeRename, AfterRename, Restoring, BeforeReverse, AfterReverse
  <2> QED BY <1>8, <2>1, <2>2, InFlightFacts, GotoTruth
<1>9. CASE ConfirmUndo
  BY <1>8, <1>9, StopInFlightTruth DEF ConfirmUndo, AfterReverse, fileVars
<1>10. CASE SyncBack
  <2>1. pc \in EntryStep /\ pc \in AfterReverse /\ pc = "undoSync"
    BY <1>10 DEF SyncBack, EntryStep, AfterReverse
  <2>2. CASE Synced(cur) /\ Goto("undoCommit", cur) /\ UNCHANGED <<mem, src, dst>>
    <3>1. cur \notin touched =>
            EntryTrue(cur, mem.st[cur])' /\ AtSource(cur)' /\ unsynced'[cur] = "no"
      BY <2>1, <2>2, InFlightFacts
         DEF Synced, Goto, FilesOK, EntryTrue, AtSource, AtDestination, Home, Away
    <3>2. StepKnows(pc, cur, mem)'
      BY <2>1, <2>2, <3>1, InFlightFacts
         DEF Goto, envVars, StepKnows, BeforeRename, AfterRename, Restoring, BeforeReverse,
             AfterReverse
    <3> QED BY <2>1, <2>2, <3>1, <3>2, InFlightFacts, MoveTruth DEF Synced, FilesOK
  <2>3. CASE SyncFails("undoStop") /\ UNCHANGED <<src, dst>>
    BY <1>8, <2>1, <2>3 DEF SyncFails, fileVars
  <2> QED BY <1>10, <2>2, <2>3 DEF SyncBack
<1>11. CASE LeaveUndoInFlight
  BY <1>11, StopInFlightTruth DEF LeaveUndoInFlight, AfterReverse, fileVars
<1>12. CASE CommitBack
  <2>1. pc \in EntryStep /\ pc = "undoCommit" /\ UNCHANGED fileVars /\ pc \in AfterReverse
    BY <1>12 DEF CommitBack, EntryStep, AfterReverse
  <2>2. CASE Goto("undoRecord", cur) /\ UNCHANGED mem
    <3>1. StepKnows("undoRecord", cur, mem)
      BY <2>1, InFlightFacts
         DEF StepKnows, BeforeRename, AfterRename, Restoring, BeforeReverse, AfterReverse
    <3> QED BY <2>1, <2>2, <3>1, InFlightFacts, GotoTruth
  <2>3. CASE ReturnErr /\ UNCHANGED <<disk, uses, envVars>>
    BY <2>1, <2>3, TruthfulSame, IdleTruth DEF TruthInv, ReturnErr, fileVars, envVars
  <2> QED BY <1>12, <2>2, <2>3 DEF CommitBack, CatalogueCommit
<1>13. CASE RecordRolledBack
  <2> DEFINE rec == SetEntry(mem.tx, cur, "RolledBack")
  <2>1. pc \in EntryStep /\ pc = "undoRecord" /\ UNCHANGED fileVars /\ pc \in AfterReverse
    BY <1>13 DEF RecordRolledBack, EntryStep, AfterReverse, fileVars
  <2>2. Truthful(rec)
    <3>1. cur \notin touched => EntryTrue(cur, "RolledBack")
      BY <2>1, InFlightFacts DEF EntryTrue, AtSource, AtDestination, Home
    <3> QED BY <2>1, <3>1, InFlightFacts, TruthfulSet DEF TruthInv
  <2> QED BY <1>13, <2>1, <2>2, KnowsNothing, CheckpointTruth DEF RecordRolledBack
<1>14. CASE FinishUndo
  <2>1. pc # "idle" /\ UNCHANGED fileVars
    BY <1>14 DEF FinishUndo, fileVars
  <2> QED BY <1>0, <1>14, <2>1, CloseTruth DEF FinishUndo
<1> QED
  BY <1>1, <1>2, <1>3, <1>4, <1>5, <1>6, <1>7, <1>9, <1>10, <1>11, <1>12, <1>13, <1>14
     DEF UndoNext

\* A power loss forgets only what an in-flight state admits it may forget.
LEMMA OutsideTruth ==
  ASSUME MaxReviewUses \in {0, 1}, RunOK, FilesOK, TruthInv,
         StartReconcile \/ UserNext \/ EnvironmentNext
  PROVE  TruthInv'
<1>1. ASSUME NEW mode \in {"AbortAll", "SkipUnsafeSubset"}, StartApply(mode) PROVE TruthInv'
  <2>1. uses = 0 /\ uses' = 1 /\ disk = Blank
    BY <1>1 DEF StartApply, RunOK, TruthInv, FreshUntilApplied
  <2>2. \A i \in Entry : mem'.st[i] \in {"Planned", "Skipped"}
    BY <1>1 DEF StartApply
  <2>3. \A i \in Entry \ touched : EntryTrue(i, "Planned") /\ EntryTrue(i, "Skipped")
    BY <2>1, StillHome DEF TruthInv, Truthful, Blank
  <2>4. UNCHANGED <<src, dst, unsynced, touched, disk>> /\ pc' = "journal"
    BY <1>1 DEF StartApply, fileVars, envVars
  <2>5. Truthful(disk)'
    BY <2>4, TruthfulSame DEF TruthInv
  <2>6. Truthful(mem)'
    BY <2>2, <2>3, <2>4 DEF Truthful, EntryTrue, AtSource, AtDestination
  <2>7. StepKnows(pc, cur, mem)' /\ pc' \notin EntryStep
    BY <2>2, <2>4
       DEF StepKnows, EntryStep, BeforeRename, AfterRename, Restoring, BeforeReverse,
           AfterReverse
  <2> QED BY <2>1, <2>5, <2>6, <2>7 DEF TruthInv, Announced, FreshUntilApplied
<1>2. ASSUME disk # Blank, op = "none", pc' = "reconcile", mem' = disk,
             UNCHANGED <<fileVars, disk, reviewVars, envVars>>
      PROVE  TruthInv'
  <2>1. Truthful(disk)' /\ Truthful(mem)'
    BY <1>2, TruthfulSame DEF TruthInv, fileVars, envVars
  <2>2. StepKnows(pc, cur, mem)' /\ pc' \notin EntryStep
    BY <1>2
       DEF StepKnows, EntryStep, BeforeRename, AfterRename, Restoring, BeforeReverse,
           AfterReverse
  <2>3. uses' # 0
    BY <1>2 DEF TruthInv, FreshUntilApplied, reviewVars
  <2> QED BY <2>1, <2>2, <2>3 DEF TruthInv, Announced, FreshUntilApplied
<1>3. CASE StartReconcile
  <2>1. disk # Blank
    BY <1>3 DEF StartReconcile, NeedsReconciliation, InFlight, Blank
  <2> QED BY <1>2, <1>3, <2>1 DEF StartReconcile
<1>4. CASE StartUndo
  <2>1. disk # Blank
    BY <1>4 DEF StartUndo, Blank
  <2> QED BY <1>2, <1>4, <2>1 DEF StartUndo
<1>5. CASE CancelReview
  <2>1. UNCHANGED <<src, dst, unsynced, touched, disk, pc, cur, mem, uses>>
    BY <1>5 DEF CancelReview, fileVars, envVars
  <2> QED BY <2>1, TruthfulSame DEF TruthInv, Announced, FreshUntilApplied
<1>6. ASSUME NEW i \in Entry, ExternalChange(i) PROVE TruthInv'
  <2>1. /\ UNCHANGED <<unsynced, disk, pc, cur, mem, uses>>
        /\ touched' = touched \cup {i}
        /\ \A j \in Entry \ {i} : src'[j] = src[j] /\ dst'[j] = dst[j]
        /\ dst'[i] = dst[i] \/ dst'[i] # "own"
    BY <1>6 DEF ExternalChange, reviewVars, FilesOK
  <2>2. Truthful(disk)' /\ (pc # "idle" => Truthful(mem)')
    BY <2>1 DEF TruthInv, Truthful, EntryTrue, AtSource, AtDestination
  <2>3. pc \in EntryStep => cur \in Entry
    BY DEF RunOK, CursorFits
  <2>4. StepKnows(pc, cur, mem)'
    <3>1. CASE pc \notin EntryStep
      BY <2>1, <3>1
         DEF TruthInv, StepKnows, UntriedFrom, EntryStep, BeforeRename, AfterRename,
             Restoring, BeforeReverse, AfterReverse
    <3>2. CASE pc \in EntryStep
      <4>1. /\ cur \notin touched' => cur \notin touched
            /\ cur \notin touched' => src'[cur] = src[cur] /\ dst'[cur] = dst[cur]
            /\ cur \in touched => cur \in touched'
            /\ dst[cur] # "own" => dst'[cur] # "own"
        BY <2>1, <2>3, <3>2
      <4> QED
        BY <2>1, <3>2, <4>1, InFlightFacts
           DEF TruthInv, StepKnows, UntriedFrom, AtSource, AtDestination, EntryStep,
               BeforeRename, AfterRename, Restoring, BeforeReverse, AfterReverse
    <3> QED BY <3>1, <3>2
  <2> QED BY <2>1, <2>2, <2>4 DEF TruthInv, Announced, FreshUntilApplied
<1>7. CASE ProcessCrash
  <2>1. UNCHANGED <<src, dst, unsynced, touched, disk, uses>> /\ Return
    BY <1>7 DEF ProcessCrash, Stop, fileVars
  <2>2. Truthful(disk)'
    BY <2>1, TruthfulSame DEF TruthInv
  <2> QED BY <2>1, <2>2, IdleTruth DEF TruthInv
<1>8. ASSUME NEW lost \in SUBSET Entry, PowerLoss(lost) PROVE TruthInv'
  <2>1. UNCHANGED <<touched, disk, uses>> /\ Return
    BY <1>8 DEF PowerLoss, Stop
  <2>2. \A i \in Entry \ touched : EntryTrue(i, disk.st[i]) => EntryTrue(i, disk.st[i])'
    BY <1>8, <2>1
       DEF PowerLoss, Revertible, EntryTrue, AtSource, AtDestination, Home, Away
  <2>3. Truthful(disk)'
    BY <2>1, <2>2 DEF TruthInv, Truthful
  <2> QED BY <2>1, <2>3, IdleTruth DEF TruthInv
<1> QED BY <1>1, <1>3, <1>4, <1>5, <1>6, <1>7, <1>8 DEF UserNext, EnvironmentNext

LEMMA TruthInit == Init => TruthInv
BY KnowsNothing, NAssumption
   DEF Init, TruthInv, Truthful, EntryTrue, AtSource, AtDestination, Home, Blank, Announced,
       FreshUntilApplied, StepKnows, EntryStep, BeforeRename, AfterRename, Restoring,
       BeforeReverse, AfterReverse

LEMMA TruthStep ==
  ASSUME MaxReviewUses \in {0, 1}
  PROVE  IInv /\ [Next]_vars => IInv'
<1> SUFFICES ASSUME IInv, [Next]_vars PROVE IInv'
  OBVIOUS
<1>1. TypeInv /\ TruthInv /\ RunOK /\ FilesOK
  BY TypeInvSplit DEF IInv
<1>2. TypeInv'
  BY <1>1, TypeStep
<1>3. CASE ApplyNext
  BY <1>1, <1>2, <1>3, ApplyBeforeTruth, ApplyAfterTruth DEF IInv, ApplyNext
<1>4. CASE ReconcileNext
  BY <1>1, <1>2, <1>4, ReconcileTruth DEF IInv
<1>5. CASE UndoNext
  BY <1>1, <1>2, <1>5, UndoTruth DEF IInv
<1>6. CASE StartReconcile \/ UserNext \/ EnvironmentNext
  BY <1>1, <1>2, <1>6, OutsideTruth DEF IInv
<1>7. CASE UNCHANGED vars
  <2>1. UNCHANGED <<src, dst, unsynced, touched, disk, pc, cur, mem, uses>>
    BY <1>7 DEF vars, fileVars, reviewVars, envVars
  <2>2. TruthInv'
    BY <1>1, <2>1, TruthfulSame DEF TruthInv, Announced, FreshUntilApplied
  <2> QED BY <1>2, <2>2 DEF IInv
<1> QED BY <1>3, <1>4, <1>5, <1>6, <1>7 DEF Next, OperationNext

\* The journal brackets the truth: whatever the batch size, the failures, the
\* crashes, the power losses and the other programs, as long as a review is
\* applied at most once.
THEOREM JournalBracketsCorrect ==
  ASSUME MaxReviewUses \in {0, 1}
  PROVE  Spec => []JournalBrackets
<1>1. Init => IInv
  BY TypeInit, TruthInit DEF IInv
<1>2. IInv => JournalBrackets
  BY DEF IInv, TruthInv, Truthful, EntryTrue, JournalBrackets
<1> QED BY <1>1, <1>2, TruthStep, PTL DEF Spec

\* Write-ahead: a reviewed file is moved only under the journalled intention.
THEOREM WriteAheadCorrect ==
  ASSUME MaxReviewUses \in {0, 1}
  PROVE  Spec => WriteAhead
<1> DEFINE A == crashes' = crashes /\ externals' = externals =>
                  \A i \in Entry :
                    /\ src[i] = "own" /\ src'[i] # "own" => disk.st[i] = "Applying"
                    /\ dst[i] = "own" /\ dst'[i] # "own" => disk.st[i] = "RollingBack"
<1>1. Init => IInv
  BY TypeInit, TruthInit DEF IInv
<1>2. ASSUME IInv, [Next]_vars PROVE A
  <2>1. TypeInv /\ TruthInv /\ RunOK /\ FilesOK
    BY <1>2, TypeInvSplit DEF IInv
  <2>2. CASE UNCHANGED <<src, dst>>
    BY <2>2
  <2>3. ASSUME RenameForward PROVE A
    <3>1. pc \in EntryStep /\ pc \in BeforeRename
      BY <2>3 DEF RenameForward, EntryStep, BeforeRename
    <3>2. disk.st[cur] = "Applying"
      BY <2>1, <3>1, InFlightFacts
    <3> QED
      BY <2>1, <2>3, <3>2
         DEF RenameForward, RenameNoReplace, MoveForward, FilesOK, fileVars
  <2>4. ASSUME RestoreForeign PROVE A
    <3>1. dst[cur] # "own"
      BY <2>1, <2>4 DEF RestoreForeign, TruthInv, StepKnows
    <3> QED
      BY <2>1, <2>4, <3>1
         DEF RestoreForeign, RenameNoReplace, MoveBack, FilesOK, fileVars
  <2>5. ASSUME RenameBack PROVE A
    <3>1. pc \in EntryStep /\ pc \in BeforeReverse
      BY <2>5 DEF RenameBack, EntryStep, BeforeReverse
    <3>2. disk.st[cur] = "RollingBack"
      BY <2>1, <3>1, InFlightFacts
    <3> QED
      BY <2>1, <2>5, <3>2
         DEF RenameBack, RenameNoReplace, MoveBack, FilesOK, fileVars
  <2>6. CASE ApplyNext
    BY <2>2, <2>3, <2>4, <2>6
       DEF ApplyNext, JournalBatch, Commence, CancelApply, SkipEntry, RefuseEntry,
           CheckpointApplying, ReproveSource, RefuseUnbound, ConfirmRename, RestoreSync,
           SyncForward, LeaveInFlight, CommitForward, RecordApplied, FinishApply, fileVars
  <2>7. CASE ReconcileNext
    BY <2>2, <2>7 DEF ReconcileNext, PassSettledEntry, ReconcileEntry, Publish, fileVars
  <2>8. CASE UndoNext
    BY <2>2, <2>5, <2>8
       DEF UndoNext, BeginUndo, CancelUndo, PassUndoEntry, CheckpointRollingBack, ProveUndo,
           RefuseUnboundUndo, ConfirmUndo, SyncBack, LeaveUndoInFlight, CommitBack,
           RecordRolledBack, FinishUndo, fileVars
  <2>9. CASE StartReconcile \/ UserNext \/ UNCHANGED vars
    BY <2>2, <2>9
       DEF StartReconcile, UserNext, StartApply, StartUndo, CancelReview, vars, fileVars
  <2>10. CASE EnvironmentNext
    BY <2>1, <2>10
       DEF EnvironmentNext, ExternalChange, ProcessCrash, PowerLoss, Stop, RunOK
  <2> QED BY <1>2, <2>6, <2>7, <2>8, <2>9, <2>10 DEF Next, OperationNext
<1>3. IInv /\ [Next]_vars => [A]_vars
  BY <1>2
<1> QED BY <1>1, <1>3, TruthStep, PTL DEF Spec, WriteAhead
=============================================================================
